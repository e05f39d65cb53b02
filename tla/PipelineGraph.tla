--------------------------- MODULE PipelineGraph ---------------------------
(***************************************************************************)
(* The graph of a pipeline while the user puts it together, and what       *)
(* PipelineImpl::build makes of it: every connection that crosses from the *)
(* host to the device or back is replaced by a bridge, a pair of XLink     *)
(* nodes that talk over a named stream                                     *)
(*                                                                         *)
(*   device o -> XLinkOut  ~~ stream ~~>  XLinkInHost -> host input/queue  *)
(*   host o -> XLinkOutHost ~~ stream ~~> XLinkIn     -> device input      *)
(*                                                                         *)
(* Bridge b contributes two ports: XOut(b), the input of its first node,   *)
(* and XIn(b), the output of its second.                                   *)
(*                                                                         *)
(* A link is recorded twice in the code: in the set `connections` of the   *)
(* node that owns the output, from which the schema for the device is      *)
(* written, and in the vector `connectedInputs` of the output, along which *)
(* host outputs send.  The model keeps both (the vector as a count per     *)
(* sink: the order of sending matters to no property here), because the    *)
(* operations do not always change both.  `connectedOutputs` of an input   *)
(* is the mirror image of connectedInputs and is left out.                 *)
(*                                                                         *)
(* The user keeps a pointer to every node, so that a removed node lives    *)
(* on.  Record/replay, AutoCalibration, pipeline debugging and the build   *)
(* stages of the node types, which may add nodes before the bridges are    *)
(* made, are switched off or empty.                                        *)
(***************************************************************************)
EXTENDS Integers, FiniteSets, FiniteSetsExt, Sequences, Bags, Functions

CONSTANTS
    Nodes,       \* the user's nodes
    HostNodes,   \* the ones whose runOnHost() is true
    Outs,        \* outputs
    Ins,         \* inputs
    Owner,       \* [Outs \cup Ins -> Nodes]: getParent()
    PortName,    \* [Outs \cup Ins -> names]: <<group, name>> of a port
    QueueName,   \* [Outs -> names]: the name alone
    Subnodes,    \* [Nodes -> SUBSET Nodes]: nodeMap when the node is created
    CanConnect,  \* SUBSET (Outs \X Ins): canConnect, io types and datatypes
    Queues,      \* what createOutputQueue may return
    MaxBridges,  \* bound on the bridges ever created
    MaxTwin,     \* bound on the entries of one sink in a connectedInputs
    MaxOps       \* bound on the operations of the user

ASSUME GraphAssumption ==
    /\ HostNodes \subseteq Nodes
    /\ Owner \in [Outs \cup Ins -> Nodes]
    /\ Subnodes \in [Nodes -> SUBSET Nodes]
    /\ CanConnect \subseteq Outs \X Ins
    /\ Outs \cap Ins = {} /\ (Outs \cup Ins) \cap Queues = {}
    /\ \A p \in Outs \cup Ins \cup Queues : p \notin {"xin", "xout"} \X Nat
    /\ MaxBridges \in Nat
    /\ MaxTwin \in Nat \ {0}
    /\ MaxOps \in Nat

VARIABLES
    nodes,     \* PipelineImpl::nodes, the user's nodes among them
    nodeMap,   \* [Nodes -> SUBSET Nodes]: subnodes each node holds
    attached,  \* nodes whose `parent` is this pipeline
    conns,     \* all `connections`: <<source, sink>> is in the set of the
               \* node that owns the source
    inputs,    \* all connectedInputs: the bag of their <<source, sink>>
    qconns,    \* queueConnections: <<source, queue>>
    bridges,   \* the XLink pairs in the pipeline, in order of creation
    built,     \* isBuild
    pc,        \* where build() is: "user" when it is not running
    todo,      \* its loop: connections or queue connections still to visit
    bridgeOf,  \* its bridgesOut and bridgesIn: port -> bridge, or 0
    names,     \* its uniqueStreamNames
    failed,    \* history: some build() threw
    ops        \* operations of the user so far

graph == <<nodes, nodeMap, attached>>
links == <<conns, inputs, qconns>>
local == <<pc, todo, bridgeOf, names>>
vars == <<graph, links, bridges, built, local, failed, ops>>

XIn(b) == <<"xin", b>>
XOut(b) == <<"xout", b>>
Sources == Outs \cup {XIn(b) : b \in 1..MaxBridges}
Sinks == Ins \cup Queues \cup {XOut(b) : b \in 1..MaxBridges}
Ports == Outs \cup Ins

----------------------------------------------------------------------------
(* The nodes of the pipeline.                                              *)

\* A node and the subnodes below it (Node::getAllNodes; three levels are
\* as deep as Nodes reach here).
Below(n) ==
    LET kids == nodeMap[n]
    IN  {n} \cup kids \cup UNION {nodeMap[k] : k \in kids}

getAllNodes == UNION {Below(n) : n \in nodes}

\* The user's nodes that own the ends of a connection; a bridge's nodes are
\* created by build, are never removed and are always in the pipeline.
EndsAt(c, n) == \E p \in Ports : Owner[p] = n /\ (p = c[1] \/ p = c[2])
InPipeline(s) == s \in Outs => Owner[s] \in getAllNodes

\* runOnHost() of the node that owns a port.
OnHost(p) ==
    IF p \in Ports THEN Owner[p] \in HostNodes
    ELSE IF p[1] = "xin" THEN bridges[p[2]].dir = "out"
    ELSE bridges[p[2]].dir = "in"

----------------------------------------------------------------------------
(* The two records of the links, and what linking and unlinking make of    *)
(* them; std::remove takes every entry of the sink out of connectedInputs. *)

\* How often a sink is in the connectedInputs of a source.
Entries(s, x) == IF BagIn(<<s, x>>, inputs) THEN inputs[<<s, x>>] ELSE 0

Joined(ins, s, x) == ins (+) SetToBag({<<s, x>>})
Left(ins, s, x) == Restrict(ins, DOMAIN ins \ {<<s, x>>})

Records == [conns |-> conns, inputs |-> inputs]

Linked(l, s, x) ==
    [conns |-> l.conns \cup {<<s, x>>}, inputs |-> Joined(l.inputs, s, x)]

Unlinked(l, s, x) ==
    [conns |-> l.conns \ {<<s, x>>}, inputs |-> Left(l.inputs, s, x)]

BecomeLinks(l) == conns' = l.conns /\ inputs' = l.inputs

TypeOK ==
    /\ nodes \subseteq Nodes
    /\ nodeMap \in [Nodes -> SUBSET Nodes]
    /\ attached \subseteq Nodes
    /\ conns \subseteq Sources \X (Sinks \ Queues)
    /\ IsABag(inputs)
    /\ BagToSet(inputs) \subseteq Sources \X Sinks
    /\ qconns \subseteq Sources \X Queues
    /\ Len(bridges) <= MaxBridges
    /\ \A b \in 1..Len(bridges) :
          /\ bridges[b].dir \in {"out", "in"}
          /\ bridges[b].port \in IF bridges[b].dir = "out" THEN Outs ELSE Ins
          /\ bridges[b].open \in BOOLEAN
    /\ built \in BOOLEAN
    /\ pc \in {"user", "connections", "queues"}
    /\ bridgeOf \in [Ports -> 0..Len(bridges)]
    /\ failed \in BOOLEAN
    /\ ops \in 0..MaxOps

Init ==
    /\ nodes = {}
    /\ nodeMap = Subnodes
    /\ attached = {}
    /\ conns = {}
    /\ inputs = EmptyBag
    /\ qconns = {}
    /\ bridges = <<>>
    /\ built = FALSE
    /\ pc = "user"
    /\ todo = {}
    /\ bridgeOf = [p \in Ports |-> 0]
    /\ names = {}
    /\ failed = FALSE
    /\ ops = 0

----------------------------------------------------------------------------
(* The user's operations.                                                  *)

\* The user is not inside build().
UserCalls ==
    /\ pc = "user"
    /\ ops < MaxOps
    /\ ops' = ops + 1

\* PipelineImpl::add: throws when the node is already among getAllNodes.
addNode(n) ==
    /\ UserCalls
    /\ n \notin getAllNodes
    /\ nodes' = nodes \cup {n}
    /\ attached' = attached \cup Below(n)
    /\ UNCHANGED <<nodeMap, links, bridges, built, local, failed>>

\* Output::link: throws unless the ports match and are not linked yet.  It
\* asks neither that the nodes are in the pipeline nor that the pipeline is
\* not built.
link(o, i) ==
    /\ UserCalls
    /\ <<o, i>> \in CanConnect
    /\ <<o, i>> \notin conns
    /\ Entries(o, i) < MaxTwin
    /\ BecomeLinks(Linked(Records, o, i))
    /\ UNCHANGED <<graph, qconns, bridges, built, local, failed>>

\* Output::unlink: throws when the connection is not there.
unlink(o, i) ==
    /\ UserCalls
    /\ <<o, i>> \in conns
    /\ BecomeLinks(Unlinked(Records, o, i))
    /\ UNCHANGED <<graph, qconns, bridges, built, local, failed>>

\* Output::createOutputQueue: the queue is new; the pipeline must not be
\* built.
createOutputQueue(o, q) ==
    /\ UserCalls
    /\ Owner[o] \in attached
    /\ ~built
    /\ \A s \in Sources : <<s, q>> \notin qconns
    /\ inputs' = Joined(inputs, o, q)
    /\ qconns' = qconns \cup {<<o, q>>}
    /\ UNCHANGED <<graph, conns, bridges, built, local, failed>>

\* The connections PipelineImpl::remove erases: those of the nodes still in
\* the pipeline that begin or end at n or at one of its own subnodes.
\* Every remaining top-level node runs Node::remove, so nothing happens when
\* none remains.
ErasedBy(n, left) ==
    {c \in conns :
        /\ left # {} \/ bridges # <<>>
        /\ c[1] \in Outs => Owner[c[1]] \in UNION {Below(t) : t \in left}
        /\ \E m \in {n} \cup nodeMap[n] : EndsAt(c, m)}

\* PipelineImpl::remove with Node::remove and Node::removeConnectionToNode.
remove(n) ==
    /\ UserCalls
    /\ ~built
    /\ n \in attached
    /\ LET left == nodes \ {n}
       IN  /\ nodes' = left
           /\ conns' = conns \ ErasedBy(n, left)
           /\ nodeMap' = [m \in Nodes |->
                             IF m \in left THEN nodeMap[m] \ {n}
                             ELSE nodeMap[m]]
    /\ UNCHANGED <<attached, inputs, qconns, bridges, built, local, failed>>

----------------------------------------------------------------------------
(* PipelineImpl::build.                                                    *)

\* The guard, the snapshot of getConnectionsInternal and the empty maps.
\* The bound leaves room for a bridge per device port.
BuildBegins ==
    /\ pc = "user"
    /\ ~built
    /\ Len(bridges) + Cardinality({p \in Ports : ~OnHost(p)}) <= MaxBridges
    /\ pc' = "connections"
    /\ todo' = {c \in conns : InPipeline(c[1])}
    /\ bridgeOf' = [p \in Ports |-> 0]
    /\ names' = {}
    /\ UNCHANGED <<graph, links, bridges, built, failed, ops>>

\* The two nodes of a bridge are created before the name of its stream is
\* checked.
NextBridge == Len(bridges) + 1
NewBridge(dir, p, name, ok) ==
    Append(bridges, [dir |-> dir, port |-> p, open |-> ok,
                     stream |-> <<Owner[p], name>>])

\* The name of the stream is taken: build() throws, and leaves behind what
\* it has done so far and the two nodes without a stream.
BuildFails(dir, p, name) ==
    /\ bridgeOf[p] = 0
    /\ <<Owner[p], name>> \in names
    /\ bridges' = NewBridge(dir, p, name, FALSE)
    /\ pc' = "user"
    /\ todo' = {}
    /\ bridgeOf' = [x \in Ports |-> 0]
    /\ names' = {}
    /\ failed' = TRUE
    /\ UNCHANGED <<graph, links, built, ops>>

\* Mutant: nobody looks whether the name is taken.
BridgedUnchecked(dir, p, name, fresh) ==
    /\ fresh = (bridgeOf[p] = 0)
    /\ fresh =>
          /\ bridges' = NewBridge(dir, p, name, TRUE)
          /\ bridgeOf' = [bridgeOf EXCEPT ![p] = NextBridge]
          /\ names' = names \cup {<<Owner[p], name>>}
    /\ ~fresh => UNCHANGED <<bridges, bridgeOf, names>>

\* The bridge of port p in this build, made now (fresh) if there is none.
Bridged(dir, p, name, fresh) ==
    /\ fresh = (bridgeOf[p] = 0)
    /\ fresh =>
          /\ <<Owner[p], name>> \notin names
          /\ bridges' = NewBridge(dir, p, name, TRUE)
          /\ bridgeOf' = [bridgeOf EXCEPT ![p] = NextBridge]
          /\ names' = names \cup {<<Owner[p], name>>}
    /\ ~fresh => UNCHANGED <<bridges, bridgeOf, names>>

\* Mutant: the original link is left in place.
BridgeOutKeepingLink(o, i) ==
    \E fresh \in BOOLEAN :
       /\ Bridged("out", o, PortName[o], fresh)
       /\ LET b == IF fresh THEN NextBridge ELSE bridgeOf[o]
              l == IF fresh THEN Linked(Records, o, XOut(b)) ELSE Records
          IN  BecomeLinks(Linked(l, XIn(b), i))

\* Device -> host: o keeps one link, to its bridge; the bridge's host end
\* is linked to the input in o's place.
BridgeOut(o, i) ==
    \E fresh \in BOOLEAN :
       /\ Bridged("out", o, PortName[o], fresh)
       /\ LET b == IF fresh THEN NextBridge ELSE bridgeOf[o]
              l == IF fresh THEN Linked(Records, o, XOut(b)) ELSE Records
          IN  BecomeLinks(Linked(Unlinked(l, o, i), XIn(b), i))

\* Host -> device: one bridge per input; every host output that fed the
\* input feeds its bridge.
BridgeIn(o, i) ==
    \E fresh \in BOOLEAN :
       /\ Bridged("in", i, PortName[i], fresh)
       /\ LET b == IF fresh THEN NextBridge ELSE bridgeOf[i]
              l == IF fresh THEN Linked(Records, XIn(b), i) ELSE Records
          IN  BecomeLinks(Linked(Unlinked(l, o, i), o, XOut(b)))

\* One turn of the loop over the connections.
VisitConnection ==
    /\ pc = "connections"
    /\ \E c \in todo :
          \/ /\ ~OnHost(c[1]) /\ OnHost(c[2])
             /\ \/ BuildFails("out", c[1], PortName[c[1]])
                \/ /\ BridgeOut(c[1], c[2])
                   /\ todo' = todo \ {c}
                   /\ UNCHANGED <<graph, qconns, built, pc, failed, ops>>
          \/ /\ OnHost(c[1]) /\ ~OnHost(c[2])
             /\ \/ BuildFails("in", c[2], PortName[c[2]])
                \/ /\ BridgeIn(c[1], c[2])
                   /\ todo' = todo \ {c}
                   /\ UNCHANGED <<graph, qconns, built, pc, failed, ops>>
          \/ /\ OnHost(c[1]) = OnHost(c[2])
             /\ todo' = todo \ {c}
             /\ UNCHANGED <<graph, links, bridges, built, pc, bridgeOf, names,
                            failed, ops>>

\* Mutant: queues on device outputs are forgotten.
ConnectionsVisitedOnly ==
    /\ pc = "connections"
    /\ todo = {}
    /\ pc' = "queues"
    /\ todo' = {}
    /\ UNCHANGED <<graph, links, bridges, built, bridgeOf, names, failed, ops>>

\* After the connections, the queues of the device outputs.
ConnectionsVisited ==
    /\ pc = "connections"
    /\ todo = {}
    /\ pc' = "queues"
    /\ todo' = {c \in qconns : c[1] \in Outs /\ ~OnHost(c[1]) /\ InPipeline(c[1])}
    /\ UNCHANGED <<graph, links, bridges, built, bridgeOf, names, failed, ops>>

\* An output queue of a device output moves to the host end of the bridge.
BridgeQueue(o, q) ==
    \E fresh \in BOOLEAN :
       /\ Bridged("out", o, QueueName[o], fresh)
       /\ LET b == IF fresh THEN NextBridge ELSE bridgeOf[o]
              l == IF fresh THEN Linked(Records, o, XOut(b)) ELSE Records
          IN  /\ conns' = l.conns
              /\ inputs' = Joined(Left(l.inputs, o, q), XIn(b), q)
              /\ qconns' = (qconns \ {<<o, q>>}) \cup {<<XIn(b), q>>}

\* One turn of the loop over the queues of the device outputs.
VisitQueue ==
    /\ pc = "queues"
    /\ \E c \in todo :
          \/ BuildFails("out", c[1], QueueName[c[1]])
          \/ /\ BridgeQueue(c[1], c[2])
             /\ todo' = todo \ {c}
             /\ UNCHANGED <<graph, built, pc, failed, ops>>

BuildEnds ==
    /\ pc = "queues"
    /\ todo = {}
    /\ pc' = "user"
    /\ built' = TRUE
    /\ bridgeOf' = [p \in Ports |-> 0]
    /\ names' = {}
    /\ UNCHANGED <<graph, links, bridges, todo, failed, ops>>

build == \/ BuildBegins
         \/ VisitConnection
         \/ ConnectionsVisited
         \/ VisitQueue
         \/ BuildEnds

Next ==
    \/ \E n \in Nodes : addNode(n) \/ remove(n)
    \/ \E o \in Outs, i \in Ins : link(o, i) \/ unlink(o, i)
    \/ \E o \in Outs, q \in Queues : createOutputQueue(o, q)
    \/ build

Spec == Init /\ [][Next]_vars

----------------------------------------------------------------------------
(* From which outputs a message gets to which inputs and queues.           *)

\* How many copies of a message a send brings to x: host outputs send along
\* connectedInputs, device outputs along the connections of the schema.
Copies(s, x) ==
    IF OnHost(s) THEN Entries(s, x)
    ELSE IF <<s, x>> \in conns \cup qconns THEN 1 ELSE 0

CopiesSent(o, x) ==
    Copies(o, x) +
    MapThenSumSet(LAMBDA b : Copies(o, XOut(b)) * Copies(XIn(b), x),
                  1..Len(bridges))

(* Invariants.                                                             *)

\* Two bridges that are open never share a stream (nor, therefore, a port),
\* as long as no build() threw: XLink finds the two ends of a stream by its
\* name alone.
OpenStreamsDiffer ==
    \A b, c \in 1..Len(bridges) :
        b # c /\ bridges[b].open /\ bridges[c].open =>
            bridges[b].stream # bridges[c].stream

StreamsDifferUnlessRetried == ~failed => OpenStreamsDiffer

\* What the comments on remove say: after it, nothing in the pipeline sends
\* to an input it is not connected to.
SendsOnlyAlongConnections ==
    \A o \in Outs, i \in Ins :
        Owner[o] \in getAllNodes /\ BagIn(<<o, i>>, inputs) => <<o, i>> \in conns

\* What the documentation of link says, that a second link of the same two
\* ports throws: a message gets to an input at most once.
LinkedOnce == \A o \in Outs, i \in Ins : CopiesSent(o, i) <= 1

(* Action properties.                                                      *)

\* build() rewires, and changes for nobody where messages get to: no turn of
\* its loops, not even one that throws, cuts an input or a queue off from an
\* output that reached it, or brings a message to one more place or to the
\* same place once more.
BuildKeepsDelivery ==
    [][pc # "user" =>
          \A o \in Outs, x \in Ins \cup Queues :
              /\ CopiesSent(o, x) > 0 => CopiesSent(o, x)' > 0
              /\ CopiesSent(o, x)' <= CopiesSent(o, x)]_vars

\* When build() is done, no connection of the pipeline leads from a host
\* node to a device node or back, and no queue hangs on a device output.
Crossing(c) == InPipeline(c[1]) /\
               OnHost(c[1]) # (c[2] \in Queues \/ OnHost(c[2]))
BuildBridgesAll ==
    [][~built /\ built' => ~ \E c \in conns \cup qconns : Crossing(c)]_vars
============================================================================

---------------------------- MODULE MessageDemux ----------------------------
(***************************************************************************)
(* The MessageDemux node (src/pipeline/node/MessageDemux.cpp): it takes a  *)
(* message group apart and sends each member to the output of its name.    *)
(*                                                                         *)
(* The messages on the input are numbered; carries[g] is the set of names  *)
(* in message g, and NotAGroup stands for a message of another type.  Each *)
(* output feeds a blocking queue of maxSize OutCap.                        *)
(***************************************************************************)
EXTENDS Integers, Sequences

CONSTANTS NOutputs, OutCap, MaxGroups

DemuxAssumption == NOutputs \in Nat \ {0} /\ OutCap \in Nat \ {0} /\ MaxGroups \in Nat

Outputs == 1 .. NOutputs
NotAGroup == {0}

VARIABLES carries,        \* per message that arrived: the names in it
          next,           \* the next message to take
          outputQueue, outputsClosed,  \* the queues behind the outputs
          inClosed, demuxRunning,
          demuxAt, o,     \* the node's place and the output it is at
          delivered       \* per output: the groups whose member was sent

surroundings == <<carries, outputQueue, outputsClosed, inClosed, demuxRunning>>
demuxVars == <<carries, next, outputQueue, outputsClosed, inClosed, demuxRunning, demuxAt,
               o, delivered>>

DemuxInit == /\ carries = <<>> /\ next = 1
             /\ outputQueue = [x \in Outputs |-> <<>>]
             /\ outputsClosed = [x \in Outputs |-> FALSE]
             /\ inClosed = FALSE /\ demuxRunning = TRUE
             /\ demuxAt = "loop" /\ o = 1
             /\ delivered = [x \in Outputs |-> <<>>]

-----------------------------------------------------------------------------
(* The surroundings. *)

receiveGroup(names) == /\ ~inClosed /\ Len(carries) < MaxGroups
                       /\ carries' = Append(carries, names)
                       /\ UNCHANGED <<next, outputQueue, outputsClosed, inClosed,
                                      demuxRunning, demuxAt, o, delivered>>

consume(x) == /\ outputQueue[x] # <<>>
              /\ outputQueue' = [outputQueue EXCEPT ![x] = Tail(@)]
              /\ UNCHANGED <<carries, next, outputsClosed, inClosed, demuxRunning,
                             demuxAt, o, delivered>>

\* The pipeline stops; a consumer may also close its queue at any time.
stopDemux == /\ \/ demuxRunning /\ demuxRunning' = FALSE /\ UNCHANGED inClosed
                \/ ~demuxRunning /\ ~inClosed /\ inClosed' = TRUE /\ UNCHANGED demuxRunning
             /\ UNCHANGED <<carries, next, outputQueue, outputsClosed, demuxAt, o,
                            delivered>>

closeDemuxOutput(x) == /\ ~outputsClosed[x]
                       /\ outputsClosed' = [outputsClosed EXCEPT ![x] = TRUE]
                       /\ UNCHANGED <<carries, next, outputQueue, inClosed, demuxRunning,
                                      demuxAt, o, delivered>>

-----------------------------------------------------------------------------
(* MessageDemux::run. *)

demuxLoop == /\ demuxAt = "loop"
             /\ demuxAt' = IF demuxRunning THEN "get" ELSE "ended"
             /\ UNCHANGED <<surroundings, next, o, delivered>>

\* input.get<MessageGroup>: anything but a group is skipped.
get == /\ demuxAt = "get" /\ ~inClosed /\ next <= Len(carries)
       /\ next' = next + 1
       /\ \/ carries[next] = NotAGroup /\ demuxAt' = "loop" /\ UNCHANGED o
          \/ carries[next] # NotAGroup /\ demuxAt' = "outputs" /\ o' = 1
       /\ UNCHANGED <<surroundings, delivered>>

Group == next - 1
Advance == IF o < NOutputs THEN o' = o + 1 /\ UNCHANGED demuxAt
                           ELSE demuxAt' = "loop" /\ UNCHANGED o

\* Faulty variant: a missing member ends the distribution of the group.
skipRest == /\ demuxAt = "outputs" /\ o \notin carries[Group]
            /\ demuxAt' = "loop" /\ UNCHANGED o
            /\ UNCHANGED <<surroundings, next, delivered>>

\* A group without a member of this name: log an error, next output.
skip == /\ demuxAt = "outputs" /\ o \notin carries[Group]
        /\ Advance
        /\ UNCHANGED <<surroundings, next, delivered>>

\* output.send: blocks while the queue behind the output is full.
sendMember == /\ demuxAt = "outputs" /\ o \in carries[Group]
              /\ ~outputsClosed[o] /\ Len(outputQueue[o]) < OutCap
              /\ outputQueue' = [outputQueue EXCEPT ![o] = Append(@, Group)]
              /\ delivered' = [delivered EXCEPT ![o] = Append(@, Group)]
              /\ Advance
              /\ UNCHANGED <<carries, outputsClosed, inClosed, demuxRunning, next>>

DemuxQueueException == /\ \/ demuxAt = "get" /\ inClosed
                          \/ demuxAt = "outputs" /\ o \in carries[Group] /\ outputsClosed[o]
                       /\ demuxAt' = "ended"
                       /\ UNCHANGED <<surroundings, next, o, delivered>>

DemuxStep == demuxLoop \/ get \/ skip \/ sendMember \/ DemuxQueueException

DemuxNext == \/ \E names \in (SUBSET Outputs) \cup {NotAGroup} : receiveGroup(names)
             \/ \E x \in Outputs : consume(x) \/ closeDemuxOutput(x)
             \/ stopDemux \/ DemuxStep

DemuxSpec == /\ DemuxInit /\ [][DemuxNext]_demuxVars
             /\ WF_demuxVars(DemuxStep) /\ \A x \in Outputs : WF_demuxVars(consume(x))

-----------------------------------------------------------------------------
(* Properties. *)

\* The queues keep their bound and hold groups that were taken.
DemuxTypeOK == /\ carries \in Seq((SUBSET Outputs) \cup {NotAGroup})
               /\ next \in 1 .. Len(carries) + 1
               /\ outputQueue \in [Outputs -> Seq(1 .. Group)]
               /\ \A x \in Outputs : Len(outputQueue[x]) <= OutCap
               /\ delivered \in [Outputs -> Seq(1 .. Group)]
               /\ outputsClosed \in [Outputs -> BOOLEAN]
               /\ inClosed \in BOOLEAN /\ demuxRunning \in BOOLEAN
               /\ demuxAt \in {"loop", "get", "outputs", "ended"} /\ o \in Outputs

\* The groups an output should have had a member of once group g is done.
Due(x, g) == {i \in 1 .. g : carries[i] # NotAGroup /\ x \in carries[i]}

\* s holds the numbers in S, each once and in order.
Lists(s, S) == /\ {s[i] : i \in DOMAIN s} = S
               /\ \A i, j \in DOMAIN s : i < j => s[i] < s[j]

(***************************************************************************)
(* Every output receives the member of exactly the groups that have one    *)
(* for it, once and in order, whatever other outputs lack or block on.     *)
(* Only the group being distributed, or the one a closed queue cut short,  *)
(* may have reached some outputs (those before a cut) and not the others.  *)
(***************************************************************************)
ExactDelivery ==
    \E cut \in 1 .. NOutputs + 1 :
        /\ demuxAt = "outputs" => cut = o
        /\ demuxAt \in {"loop", "get"} => cut = NOutputs + 1
        /\ \A x \in Outputs : Lists(delivered[x], Due(x, IF x < cut THEN Group ELSE Group - 1))

\* A group taken is distributed to the end, unless a closed queue ends the node.
GroupsComplete == demuxAt = "outputs" ~> demuxAt # "outputs"

=============================================================================

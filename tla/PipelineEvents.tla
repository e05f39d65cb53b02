--------------------------- MODULE PipelineEvents ---------------------------
(***************************************************************************)
(* How a node's events become durations: PipelineEventDispatcher and       *)
(* BlockPipelineEvent send a START and an END (src/utility), and the       *)
(* thread of PipelineEventAggregation pairs them by their sequence number  *)
(* (src/pipeline/node/internal/PipelineEventAggregation.cpp).  The queue   *)
(* between them does not block: it drops the oldest event.                 *)
(*                                                                         *)
(* Threads share one dispatcher: those of the node, of its producers and   *)
(* of the tasks of HostNode.  Its mutex is held while an event is sent; no *)
(* call under it waits, so sending is one step.  A source's event is its   *)
(* sequence number; times and queue sizes are left out.                    *)
(***************************************************************************)
EXTENDS CircularBuffer, FiniteSets

CONSTANTS Threads, Emitters,
          AggSize,          \* size of the queue of the aggregation's input
          eventWaitWindow,
          MaxEvents         \* bound: events constructed, pings

LOOP == "_mainLoop"
ASSUME EventsAssumption == {AggSize, eventWaitWindow} \subseteq Nat \ {0} /\ LOOP \notin Emitters

VARIABLES sequence,         \* PipelineEventDispatcherInterface::sequence
          block,            \* thread -> the BlockPipelineEvent it is in
          loops,            \* pings of the main loop
          events,           \* the input queue of the aggregation
          ongoing,          \* source -> CircularBuffer of sequence numbers
          shown,            \* source -> is it shown as waiting?
          durations,        \* pairs <<START, END>> measured
          starts,           \* history: source -> its STARTs as they were sent
          succeeded,        \* history: events that ended well
          excused,          \* history: those that no END may find
          lost              \* history: was an event dropped?

eventVars == <<sequence, block, loops, events, ongoing, shown, durations, starts, succeeded,
               excused, lost>>

Idle == [source |-> LOOP, seq |-> 0, at |-> "none"]
NoEvent == 0    \* std::nullopt in a buffer

EventsInit ==
    /\ sequence = 1 /\ loops = 0
    /\ block = [t \in Threads |-> Idle]
    /\ events = <<>>
    /\ ongoing = [s \in Emitters \cup {LOOP} |-> Empty]
    /\ shown = [s \in Emitters |-> FALSE]
    /\ durations = <<>>
    /\ starts = [s \in Emitters |-> <<>>]
    /\ succeeded = {} /\ excused = {} /\ lost = FALSE

Event(s, n, interval, status) ==
    [source |-> s, seq |-> n, interval |-> interval, status |-> status]

\* out->send: a full queue drops its oldest event.
Send(e) ==
    IF Len(events) < AggSize
    THEN events' = Append(events, e) /\ UNCHANGED lost
    ELSE events' = Append(Tail(events), e) /\ lost' = TRUE

\* A BlockPipelineEvent takes its number before, and outside of, the mutex.
BlockPipelineEvent(t, s) ==
    /\ block[t] = Idle
    /\ sequence <= MaxEvents
    /\ block' = [block EXCEPT ![t] = [source |-> s, seq |-> sequence, at |-> "constructed"]]
    /\ sequence' = sequence + 1
    /\ UNCHANGED <<loops, events, ongoing, shown, durations, starts, succeeded, excused, lost>>

startTrackedEvent(t) ==
    /\ block[t].at = "constructed"
    /\ block' = [block EXCEPT ![t].at = "started"]
    /\ Send(Event(block[t].source, block[t].seq, "START", "SUCCESS"))
    /\ starts' = [starts EXCEPT ![block[t].source] = Append(@, block[t].seq)]
    /\ UNCHANGED <<sequence, loops, ongoing, shown, durations, succeeded, excused>>

\* The STARTs of s sent after that of n.
Later(s, n) ==
    LET i == CHOOSE j \in DOMAIN starts[s] : starts[s][j] = n IN
    SubSeq(starts[s], i + 1, Len(starts[s]))

\* No END can find the START of n: it is out of the window, or behind one that
\* has a smaller number, was sent later and is not measured.
Unfindable(s, n) ==
    \/ Len(Later(s, n)) >= eventWaitWindow
    \/ \E i \in DOMAIN Later(s, n) :
        Later(s, n)[i] < n /\ <<s, Later(s, n)[i]>> \notin succeeded \ excused

endTrackedEvent(t) ==
    /\ block[t].at = "started"
    /\ block' = [block EXCEPT ![t] = Idle]
    /\ LET s == block[t].source
           n == block[t].seq IN
        \/ /\ Send(Event(s, n, "END", "SUCCESS"))
           /\ succeeded' = succeeded \cup {<<s, n>>}
           /\ excused' = IF Unfindable(s, n) THEN excused \cup {<<s, n>>} ELSE excused
        \/ Send(Event(s, n, "END", "CANCELLED")) /\ UNCHANGED <<succeeded, excused>>
    /\ UNCHANGED <<sequence, loops, ongoing, shown, durations, starts>>

\* The scope is left by an exception: end sends nothing, and the thread stops.
\* (One that catches it and goes on is another member of Threads from there: a
\* block knows its source and number, not its thread.)
uncaughtException(t) ==
    /\ block[t].at = "started"
    /\ block' = [block EXCEPT ![t].at = "thrown"]
    /\ UNCHANGED <<sequence, loops, events, ongoing, shown, durations, starts, succeeded,
                   excused, lost>>

pingMainLoopEvent ==
    /\ loops < MaxEvents
    /\ loops' = loops + 1
    /\ Send(Event(LOOP, loops + 1, "NONE", "SUCCESS"))
    /\ UNCHANGED <<sequence, block, ongoing, shown, durations, starts, succeeded, excused>>

----------------------------------------------------------------------------
(* NodeEventAggregation.                                                   *)

\* The place of the START numbered n: the search goes from the newest to the
\* oldest, over empty places, and ends at a smaller number.
findOngoingEvent(n, b) ==
    LET Value(pos) == b.buffer[at(b, eventWaitWindow, pos) + 1] IN
    {at(b, eventWaitWindow, pos) + 1 : pos \in
        {p \in 0 .. Len(b.buffer) - 1 :
            /\ Value(p) = n
            /\ \A q \in p + 1 .. Len(b.buffer) - 1 : Value(q) = NoEvent \/ Value(q) > n}}

AddStart(e) == ongoing' = [ongoing EXCEPT ![e.source] = add(@, e.seq, eventWaitWindow)]

updateIntervalBuffers(e) ==
    LET found == findOngoingEvent(e.seq, ongoing[e.source]) IN
    \/ /\ e.interval = "END" /\ found # {}
       /\ durations' = Append(durations, <<e.source, e.seq, e.seq>>)
       /\ ongoing' = [ongoing EXCEPT ![e.source].buffer[CHOOSE i \in found : TRUE] = NoEvent]
    \/ /\ e.interval = "END" /\ found = {}
       /\ UNCHANGED <<durations, ongoing>>
    \/ e.interval = "START" /\ AddStart(e) /\ UNCHANGED durations

\* A ping ends what the one before began.
updatePingBuffers(e) ==
    LET found == findOngoingEvent(e.seq - 1, ongoing[e.source]) IN
    /\ durations' = IF e.seq > 1 /\ found # {}
                    THEN Append(durations, <<e.source, e.seq - 1, e.seq>>) ELSE durations
    /\ AddStart(e)

Shown(e) == [shown EXCEPT ![e.source] = (e.interval = "START")]

\* Mutant: a START takes the place of the one before.
addOnlyNewest ==
    /\ events # <<>>
    /\ events' = Tail(events)
    /\ LET e == Head(events) IN
        IF e.interval = "START"
        THEN /\ ongoing' = [ongoing EXCEPT ![e.source] = add(Empty, e.seq, eventWaitWindow)]
             /\ shown' = Shown(e) /\ UNCHANGED durations
        ELSE IF e.interval = "NONE" THEN updatePingBuffers(e) /\ UNCHANGED shown
        ELSE updateIntervalBuffers(e) /\ shown' = Shown(e)
    /\ UNCHANGED <<sequence, block, loops, starts, succeeded, excused, lost>>

\* The handler's thread adds the event at the head of the queue.
addEvent ==
    /\ events # <<>>
    /\ events' = Tail(events)
    /\ LET e == Head(events) IN
        /\ shown' = IF e.interval = "NONE" THEN shown ELSE Shown(e)
        /\ \/ e.status = "CANCELLED" /\ UNCHANGED <<durations, ongoing>>
           \/ e.status = "SUCCESS" /\ e.interval = "NONE" /\ updatePingBuffers(e)
           \/ e.status = "SUCCESS" /\ e.interval # "NONE" /\ updateIntervalBuffers(e)
    /\ UNCHANGED <<sequence, block, loops, starts, succeeded, excused, lost>>

EventsNext ==
    \/ \E t \in Threads :
        \/ \E s \in Emitters : BlockPipelineEvent(t, s)
        \/ startTrackedEvent(t) \/ endTrackedEvent(t) \/ uncaughtException(t)
    \/ pingMainLoopEvent
    \/ addEvent

----------------------------------------------------------------------------
(* Properties.                                                             *)

Measured == {durations[i] : i \in DOMAIN durations}

\* An event is measured once, and only if it ended well: not one that was
\* cancelled or left by an exception (PipelineEventAggregation.cpp:379-384).
MeasuredOnce ==
    /\ Len(durations) = Cardinality(Measured)
    /\ \A d \in Measured : d[1] # LOOP => <<d[1], d[2]>> \in succeeded

\* Unless the queue overflowed, every event that ended well is measured in the
\* end: that of a task which overlaps others too, if fewer than eventWaitWindow
\* STARTs came in between and no START overtook another that was numbered
\* before it (PipelineEventAggregation.cpp:77-87, PipelineEventDispatcherInterface.hpp:38).
EveryEventIsMeasured ==
    events = <<>> /\ ~lost =>
        /\ \A e \in succeeded \ excused : <<e[1], e[2], e[2]>> \in Measured
        /\ \A n \in 2 .. loops : <<LOOP, n - 1, n>> \in Measured

\* When all is handled, a source that is shown as waiting has a thread in it
\* (PipelineEventAggregation.cpp:348-358).
ShownIsWaiting ==
    events = <<>> /\ ~lost =>
        \A s \in Emitters : shown[s] => \E t \in Threads :
            block[t].source = s /\ block[t].at \in {"started", "thrown"}

\* What PipelineEventAggregation tells of the events is what happened.
EventsAreMeasured == MeasuredOnce /\ EveryEventIsMeasured /\ ShownIsWaiting

=============================================================================

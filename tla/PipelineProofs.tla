--------------------------- MODULE PipelineProofs ---------------------------
(***************************************************************************)
(* What is proved of a pipeline: of the buffers it measures with           *)
(* (CircularBuffer), for every size and every value; of the durations it   *)
(* makes of events (PipelineEvents), for any threads, emitters and sizes   *)
(* of queue and window; of what it answers when it is asked for its state  *)
(* (PipelineStates), for any users, programs and sizes; and of what        *)
(* build() makes of its graph (PipelineGraph), for any nodes, ports, links *)
(* and queues.                                                             *)
(***************************************************************************)
EXTENDS PipelineGraph, PipelineEvents, PipelineStates, SequenceTheorems, FiniteSetTheorems, TLAPS

----------------------------------------------------------------------------
(* CircularBuffer.                                                         *)

\* The buffers that add and clear make.
Buffers(T, maxSize) ==
    {b \in [buffer : Seq(T), index : Nat] :
        /\ Len(b.buffer) <= maxSize
        /\ b.index < maxSize
        /\ Len(b.buffer) < maxSize => b.index = 0}

\* An empty buffer is one (CircularBuffer.hpp:25-27, 76-79).
THEOREM EmptyIsBuffer == ASSUME NEW T, NEW m \in Nat \ {0} PROVE Empty \in Buffers(T, m)
BY DEF Empty, Buffers

\* add keeps the vector within maxSize, and its index inside
\* (CircularBuffer.hpp:30-41).
THEOREM AddIsBuffer ==
    ASSUME NEW T, NEW m \in Nat \ {0}, NEW b \in Buffers(T, m), NEW v \in T
    PROVE  add(b, v, m) \in Buffers(T, m)
<1>1. CASE Len(b.buffer) < m
    BY <1>1 DEF add, Buffers
<1>2. CASE ~(Len(b.buffer) < m)
    <2>1. Len(b.buffer) = m /\ b.index + 1 \in 1 .. m
        BY <1>2 DEF Buffers
    <2>2. /\ [b.buffer EXCEPT ![b.index + 1] = v] \in Seq(T)
          /\ Len([b.buffer EXCEPT ![b.index + 1] = v]) = m
        BY <2>1 DEF Buffers
    <2> QED BY <1>2, <2>1, <2>2 DEF add, Buffers
<1> QED BY <1>1, <1>2

\* getBuffer lists the values of the vector in the order in which at and the
\* iterators meet them (CircularBuffer.hpp:43-52, 81-88, 91-199).
THEOREM IteratorsAgree ==
    ASSUME NEW T, NEW m \in Nat \ {0}, NEW b \in Buffers(T, m),
           NEW pos \in 0 .. Len(b.buffer) - 1
    PROVE  /\ Len(getBuffer(b, m)) = Len(b.buffer)
           /\ at(b, m, pos) \in 0 .. Len(b.buffer) - 1
           /\ getBuffer(b, m)[pos + 1] = b.buffer[at(b, m, pos) + 1]
<1> DEFINE n == Len(b.buffer)
<1>1. CASE n < m
    BY <1>1 DEF Buffers, getBuffer, at, start
<1>2. CASE ~(n < m)
    <2>1. n = m /\ b.index \in 0 .. m - 1 /\ b.buffer \in Seq(T)
        BY <1>2 DEF Buffers
    <2>2. /\ Len(SubSeq(b.buffer, b.index + 1, n)) = n - b.index
          /\ \A i \in 1 .. n - b.index : SubSeq(b.buffer, b.index + 1, n)[i] = b.buffer[b.index + i]
          /\ SubSeq(b.buffer, b.index + 1, n) \in Seq(T)
        BY <2>1
    <2>3. /\ Len(SubSeq(b.buffer, 1, b.index)) = b.index
          /\ \A i \in 1 .. b.index : SubSeq(b.buffer, 1, b.index)[i] = b.buffer[i]
          /\ SubSeq(b.buffer, 1, b.index) \in Seq(T)
        <3>1. \A i \in 1 .. b.index : b.buffer[i] \in T
            BY <2>1
        <3>2. SubSeq(b.buffer, 1, b.index) = [i \in 1 .. b.index |-> b.buffer[i]]
            BY <2>1
        <3> QED BY <2>1, <3>1, <3>2
    <2>4. getBuffer(b, m) = SubSeq(b.buffer, b.index + 1, n) \o SubSeq(b.buffer, 1, b.index)
        BY <1>2 DEF getBuffer
    <2>5. at(b, m, pos) = IF b.index + pos < n THEN b.index + pos ELSE b.index + pos - n
        BY <1>2, <2>1 DEF at, start
    <2>6. Len(getBuffer(b, m)) = n
        BY <2>1, <2>2, <2>3, <2>4
    <2> DEFINE s == SubSeq(b.buffer, b.index + 1, n)
               t == SubSeq(b.buffer, 1, b.index)
    <2>7. CASE pos + 1 <= n - b.index
        <3>1. getBuffer(b, m)[pos + 1] = s[pos + 1]
            <4> HIDE DEF s, t
            <4> QED BY <2>1, <2>2, <2>3, <2>4, <2>7 DEF s, t
        <3>2. at(b, m, pos) = b.index + pos
            BY <2>1, <2>5, <2>7
        <3>3. s[pos + 1] = b.buffer[b.index + (pos + 1)]
            BY <2>1, <2>2, <2>7
        <3>4. b.index + (pos + 1) = at(b, m, pos) + 1 /\ at(b, m, pos) \in 0 .. n - 1
            BY <2>1, <2>7, <3>2
        <3> QED BY <2>6, <3>1, <3>3, <3>4
    <2>8. CASE ~(pos + 1 <= n - b.index)
        <3>1. getBuffer(b, m)[pos + 1] = t[pos + 1 - (n - b.index)]
            <4>1. s \in Seq(T) /\ t \in Seq(T) /\ Len(s) = n - b.index /\ Len(t) = b.index
                BY <2>2, <2>3
            <4>2. getBuffer(b, m) = s \o t
                BY <2>4
            <4> HIDE DEF s, t
            <4> QED BY <2>1, <2>8, <4>1, <4>2
        <3>2. at(b, m, pos) = b.index + pos - n
            BY <2>1, <2>5, <2>8
        <3>3. t[pos + 1 - (n - b.index)] = b.buffer[pos + 1 - (n - b.index)]
            BY <2>1, <2>3, <2>8
        <3>4. pos + 1 - (n - b.index) = at(b, m, pos) + 1 /\ at(b, m, pos) \in 0 .. n - 1
            BY <2>1, <2>8, <3>2
        <3> QED BY <2>6, <3>1, <3>3, <3>4
    <2> QED BY <2>7, <2>8
<1> QED BY <1>1, <1>2

\* add slides the window: the value comes last, the others keep their order,
\* and the oldest goes when there are maxSize of them (CircularBuffer.hpp:30-52).
THEOREM AddSlides ==
    ASSUME NEW T, NEW m \in Nat \ {0}, NEW b \in Buffers(T, m), NEW v \in T
    PROVE  LET old == getBuffer(b, m)
               new == getBuffer(add(b, v, m), m)
               full == Len(b.buffer) = m IN
           /\ Len(new) = IF full THEN m ELSE Len(old) + 1
           /\ new[Len(new)] = v
           /\ \A i \in 1 .. Len(new) - 1 : new[i] = old[IF full THEN i + 1 ELSE i]
<1> DEFINE c == add(b, v, m)
           n == Len(b.buffer)
<1>1. c \in Buffers(T, m)
    BY AddIsBuffer
<1>2. /\ n \in 0 .. m /\ b.index \in 0 .. m - 1 /\ b.buffer \in Seq(T)
      /\ n < m => b.index = 0
    BY DEF Buffers
<1>3. /\ Len(getBuffer(c, m)) = Len(c.buffer)
      /\ Len(getBuffer(b, m)) = n
    <2>1. n = 0 => Len(getBuffer(b, m)) = n
        BY <1>2 DEF getBuffer
    <2>2. n # 0 => Len(getBuffer(b, m)) = n
        <3>1. SUFFICES ASSUME n # 0 PROVE Len(getBuffer(b, m)) = n
            OBVIOUS
        <3>2. 0 \in 0 .. Len(b.buffer) - 1
            BY <1>2, <3>1
        <3> QED BY <3>2, IteratorsAgree
    <2>3. Len(c.buffer) \in Nat \ {0}
        BY <1>2 DEF add
    <2>4. 0 \in 0 .. Len(c.buffer) - 1
        BY <2>3
    <2>5. Len(getBuffer(c, m)) = Len(c.buffer)
        <3> HIDE DEF c
        <3> QED BY <1>1, <2>4, IteratorsAgree
    <2> QED BY <2>1, <2>2, <2>5
<1>4. CASE n < m
    <2>1. c.buffer = Append(b.buffer, v) /\ c.index = 0
        BY <1>2, <1>4 DEF add, Buffers
    <2>2. getBuffer(b, m) = b.buffer
        BY <1>4 DEF getBuffer
    <2>3. getBuffer(c, m) = c.buffer
        <3>1. CASE Len(c.buffer) < m
            BY <3>1 DEF getBuffer
        <3>2. CASE ~(Len(c.buffer) < m)
            <4>1. c.buffer \in Seq(T)
                BY <1>2, <2>1
            <4>2. /\ SubSeq(c.buffer, 1, Len(c.buffer)) = c.buffer
                  /\ SubSeq(c.buffer, 1, 0) = << >>
                <5> HIDE DEF c
                <5> QED BY <4>1
            <4> HIDE DEF c
            <4> QED BY <2>1, <3>2, <4>1, <4>2 DEF getBuffer
        <3> QED BY <3>1, <3>2
    <2> QED BY <1>2, <1>4, <2>1, <2>2, <2>3
<1>5. CASE n = m
    <2>1. /\ c.buffer = [b.buffer EXCEPT ![b.index + 1] = v]
          /\ c.index = IF b.index + 1 = m THEN 0 ELSE b.index + 1
          /\ Len(c.buffer) = m
          /\ b.index + 1 \in 1 .. m
          /\ \A j \in 1 .. m : c.buffer[j] = IF j = b.index + 1 THEN v ELSE b.buffer[j]
        BY <1>2, <1>5 DEF add
    <2>2. ASSUME NEW i \in 1 .. m
          PROVE  getBuffer(c, m)[i] = IF i = m THEN v ELSE getBuffer(b, m)[i + 1]
        <3>1. i - 1 \in 0 .. Len(c.buffer) - 1
            BY <2>1
        <3>2. /\ getBuffer(c, m)[(i - 1) + 1] = c.buffer[at(c, m, i - 1) + 1]
              /\ at(c, m, i - 1) \in 0 .. m - 1
            <4>1. Len(c.buffer) = m
                BY <2>1
            <4> HIDE DEF c
            <4> QED BY <1>1, <3>1, <4>1, IteratorsAgree
        <3>6. getBuffer(c, m)[i] = c.buffer[at(c, m, i - 1) + 1]
            <4>1. (i - 1) + 1 = i
                OBVIOUS
            <4> HIDE DEF c
            <4> QED BY <3>2, <4>1
        <3>3. at(c, m, i - 1) = IF c.index + (i - 1) < m THEN c.index + (i - 1)
                                                      ELSE c.index + (i - 1) - m
            <4> HIDE DEF c
            <4> QED BY <2>1 DEF at, start
        <3>4. CASE i = m
            <4>1. at(c, m, i - 1) = b.index
                <5> HIDE DEF c
                <5> QED BY <1>2, <2>1, <3>3, <3>4
            <4>2. c.buffer[b.index + 1] = v
                <5> HIDE DEF c
                <5> QED BY <2>1
            <4> HIDE DEF c
            <4> QED BY <3>4, <3>6, <4>1, <4>2
        <3>5. CASE i # m
            <4>1. i \in 0 .. Len(b.buffer) - 1
                BY <1>5, <3>5
            <4>2. getBuffer(b, m)[i + 1] = b.buffer[at(b, m, i) + 1]
                BY <4>1, IteratorsAgree
            <4>3. at(b, m, i) = IF b.index + i < m THEN b.index + i ELSE b.index + i - m
                BY <1>2, <1>5 DEF at, start
            <4>4. at(c, m, i - 1) = at(b, m, i) /\ at(b, m, i) # b.index
                <5>1. c.index = IF b.index + 1 = m THEN 0 ELSE b.index + 1
                    BY <2>1
                <5> HIDE DEF c
                <5> QED BY <1>2, <3>3, <3>5, <4>3, <5>1
            <4>5. at(b, m, i) + 1 \in 1 .. m /\ at(b, m, i) + 1 # b.index + 1
                <5> HIDE DEF c
                <5> QED BY <1>2, <3>2, <4>4
            <4>6. c.buffer[at(b, m, i) + 1] = b.buffer[at(b, m, i) + 1]
                <5> HIDE DEF c
                <5> QED BY <2>1, <4>5
            <4> HIDE DEF c
            <4> QED BY <3>5, <3>6, <4>2, <4>4, <4>6
        <3> QED BY <3>4, <3>5
    <2> HIDE DEF c
    <2>3. Len(getBuffer(c, m)) = m
        BY <1>3, <2>1
    <2>4. getBuffer(c, m)[m] = v
        BY <2>2
    <2>5. \A i \in 1 .. m - 1 : getBuffer(c, m)[i] = getBuffer(b, m)[i + 1]
        BY <2>2
    <2> QED BY <1>5, <2>3, <2>4, <2>5 DEF c
<1> QED BY <1>2, <1>4, <1>5

----------------------------------------------------------------------------
(* PipelineEvents.                                                         *)

EventsPromise == EventsInit /\ [][EventsNext]_eventVars

EventSources == Emitters \cup {LOOP}
EventRecords == [source : EventSources, seq : Nat \ {0}, interval : {"START", "END", "NONE"},
                 status : {"SUCCESS", "CANCELLED"}]
Blocks == [source : EventSources, seq : Nat, at : {"none", "constructed", "started", "thrown"}]

EventsTypeOK ==
    /\ sequence \in Nat \ {0} /\ loops \in Nat /\ lost \in BOOLEAN
    /\ block \in [Threads -> Blocks]
    /\ events \in Seq(EventRecords)
    /\ ongoing \in [EventSources -> Buffers(Nat, eventWaitWindow)]
    /\ shown \in [Emitters -> BOOLEAN]
    /\ durations \in Seq(EventSources \X Nat \X Nat)
    /\ starts \in [Emitters -> Seq(Nat \ {0})]
    /\ succeeded \subseteq Emitters \X Nat /\ excused \subseteq succeeded

Queued == 1 .. Len(events)
StartOf(s, n) == Event(s, n, "START", "SUCCESS")
EndOf(s, n) == Event(s, n, "END", "SUCCESS")
Ping(n) == Event(LOOP, n, "NONE", "SUCCESS")

Started(s, n) == s \in Emitters /\ \E j \in 1 .. Len(starts[s]) : starts[s][j] = n
Ended(n) == \A t \in Threads : block[t].at = "none" \/ block[t].seq # n

\* The thread's event: its number is its own, and it is started once.
BlockNumbered(t) ==
    /\ block[t].at # "none" =>
         /\ block[t].source \in Emitters /\ block[t].seq \in 1 .. sequence - 1
         /\ \A u \in Threads : block[u].at # "none" /\ block[u].seq = block[t].seq => u = t
    /\ block[t].at = "constructed" => \A s \in Emitters : ~Started(s, block[t].seq)
    /\ block[t].at \in {"started", "thrown"} => Started(block[t].source, block[t].seq)

\* A number is started once.
StartsNumbered ==
    /\ \A s \in Emitters : \A j \in 1 .. Len(starts[s]) : starts[s][j] < sequence
    /\ \A r, s \in Emitters : \A i \in 1 .. Len(starts[r]), j \in 1 .. Len(starts[s]) :
         starts[r][i] = starts[s][j] => r = s /\ i = j

\* What can be in the queue: a ping, a START that is not measured yet, or the
\* END, not measured yet either, of an event that its thread has left.
RightEvent(i) == \A s \in EventSources, n \in Nat :
    events[i].source = s /\ events[i].seq = n =>
       LET measured == <<s, n, n>> \in Measured IN
       \/ events[i] = Ping(n) /\ n <= loops
       \/ events[i] = StartOf(s, n) /\ Started(s, n) /\ ~measured
       \/ /\ events[i].interval = "END" /\ Started(s, n) /\ Ended(n) /\ ~measured
          /\ events[i].status = "SUCCESS" => <<s, n>> \in succeeded
EventsRight == \A i \in Queued : RightEvent(i)

\* No event is in the queue twice, the pings are in their order, and a START
\* comes before its END.
InTurn(i, j) ==
    /\ events[i].interval = events[j].interval => events[i].seq # events[j].seq
    /\ events[i].interval = "NONE" /\ events[j].interval = "NONE" => events[i].seq < events[j].seq
    /\ events[i].interval = "END" /\ events[j].interval = "START" => events[i].seq # events[j].seq
EventsInTurn == \A i, j \in Queued : i < j => InTurn(i, j)

SuccessesRight == \A s \in Emitters, n \in Nat : <<s, n>> \in succeeded => Started(s, n) /\ Ended(n)

\* What is measured happened, and is measured once.
MeasuredRight ==
    /\ \A s \in Emitters, m, n \in Nat : <<s, m, n>> \in Measured => m = n /\ <<s, n>> \in succeeded
    /\ \A m, n \in Nat : <<LOOP, m, n>> \in Measured =>
         n <= loops /\ \A i \in Queued : events[i].interval = "NONE" => n < events[i].seq
DurationsDiffer == \A i, j \in 1 .. Len(durations) : durations[i] = durations[j] => i = j

\* A thread is between its START and its END.
Inside(s) == \E t \in Threads : block[t].source = s /\ block[t].at \in {"started", "thrown"}
Latest(s, i) == events[i].source = s /\ \A j \in Queued : i < j => events[j].source # s
LatestStartIsInside ==
    \A s \in Emitters, i \in Queued : Latest(s, i) /\ events[i].interval = "START" => Inside(s)
ShownInside == \A s \in Emitters : shown[s] /\ (\A i \in Queued : events[i].source # s) => Inside(s)

\* Of the STARTs of s, k are handled, and the last of them are in its buffer,
\* without those that are measured.
Window(s, k) ==
    LET g == getBuffer(ongoing[s], eventWaitWindow) IN
    /\ k \in 0 .. Len(starts[s])
    /\ \A j \in 1 .. Len(starts[s]) : k < j <=> \E i \in Queued : events[i] = StartOf(s, starts[s][j])
    /\ Len(g) = IF k < eventWaitWindow THEN k ELSE eventWaitWindow
    /\ \A p \in 1 .. Len(g) :
         LET n == starts[s][k - Len(g) + p] IN
         g[p] = IF <<s, n, n>> \in Measured THEN NoEvent ELSE n
StartsInOrder ==
    \A s \in Emitters : \A i, j \in 1 .. Len(starts[s]), a, b \in Queued :
       events[a] = StartOf(s, starts[s][i]) /\ events[b] = StartOf(s, starts[s][j]) /\ i < j => a < b

\* Of the pings, h are handled, and the last of them is in the buffer.
PingWindow(h) ==
    LET g == getBuffer(ongoing[LOOP], eventWaitWindow) IN
    /\ h \in 0 .. loops
    /\ \A n \in 1 .. loops : h < n <=> \E i \in Queued : events[i] = Ping(n)
    /\ h > 0 => Len(g) > 0 /\ g[Len(g)] = h
    /\ \A n \in 2 .. h : <<LOOP, n - 1, n>> \in Measured

\* An END that finds its START comes before place i.
EndBefore(s, n, i) == <<s, n>> \notin excused /\ \E a \in 1 .. i - 1 : events[a] = EndOf(s, n)
StartAfter(s, n, i) == \E a \in i + 1 .. Len(events) : events[a] = StartOf(s, n)
Measures(s, n, i) == <<s, n, n>> \in Measured \/ EndBefore(s, n, i)

\* What ended well and is not excused is measured, or will be.
Covered == \A s \in Emitters, n \in Nat : <<s, n>> \in succeeded \ excused =>
    <<s, n, n>> \in Measured \/ \E i \in Queued : events[i] = EndOf(s, n)

\* The END of n at place i finds its START, the j-th of s.
Findable(s, n, j, i) ==
    \A l \in j + 1 .. Len(starts[s]), m \in Nat : starts[s][l] = m /\ ~StartAfter(s, m, i) =>
       /\ l < j + eventWaitWindow
       /\ m < n => Measures(s, m, i)
EndsFind ==
    \A s \in Emitters, n \in Nat, i \in Queued : events[i] = EndOf(s, n) /\ <<s, n>> \notin excused =>
       \A j \in 1 .. Len(starts[s]) : starts[s][j] = n => Findable(s, n, j, i)

NothingLost ==
    /\ \A s \in Emitters : \E k \in Nat : Window(s, k)
    /\ \E h \in Nat : PingWindow(h)
    /\ StartsInOrder /\ Covered /\ EndsFind /\ ShownInside

----------------------------------------------------------------------------
(* The queue of the aggregation.                                           *)

\* The sent event is the last of the queue; the others move up if the oldest is
\* dropped, and only then is one lost.
LEMMA SendTyped ==
    ASSUME EventsAssumption, EventsTypeOK, NEW e \in EventRecords, Send(e)
    PROVE  /\ events' \in Seq(EventRecords) /\ Len(events') \in Nat \ {0}
           /\ events'[Len(events')] = e /\ lost' \in BOOLEAN
           /\ \E d \in {0, 1} :
                /\ Len(events') = Len(events) + 1 - d
                /\ \A i \in 1 .. Len(events') - 1 : i + d \in Queued /\ events'[i] = events[i + d]
                /\ ~lost' => ~lost /\ d = 0
<1>1. events \in Seq(EventRecords) /\ Len(events) \in Nat /\ lost \in BOOLEAN
  BY DEF EventsTypeOK
<1>2. CASE Len(events) < AggSize
  <2>1. events' = Append(events, e) /\ lost' = lost
    BY <1>2 DEF Send
  <2>2. /\ events' \in Seq(EventRecords) /\ Len(events') = Len(events) + 1
        /\ events'[Len(events) + 1] = e
        /\ \A i \in 1 .. Len(events) : events'[i] = events[i]
    BY <1>1, <2>1, AppendProperties
  <2>3. \A i \in 1 .. Len(events') - 1 : i + 0 \in Queued /\ events'[i] = events[i + 0]
    BY <1>1, <2>2 DEF Queued
  <2>4. Len(events') = Len(events) + 1 - 0
    BY <1>1, <2>2
  <2> QED
    BY <1>1, <2>1, <2>2, <2>3, <2>4
<1>3. CASE ~(Len(events) < AggSize)
  <2>1. events' = Append(Tail(events), e) /\ lost' = TRUE
    BY <1>3 DEF Send
  <2>2. events # <<>>
    BY <1>1, <1>3 DEF EventsAssumption
  <2>3. /\ Tail(events) \in Seq(EventRecords) /\ Len(Tail(events)) = Len(events) - 1
        /\ \A i \in 1 .. Len(events) - 1 : Tail(events)[i] = events[i + 1]
    BY <1>1, <2>2, HeadTailProperties
  <2>4. /\ events' \in Seq(EventRecords) /\ Len(events') = Len(events)
        /\ events'[Len(events)] = e
        /\ \A i \in 1 .. Len(events) - 1 : events'[i] = events[i + 1]
    <3>1. /\ Append(Tail(events), e) \in Seq(EventRecords)
          /\ Len(Append(Tail(events), e)) = Len(Tail(events)) + 1
          /\ Append(Tail(events), e)[Len(Tail(events)) + 1] = e
          /\ \A i \in 1 .. Len(Tail(events)) : Append(Tail(events), e)[i] = Tail(events)[i]
      BY <2>3, AppendProperties
    <3> QED
      BY <1>1, <2>1, <2>3, <3>1
  <2>5. Len(events) \in Nat \ {0}
    BY <1>1, <2>2
  <2>6. /\ Len(events') = Len(events) + 1 - 1
        /\ \A i \in 1 .. Len(events') - 1 : i + 1 \in Queued /\ events'[i] = events[i + 1]
    BY <2>4, <2>5 DEF Queued
  <2> QED
    BY <2>1, <2>4, <2>5, <2>6
<1> QED
  BY <1>2, <1>3

\* The head is handled: the others move up.
LEMMA HandleTyped ==
    ASSUME EventsTypeOK, events # <<>>, events' = Tail(events)
    PROVE  /\ events' \in Seq(EventRecords) /\ Len(events') = Len(events) - 1
           /\ Len(events) \in Nat \ {0} /\ 1 \in Queued
           /\ Head(events) = events[1] /\ events[1] \in EventRecords
           /\ \A i \in Queued' : i + 1 \in Queued /\ events'[i] = events[i + 1]
           /\ \A i \in Queued : i = 1 \/ (i - 1 \in Queued' /\ events'[i - 1] = events[i])
<1>1. events \in Seq(EventRecords) /\ Len(events) \in Nat \ {0}
  BY DEF EventsTypeOK
<1>2. /\ events' \in Seq(EventRecords) /\ Len(events') = Len(events) - 1
      /\ \A i \in 1 .. Len(events) - 1 : events'[i] = events[i + 1]
      /\ Head(events) = events[1]
  BY <1>1, HeadTailProperties
<1>3. events[1] \in EventRecords
  BY <1>1
<1>4. \A i \in Queued' : i + 1 \in Queued /\ events'[i] = events[i + 1]
  BY <1>1, <1>2 DEF Queued
<1>5. \A i \in Queued : i = 1 \/ (i - 1 \in Queued' /\ events'[i - 1] = events[i])
  BY <1>1, <1>2 DEF Queued
<1> QED
  BY <1>1, <1>2, <1>3, <1>4, <1>5 DEF Queued

\* What the three kinds of events in the queue are.
LEMMA Kinds ==
    ASSUME EventsAssumption, EventsTypeOK, NEW i \in Queued, RightEvent(i)
    PROVE  LET e == events[i] IN
           /\ e \in EventRecords
           /\ e.interval = "NONE" => e = Ping(e.seq) /\ e.seq <= loops /\ e.source = LOOP
           /\ e.interval \in {"START", "END"} =>
                /\ e.source \in Emitters /\ Started(e.source, e.seq)
                /\ <<e.source, e.seq, e.seq>> \notin Measured
           /\ e.interval = "START" => e = StartOf(e.source, e.seq)
           /\ e.interval = "END" =>
                /\ Ended(e.seq)
                /\ e.status = "SUCCESS" => e = EndOf(e.source, e.seq) /\ <<e.source, e.seq>> \in succeeded
<1> DEFINE e == events[i]
<1>1. e \in EventRecords
  BY DEF EventsTypeOK, Queued
<1>2. /\ e.source \in EventSources /\ e.seq \in Nat \ {0} /\ e.interval \in {"START", "END", "NONE"}
      /\ e.status \in {"SUCCESS", "CANCELLED"}
      /\ e = [source |-> e.source, seq |-> e.seq, interval |-> e.interval, status |-> e.status]
  BY <1>1 DEF EventRecords
<1>3. \/ e = Ping(e.seq) /\ e.seq <= loops
      \/ e = StartOf(e.source, e.seq) /\ Started(e.source, e.seq) /\ <<e.source, e.seq, e.seq>> \notin Measured
      \/ /\ e.interval = "END" /\ Started(e.source, e.seq) /\ Ended(e.seq)
         /\ <<e.source, e.seq, e.seq>> \notin Measured
         /\ e.status = "SUCCESS" => <<e.source, e.seq>> \in succeeded
  <2>1. PICK s \in EventSources, n \in Nat : s = events[i].source /\ n = events[i].seq
    BY <1>2
  <2> QED
    BY <2>1 DEF RightEvent
<1> HIDE DEF e
<1>4. CASE e = Ping(e.seq) /\ e.seq <= loops
  <2>1. e.interval = "NONE" /\ e.source = LOOP
    BY <1>4 DEF Ping, Event
  <2> QED
    BY <1>1, <1>4, <2>1 DEF e
<1>5. CASE e = StartOf(e.source, e.seq) /\ Started(e.source, e.seq) /\ <<e.source, e.seq, e.seq>> \notin Measured
  <2>1. e.interval = "START" /\ e.source \in Emitters
    BY <1>5 DEF StartOf, Event, Started
  <2> QED
    BY <1>1, <1>5, <2>1 DEF e
<1>6. CASE /\ e.interval = "END" /\ Started(e.source, e.seq) /\ Ended(e.seq)
           /\ <<e.source, e.seq, e.seq>> \notin Measured
           /\ e.status = "SUCCESS" => <<e.source, e.seq>> \in succeeded
  <2>1. e.source \in Emitters
    BY <1>6 DEF Started
  <2>2. e.status = "SUCCESS" => e = EndOf(e.source, e.seq)
    BY <1>2, <1>6 DEF EndOf, Event
  <2> QED
    BY <1>1, <1>6, <2>1, <2>2 DEF e
<1> QED
  BY <1>3, <1>4, <1>5, <1>6

----------------------------------------------------------------------------
(* Types.                                                                  *)

LEMMA InitEventsTyped == ASSUME EventsAssumption PROVE EventsInit => EventsTypeOK
<1> SUFFICES ASSUME EventsInit PROVE EventsTypeOK
  OBVIOUS
<1>1. Empty \in Buffers(Nat, eventWaitWindow)
  BY EmptyIsBuffer DEF EventsAssumption
<1>2. Idle \in Blocks
  BY DEF Idle, Blocks, EventSources
<1>3. block \in [Threads -> Blocks]
  BY <1>2 DEF EventsInit
<1>4. ongoing \in [EventSources -> Buffers(Nat, eventWaitWindow)]
  <2>1. ongoing = [s \in EventSources |-> Empty]
    BY DEF EventsInit, EventSources
  <2> QED
    BY ONLY <1>1, <2>1
<1>5. starts \in [Emitters -> Seq(Nat \ {0})] /\ shown \in [Emitters -> BOOLEAN]
  <2>1. starts = [s \in Emitters |-> <<>>] /\ shown = [s \in Emitters |-> FALSE]
    BY DEF EventsInit
  <2>2. <<>> \in Seq(Nat \ {0})
    OBVIOUS
  <2> QED
    BY <2>1, <2>2
<1>6. events \in Seq(EventRecords) /\ durations \in Seq(EventSources \X Nat \X Nat)
  BY DEF EventsInit
<1>7. /\ sequence \in Nat \ {0} /\ loops \in Nat /\ lost \in BOOLEAN
      /\ succeeded \subseteq Emitters \X Nat /\ excused \subseteq succeeded
  <2>1. sequence = 1 /\ loops = 0 /\ lost = FALSE /\ succeeded = {} /\ excused = {}
    BY DEF EventsInit
  <2>2. sequence \in Nat \ {0} /\ loops \in Nat
    BY ONLY <2>1
  <2> QED
    BY ONLY <2>1, <2>2, Zenon
<1> QED
  BY <1>3, <1>4, <1>5, <1>6, <1>7 DEF EventsTypeOK

\* What a thread's block can be.
LEMMA BlockKinds ==
    ASSUME EventsTypeOK, NEW t \in Threads
    PROVE  /\ block[t] \in Blocks /\ block[t].seq \in Nat /\ block[t].source \in EventSources
           /\ block[t].at \in {"none", "constructed", "started", "thrown"}
BY DEF EventsTypeOK, Blocks

LEMMA StartTyped ==
    ASSUME EventsAssumption, EventsTypeOK, NEW t \in Threads, BlockNumbered(t), startTrackedEvent(t)
    PROVE  /\ StartOf(block[t].source, block[t].seq) \in EventRecords
           /\ Send(StartOf(block[t].source, block[t].seq))
           /\ block[t].source \in Emitters /\ block[t].seq \in Nat \ {0}
           /\ EventsTypeOK'
<1>1. /\ block[t].source \in Emitters /\ block[t].seq \in 1 .. sequence - 1 /\ sequence \in Nat
  BY DEF BlockNumbered, startTrackedEvent, EventsTypeOK
<1>2. block[t].seq \in Nat \ {0}
  BY <1>1
<1> DEFINE e == StartOf(block[t].source, block[t].seq)
<1>3. e \in EventRecords
  BY <1>1, <1>2 DEF StartOf, Event, EventRecords, EventSources
<1>4. Send(e)
  BY DEF startTrackedEvent, StartOf
<1> HIDE DEF e
<1>5. events' \in Seq(EventRecords) /\ lost' \in BOOLEAN
  BY <1>3, <1>4, SendTyped
<1>6. block' \in [Threads -> Blocks]
  BY DEF EventsTypeOK, startTrackedEvent, Blocks
<1>7. starts' \in [Emitters -> Seq(Nat \ {0})]
  <2>1. Append(starts[block[t].source], block[t].seq) \in Seq(Nat \ {0})
    BY <1>1, <1>2 DEF EventsTypeOK
  <2> QED
    BY <1>1, <2>1 DEF EventsTypeOK, startTrackedEvent
<1>8. UNCHANGED <<sequence, loops, ongoing, shown, durations, succeeded, excused>>
  BY DEF startTrackedEvent
<1> QED
  BY <1>1, <1>2, <1>3, <1>4, <1>5, <1>6, <1>7, <1>8 DEF EventsTypeOK, e

\* What an END is: the thread leaves its block; the event ended well, or not.
LEMMA EndTyped ==
    ASSUME EventsAssumption, EventsTypeOK, NEW t \in Threads, BlockNumbered(t), endTrackedEvent(t)
    PROVE  \E s \in Emitters, n \in Nat \ {0}, e \in EventRecords :
             /\ s = block[t].source /\ n = block[t].seq /\ block[t].at = "started" /\ Started(s, n)
             /\ e.source = s /\ e.seq = n /\ e.interval = "END" /\ Send(e)
             /\ \/ /\ e = EndOf(s, n) /\ succeeded' = succeeded \cup {<<s, n>>}
                   /\ excused' = IF Unfindable(s, n) THEN excused \cup {<<s, n>>} ELSE excused
                \/ e.status = "CANCELLED" /\ UNCHANGED <<succeeded, excused>>
             /\ EventsTypeOK'
<1>1. /\ block[t].source \in Emitters /\ block[t].seq \in 1 .. sequence - 1 /\ sequence \in Nat
      /\ Started(block[t].source, block[t].seq) /\ block[t].at = "started"
  BY DEF BlockNumbered, endTrackedEvent, EventsTypeOK
<1>2. PICK s \in Emitters, n \in Nat \ {0} : s = block[t].source /\ n = block[t].seq
  BY <1>1
<1> DEFINE good == EndOf(s, n)
           bad == Event(s, n, "END", "CANCELLED")
<1>3. /\ good \in EventRecords /\ good.source = s /\ good.seq = n /\ good.interval = "END"
      /\ bad \in EventRecords /\ bad.source = s /\ bad.seq = n /\ bad.interval = "END" /\ bad.status = "CANCELLED"
  BY DEF EndOf, Event, EventRecords, EventSources
<1>4. \/ /\ Send(good) /\ succeeded' = succeeded \cup {<<s, n>>}
         /\ excused' = IF Unfindable(s, n) THEN excused \cup {<<s, n>>} ELSE excused
      \/ Send(bad) /\ UNCHANGED <<succeeded, excused>>
  BY <1>2 DEF endTrackedEvent, EndOf
<1> HIDE DEF good, bad
<1>5. events' \in Seq(EventRecords) /\ lost' \in BOOLEAN
  BY <1>3, <1>4, SendTyped
<1>6. block' \in [Threads -> Blocks]
  <2>1. Idle \in Blocks
    BY DEF Idle, Blocks, EventSources
  <2> QED
    BY <2>1 DEF EventsTypeOK, endTrackedEvent
<1>7. succeeded' \subseteq Emitters \X Nat /\ excused' \subseteq succeeded'
  BY <1>4 DEF EventsTypeOK
<1>8. UNCHANGED <<sequence, loops, ongoing, shown, durations, starts>>
  BY DEF endTrackedEvent
<1>9. EventsTypeOK'
  BY <1>5, <1>6, <1>7, <1>8 DEF EventsTypeOK
<1>10. CASE /\ Send(good) /\ succeeded' = succeeded \cup {<<s, n>>}
            /\ excused' = IF Unfindable(s, n) THEN excused \cup {<<s, n>>} ELSE excused
  <2>1. good = EndOf(s, n)
    BY DEF good
  <2> QED
    BY <1>1, <1>2, <1>3, <1>9, <1>10, <2>1
<1>11. CASE Send(bad) /\ UNCHANGED <<succeeded, excused>>
  BY <1>1, <1>2, <1>3, <1>9, <1>11
<1> QED
  BY <1>4, <1>10, <1>11

LEMMA PingTyped ==
    ASSUME EventsAssumption, EventsTypeOK, pingMainLoopEvent
    PROVE  Ping(loops + 1) \in EventRecords /\ Send(Ping(loops + 1)) /\ EventsTypeOK'
<1>1. loops + 1 \in Nat \ {0}
  BY DEF EventsTypeOK
<1>2. Ping(loops + 1) \in EventRecords /\ Send(Ping(loops + 1))
  BY <1>1 DEF Ping, Event, EventRecords, EventSources, pingMainLoopEvent
<1>3. events' \in Seq(EventRecords) /\ lost' \in BOOLEAN
  BY <1>2, SendTyped
<1>4. /\ loops' = loops + 1
      /\ UNCHANGED <<sequence, block, ongoing, shown, durations, starts, succeeded, excused>>
  BY DEF pingMainLoopEvent
<1> QED
  BY <1>1, <1>2, <1>3, <1>4 DEF EventsTypeOK

LEMMA BlockTyped ==
    ASSUME EventsTypeOK, NEW t \in Threads, NEW s \in Emitters, BlockPipelineEvent(t, s)
    PROVE  EventsTypeOK'
<1>1. [source |-> s, seq |-> sequence, at |-> "constructed"] \in Blocks /\ sequence + 1 \in Nat \ {0}
  BY DEF EventsTypeOK, Blocks, EventSources
<1> QED
  BY <1>1 DEF EventsTypeOK, BlockPipelineEvent

LEMMA ThrowTyped ==
    ASSUME EventsTypeOK, NEW t \in Threads, uncaughtException(t)
    PROVE  EventsTypeOK'
<1>1. block' \in [Threads -> Blocks]
  BY DEF EventsTypeOK, uncaughtException, Blocks
<1> QED
  BY <1>1 DEF EventsTypeOK, uncaughtException

----------------------------------------------------------------------------
(* Numbers.                                                                *)

\* What a step that is not addEvent does to the numbers and to what is measured.
LEMMA InitEventsNumbered ==
    ASSUME EventsAssumption, EventsInit
    PROVE  (\A t \in Threads : BlockNumbered(t)) /\ StartsNumbered /\ SuccessesRight
<1>1. ASSUME NEW t \in Threads PROVE BlockNumbered(t)
  BY DEF EventsInit, BlockNumbered, Idle
<1>2. \A s \in Emitters : starts[s] = <<>>
  BY DEF EventsInit
<1>3. StartsNumbered
  BY <1>2 DEF StartsNumbered
<1>4. SuccessesRight
  BY DEF EventsInit, SuccessesRight
<1> QED
  BY <1>1, <1>3, <1>4

\* A thread starts its event: the STARTs of the others, and what is numbered.
LEMMA StartAppended ==
    ASSUME EventsAssumption, EventsTypeOK, NEW t \in Threads, BlockNumbered(t), startTrackedEvent(t),
           NEW s, s = block[t].source, NEW n, n = block[t].seq
    PROVE  /\ starts[s] \in Seq(Nat \ {0}) /\ Len(starts[s]) \in Nat
           /\ Len(starts'[s]) = Len(starts[s]) + 1 /\ starts'[s][Len(starts[s]) + 1] = n
           /\ \A j \in 1 .. Len(starts[s]) : starts'[s][j] = starts[s][j]
           /\ \A r \in Emitters : r # s => starts'[r] = starts[r]
           /\ \A r : Started(r, n)' => r = s
           /\ Started(s, n)' /\ ~Started(s, n)
           /\ \A r, m : Started(r, m)' => Started(r, m) \/ (r = s /\ m = n)
           /\ \A r, m : Started(r, m) => Started(r, m)'
<1>1. s \in Emitters /\ n \in Nat \ {0} /\ starts[s] \in Seq(Nat \ {0})
  BY StartTyped DEF EventsTypeOK
<1>2. starts' = [starts EXCEPT ![s] = Append(starts[s], n)]
  BY DEF startTrackedEvent
<1>3. /\ Len(starts'[s]) = Len(starts[s]) + 1 /\ starts'[s][Len(starts[s]) + 1] = n
      /\ \A j \in 1 .. Len(starts[s]) : starts'[s][j] = starts[s][j]
      /\ Len(starts[s]) \in Nat
  <2>1. starts'[s] = Append(starts[s], n)
    BY <1>1, <1>2 DEF EventsTypeOK
  <2> QED
    BY <1>1, <2>1, AppendProperties
<1>4. \A r \in Emitters : r # s => starts'[r] = starts[r]
  BY <1>2 DEF EventsTypeOK
<1>5. \A r \in Emitters : ~Started(r, n)
  BY DEF BlockNumbered, startTrackedEvent
<1>6. ASSUME NEW r, NEW m, Started(r, m)' PROVE Started(r, m) \/ (r = s /\ m = n)
  <2>1. r \in Emitters
    BY <1>6 DEF Started
  <2>2. CASE r # s
    BY <1>4, <1>6, <2>1, <2>2 DEF Started
  <2>3. CASE r = s
    <3>1. PICK j \in 1 .. Len(starts'[s]) : starts'[s][j] = m
      BY <1>6, <2>3 DEF Started
    <3>2. j \in 1 .. Len(starts[s]) \/ j = Len(starts[s]) + 1
      BY <1>3
    <3> QED
      BY <1>1, <1>3, <2>3, <3>1, <3>2 DEF Started
  <2> QED
    BY <2>2, <2>3
<1>7. ASSUME NEW r, NEW m, Started(r, m) PROVE Started(r, m)'
  <2>1. PICK j \in 1 .. Len(starts[r]) : starts[r][j] = m
    BY <1>7 DEF Started
  <2>2. r \in Emitters
    BY <1>7 DEF Started
  <2>3. CASE r # s
    BY <1>4, <1>7, <2>2, <2>3 DEF Started
  <2>4. CASE r = s
    <3>1. j \in 1 .. Len(starts'[s]) /\ starts'[s][j] = m
      BY <1>3, <2>1, <2>4
    <3> QED
      BY <1>1, <2>4, <3>1 DEF Started
  <2> QED
    BY <2>3, <2>4
<1>8. Started(s, n)'
  <2>1. Len(starts[s]) + 1 \in 1 .. Len(starts'[s])
    BY <1>3
  <2> QED
    BY <1>1, <1>3, <2>1 DEF Started
<1>9. \A r : Started(r, n)' => r = s
  <2>1. ASSUME NEW r, Started(r, n)' PROVE r = s
    <3>1. r \in Emitters
      BY <2>1 DEF Started
    <3> QED
      BY <1>5, <1>6, <2>1, <3>1
  <2> QED
    BY <2>1
<1>10. ~Started(s, n)
  BY <1>1, <1>5
<1> QED
  BY <1>1, <1>3, <1>4, <1>6, <1>7, <1>8, <1>9, <1>10

\* A number is that of one source.
LEMMA StartsAreNumbered ==
    ASSUME StartsNumbered, EventsTypeOK, NEW s, NEW n, Started(s, n)
    PROVE  s \in Emitters /\ n \in Nat \ {0} /\ n < sequence /\ \A r : Started(r, n) => r = s
<1>1. s \in Emitters /\ starts[s] \in Seq(Nat \ {0})
  BY DEF Started, EventsTypeOK
<1>2. PICK j \in 1 .. Len(starts[s]) : starts[s][j] = n
  BY DEF Started
<1>3. n \in Nat \ {0} /\ n < sequence
  BY <1>1, <1>2 DEF StartsNumbered
<1>4. ASSUME NEW r, Started(r, n) PROVE r = s
  <2>1. r \in Emitters
    BY <1>4 DEF Started
  <2>2. PICK i \in 1 .. Len(starts[r]) : starts[r][i] = n
    BY <1>4 DEF Started
  <2> QED
    BY <1>1, <1>2, <2>1, <2>2 DEF StartsNumbered
<1> QED
  BY <1>1, <1>3, <1>4

NumbersInv ==
    /\ EventsTypeOK /\ \A t \in Threads : BlockNumbered(t)
    /\ StartsNumbered /\ SuccessesRight

LEMMA BlockKeepsNumbers ==
    ASSUME NumbersInv, NEW t \in Threads, NEW s \in Emitters, BlockPipelineEvent(t, s)
    PROVE  /\ NumbersInv' /\ \A n \in Nat : Ended(n) /\ n < sequence => Ended(n)'
<1>1. /\ block' = [block EXCEPT ![t] = [source |-> s, seq |-> sequence, at |-> "constructed"]]
      /\ block \in [Threads -> Blocks] /\ sequence \in Nat \ {0} /\ sequence' = sequence + 1
      /\ starts' = starts /\ succeeded' = succeeded /\ block[t] = Idle
  BY DEF NumbersInv, EventsTypeOK, BlockPipelineEvent
<1>2. EventsTypeOK'
  BY BlockTyped DEF NumbersInv
<1>3. /\ block'[t].at = "constructed" /\ block'[t].source = s /\ block'[t].seq = sequence
      /\ \A u \in Threads : u # t => block'[u] = block[u]
  BY <1>1
<1>4. \A r, n : Started(r, n)' <=> Started(r, n)
  BY <1>1 DEF Started
<1>5. ASSUME NEW u \in Threads PROVE BlockNumbered(u)'
  <2>1. ASSUME NEW v \in Threads, block[v].at # "none" PROVE block[v].seq \in Nat /\ block[v].seq < sequence
    BY <1>1, <2>1 DEF NumbersInv, BlockNumbered
  <2>2. CASE u = t
    <3>1. \A r \in Emitters : ~Started(r, sequence)
      <4>1. ASSUME NEW r \in Emitters, Started(r, sequence) PROVE FALSE
        BY <1>1, <4>1, StartsAreNumbered DEF NumbersInv
      <4> QED
        BY <4>1
    <3>2. \A v \in Threads : block'[v].at # "none" /\ block'[v].seq = sequence => v = t
      BY <1>1, <1>3, <2>1
    <3>3. sequence \in 1 .. sequence' - 1
      BY <1>1
    <3> QED
      BY <1>3, <1>4, <2>2, <3>1, <3>2, <3>3 DEF BlockNumbered
  <2>3. CASE u # t
    <3>1. BlockNumbered(u) /\ block'[u] = block[u]
      BY <1>3, <2>3 DEF NumbersInv
    <3>2. block[u].at # "none" => block[u].seq \in 1 .. sequence' - 1
      BY <1>1, <3>1 DEF BlockNumbered
    <3>3. \A v \in Threads : block[u].at # "none" /\ block'[v].at # "none" /\ block'[v].seq = block[u].seq => v = u
      <4>1. block[u].at # "none" => block[u].seq # sequence
        BY <2>1
      <4> QED
        BY <1>3, <3>1, <4>1 DEF BlockNumbered
    <3> QED
      BY <1>4, <3>1, <3>2, <3>3 DEF BlockNumbered
  <2> QED
    BY <2>2, <2>3
<1>6. ASSUME NEW n \in Nat, Ended(n), n < sequence PROVE Ended(n)'
  BY <1>1, <1>3, <1>6 DEF Ended
<1>7. SuccessesRight'
  <2>1. ASSUME NEW r \in Emitters, NEW n \in Nat, <<r, n>> \in succeeded PROVE Started(r, n)' /\ Ended(n)'
    <3>1. Started(r, n) /\ Ended(n)
      BY <2>1 DEF NumbersInv, SuccessesRight
    <3>2. n < sequence
      BY <3>1, StartsAreNumbered DEF NumbersInv
    <3> QED
      BY <1>4, <1>6, <3>1, <3>2
  <2> QED
    BY <1>1, <2>1 DEF SuccessesRight
<1>8. StartsNumbered'
  <2>1. ASSUME NEW r \in Emitters, NEW j \in 1 .. Len(starts[r]) PROVE starts[r][j] < sequence'
    <3>1. starts[r][j] \in Nat /\ starts[r][j] < sequence
      BY DEF NumbersInv, StartsNumbered, EventsTypeOK
    <3> QED
      BY <1>1, <3>1
  <2> QED
    BY <1>1, <2>1 DEF NumbersInv, StartsNumbered
<1> QED
  BY <1>2, <1>5, <1>6, <1>7, <1>8 DEF NumbersInv

LEMMA StartKeepsNumbers ==
    ASSUME EventsAssumption, NumbersInv, NEW t \in Threads, startTrackedEvent(t)
    PROVE  /\ NumbersInv' /\ \A n : Ended(n) => Ended(n)'
<1>a. PICK s, n : s = block[t].source /\ n = block[t].seq
  OBVIOUS
<1>0. EventsTypeOK /\ BlockNumbered(t) /\ EventsTypeOK'
  BY StartTyped DEF NumbersInv
<1>1. /\ block' = [block EXCEPT ![t].at = "started"] /\ block \in [Threads -> Blocks]
      /\ block[t].at = "constructed" /\ sequence' = sequence /\ succeeded' = succeeded
      /\ s \in Emitters /\ n \in Nat \ {0} /\ n < sequence /\ sequence \in Nat
  <2>1. s \in Emitters /\ n \in 1 .. sequence - 1 /\ sequence \in Nat
    BY <1>0, <1>a DEF BlockNumbered, startTrackedEvent, EventsTypeOK
  <2>2. n \in Nat \ {0} /\ n < sequence
    BY <2>1
  <2> QED
    BY <2>1, <2>2 DEF NumbersInv, EventsTypeOK, startTrackedEvent
<1>2. /\ block'[t].at = "started" /\ block'[t].source = s /\ block'[t].seq = n
      /\ \A u \in Threads : u # t => block'[u] = block[u]
      /\ \A u \in Threads : block'[u].seq = block[u].seq /\ block'[u].source = block[u].source
      /\ \A u \in Threads : block'[u].at = "none" <=> block[u].at = "none"
  BY <1>1, <1>a DEF Blocks
<1>3. /\ starts[s] \in Seq(Nat \ {0}) /\ Len(starts[s]) \in Nat
      /\ Len(starts'[s]) = Len(starts[s]) + 1 /\ starts'[s][Len(starts[s]) + 1] = n
      /\ \A j \in 1 .. Len(starts[s]) : starts'[s][j] = starts[s][j]
      /\ \A r \in Emitters : r # s => starts'[r] = starts[r]
  <2>1. starts[s] \in Seq(Nat \ {0}) /\ Len(starts[s]) \in Nat
    BY <1>0, <1>a, StartAppended
  <2>2. Len(starts'[s]) = Len(starts[s]) + 1 /\ starts'[s][Len(starts[s]) + 1] = n
    BY <1>0, <1>a, StartAppended
  <2>3. \A j \in 1 .. Len(starts[s]) : starts'[s][j] = starts[s][j]
    BY <1>0, <1>a, StartAppended
  <2>4. \A r \in Emitters : r # s => starts'[r] = starts[r]
    BY <1>0, <1>a, StartAppended
  <2> QED
    BY <2>1, <2>2, <2>3, <2>4
<1>4. /\ Started(s, n)' /\ ~Started(s, n)
      /\ \A r, m : Started(r, m)' => Started(r, m) \/ (r = s /\ m = n)
      /\ \A r, m : Started(r, m) => Started(r, m)'
  BY <1>0, <1>a, StartAppended
<1>5. ASSUME NEW m, Ended(m) PROVE Ended(m)'
  BY <1>2, <1>5 DEF Ended
<1>6. ASSUME NEW u \in Threads PROVE BlockNumbered(u)'
  <2>1. BlockNumbered(u)
    BY DEF NumbersInv
  <2>2. CASE u = t
    <3>1. Started(s, n)'
      BY <1>4
    <3> QED
      BY <1>a, <1>1, <1>2, <2>1, <2>2, <3>1 DEF BlockNumbered
  <2>3. CASE u # t
    <3>1. block'[u] = block[u]
      BY <1>2, <2>3
    <3>0. PICK q, m : q = block[u].source /\ m = block[u].seq
      OBVIOUS
    <3>2. block[u].at \in {"started", "thrown"} => Started(q, m)'
      BY <1>4, <2>1, <3>0 DEF BlockNumbered
    <3>3. ASSUME block[u].at = "constructed", NEW r \in Emitters, Started(r, m)' PROVE FALSE
      <4>1. m = n
        BY <1>4, <2>1, <3>0, <3>3 DEF BlockNumbered
      <4> QED
        BY <1>1, <1>a, <2>1, <2>3, <3>0, <3>3, <4>1 DEF BlockNumbered
    <3>4. block[u].at = "constructed" => \A r \in Emitters : ~Started(r, m)'
      BY <3>3
    <3>5. block[u].at # "none" =>
            /\ block[u].source \in Emitters /\ block[u].seq \in 1 .. sequence' - 1
            /\ \A v \in Threads : block'[v].at # "none" /\ block'[v].seq = block[u].seq => v = u
      BY <1>1, <1>2, <2>1 DEF BlockNumbered
    <3> QED
      BY <3>0, <3>1, <3>2, <3>4, <3>5 DEF BlockNumbered
  <2> QED
    BY <2>2, <2>3
<1>7. SuccessesRight'
  BY <1>1, <1>4, <1>5 DEF NumbersInv, SuccessesRight
<1>8. ASSUME NEW r \in Emitters, NEW j \in 1 .. Len(starts'[r])
      PROVE  \/ j \in 1 .. Len(starts[r]) /\ starts'[r][j] = starts[r][j]
             \/ r = s /\ j = Len(starts[s]) + 1 /\ starts'[r][j] = n
  <2>1. CASE r # s
    BY <1>3, <1>8, <2>1
  <2>2. CASE r = s
    <3>1. j \in 1 .. Len(starts[s]) \/ j = Len(starts[s]) + 1
      BY <1>3, <1>8, <2>2
    <3> QED
      BY <1>3, <2>2, <3>1
  <2> QED
    BY <2>1, <2>2
<1>9. StartsNumbered'
  <2>1. ASSUME NEW r \in Emitters, NEW j \in 1 .. Len(starts'[r]) PROVE starts'[r][j] < sequence'
    BY <1>1, <1>8 DEF NumbersInv, StartsNumbered
  <2>2. ASSUME NEW r \in Emitters, NEW i \in 1 .. Len(starts[r]) PROVE starts[r][i] # n
    <3>1. Started(r, starts[r][i])
      BY DEF Started
    <3> QED
      BY <1>0, <1>a, <3>1 DEF BlockNumbered, startTrackedEvent
  <2>3. ASSUME NEW r \in Emitters, NEW q \in Emitters, NEW i \in 1 .. Len(starts'[r]), NEW j \in 1 .. Len(starts'[q]),
               starts'[r][i] = starts'[q][j]
        PROVE  r = q /\ i = j
    <3>1. CASE i \in 1 .. Len(starts[r]) /\ starts'[r][i] = starts[r][i]
      <4>1. j \in 1 .. Len(starts[q]) /\ starts'[q][j] = starts[q][j]
        BY <1>8, <2>2, <2>3, <3>1
      <4>2. starts[r][i] = starts[q][j]
        BY <2>3, <3>1, <4>1
      <4> QED
        BY <3>1, <4>1, <4>2 DEF NumbersInv, StartsNumbered
    <3>2. CASE r = s /\ i = Len(starts[s]) + 1 /\ starts'[r][i] = n
      <4>1. q = s /\ j = Len(starts[s]) + 1
        BY <1>8, <2>2, <2>3, <3>2
      <4> QED
        BY <3>2, <4>1
    <3> QED
      BY <1>8, <3>1, <3>2
  <2> QED
    BY <2>1, <2>3 DEF StartsNumbered
<1> QED
  BY <1>0, <1>5, <1>6, <1>7, <1>9 DEF NumbersInv

LEMMA EndKeepsNumbers ==
    ASSUME EventsAssumption, NumbersInv, NEW t \in Threads, endTrackedEvent(t),
           NEW n, n = block[t].seq
    PROVE  /\ NumbersInv' /\ Ended(n)' /\ ~Ended(n)
           /\ \A m : Ended(m) => Ended(m)'
<1>1. PICK s \in Emitters :
        /\ n \in Nat \ {0} /\ s = block[t].source /\ n = block[t].seq /\ block[t].at = "started" /\ Started(s, n)
        /\ succeeded' = succeeded \cup {<<s, n>>} \/ succeeded' = succeeded
        /\ EventsTypeOK'
  <2>1. EventsTypeOK /\ BlockNumbered(t)
    BY DEF NumbersInv
  <2> QED
    BY <2>1, EndTyped
<1>2. /\ block' = [block EXCEPT ![t] = Idle] /\ block \in [Threads -> Blocks]
      /\ sequence' = sequence /\ starts' = starts
  BY DEF NumbersInv, EventsTypeOK, endTrackedEvent
<1>3. block'[t].at = "none" /\ \A u \in Threads : u # t => block'[u] = block[u]
  BY <1>2 DEF Idle
<1>4. ASSUME NEW m, Ended(m) PROVE Ended(m)'
  BY <1>3, <1>4 DEF Ended
<1>5. Ended(n)' /\ ~Ended(n)
  <2>1. \A u \in Threads : u # t /\ block[u].at # "none" => block[u].seq # n
    BY <1>1 DEF NumbersInv, BlockNumbered
  <2> QED
    BY <1>1, <1>3, <2>1 DEF Ended
<1>6. \A r, m : Started(r, m)' <=> Started(r, m)
  BY <1>2 DEF Started
<1>7. ASSUME NEW u \in Threads PROVE BlockNumbered(u)'
  <2>1. BlockNumbered(u)
    BY DEF NumbersInv
  <2>2. CASE u = t
    BY <1>3, <2>2 DEF BlockNumbered
  <2>3. CASE u # t
    <3>1. block'[u] = block[u]
      BY <1>3, <2>3
    <3>2. \A v \in Threads : block'[v].at # "none" => block'[v] = block[v]
      BY <1>3
    <3> QED
      BY <1>2, <1>6, <2>1, <3>1, <3>2 DEF BlockNumbered
  <2> QED
    BY <2>2, <2>3
<1>8. SuccessesRight'
  BY <1>1, <1>4, <1>5, <1>6 DEF NumbersInv, SuccessesRight
<1>9. StartsNumbered'
  BY <1>2 DEF NumbersInv, StartsNumbered
<1> QED
  BY <1>1, <1>4, <1>5, <1>7, <1>8, <1>9 DEF NumbersInv

LEMMA ThrowKeepsNumbers ==
    ASSUME EventsAssumption, NumbersInv, NEW t \in Threads, uncaughtException(t)
    PROVE  NumbersInv' /\ \A n : Ended(n) => Ended(n)'
<1>1. /\ block' = [block EXCEPT ![t].at = "thrown"] /\ block \in [Threads -> Blocks]
      /\ block[t].at = "started" /\ UNCHANGED <<sequence, starts, succeeded>>
      /\ EventsTypeOK'
  BY ThrowTyped DEF NumbersInv, EventsTypeOK, uncaughtException
<1>2. /\ \A u \in Threads : block'[u].seq = block[u].seq /\ block'[u].source = block[u].source
      /\ \A u \in Threads : block'[u].at = "none" <=> block[u].at = "none"
      /\ \A u \in Threads : block'[u].at = "constructed" <=> block[u].at = "constructed"
      /\ \A u \in Threads : block'[u].at \in {"started", "thrown"} <=> block[u].at \in {"started", "thrown"}
  BY <1>1 DEF Blocks
<1>3. \A r, m : Started(r, m)' <=> Started(r, m)
  BY <1>1 DEF Started
<1>4. ASSUME NEW m, Ended(m) PROVE Ended(m)'
  BY <1>2, <1>4 DEF Ended
<1>5. ASSUME NEW u \in Threads PROVE BlockNumbered(u)'
  BY <1>1, <1>2, <1>3 DEF NumbersInv, BlockNumbered
<1>6. StartsNumbered' /\ SuccessesRight'
  BY <1>1, <1>3, <1>4 DEF NumbersInv, StartsNumbered, SuccessesRight
<1> QED
  BY <1>1, <1>4, <1>5, <1>6 DEF NumbersInv

\* A step of no thread.
LEMMA OthersKeepNumbers ==
    ASSUME NumbersInv, EventsTypeOK', UNCHANGED <<block, sequence, starts, succeeded>>
    PROVE  /\ NumbersInv' /\ \A n : Ended(n) <=> Ended(n)'
           /\ \A s, n : Started(s, n) <=> Started(s, n)'
<1>1. \A r, m : Started(r, m)' <=> Started(r, m)
  BY DEF Started
<1>2. \A m : Ended(m)' <=> Ended(m)
  BY DEF Ended
<1>3. \A u \in Threads : BlockNumbered(u)'
  BY <1>1 DEF NumbersInv, BlockNumbered
<1>4. StartsNumbered' /\ SuccessesRight'
  BY <1>1, <1>2 DEF NumbersInv, StartsNumbered, SuccessesRight
<1> QED
  BY <1>1, <1>2, <1>3, <1>4 DEF NumbersInv

----------------------------------------------------------------------------
(* What the queue holds, and what is measured.                             *)

QueueInv == EventsRight /\ EventsInTurn /\ MeasuredRight /\ DurationsDiffer /\ LatestStartIsInside

LEMMA InitQueueInv == ASSUME EventsInit PROVE QueueInv
<1>1. events = <<>> /\ durations = <<>>
  BY DEF EventsInit
<1>2. Queued = {}
  BY <1>1 DEF Queued
<1>3. Measured = {}
  BY <1>1 DEF Measured
<1>4. DurationsDiffer
  BY <1>1 DEF DurationsDiffer
<1> QED
  BY <1>2, <1>3, <1>4 DEF QueueInv, EventsRight, EventsInTurn, MeasuredRight, LatestStartIsInside

\* An event is sent: what must hold of it, for the queue to stay in order.
LEMMA SendKeepsQueue ==
    ASSUME EventsAssumption, EventsTypeOK, EventsTypeOK', QueueInv, NEW e \in EventRecords, Send(e),
           UNCHANGED durations, succeeded \subseteq succeeded', loops <= loops',
           \A n : Ended(n) => Ended(n)', \A s, n : Started(s, n) => Started(s, n)',
           NEW k, k = Len(events'), RightEvent(k)',
           \A i \in Queued : /\ events[i].interval = e.interval => events[i].seq # e.seq
                             /\ events[i].interval = "NONE" /\ e.interval = "NONE" => events[i].seq < e.seq
                             /\ events[i].interval = "END" /\ e.interval = "START" => events[i].seq # e.seq,
           e.interval = "NONE" => loops < e.seq,
           \A s \in Emitters : s # e.source /\ Inside(s) => Inside(s)',
           \A s \in Emitters : e.source = s /\ e.interval = "START" => Inside(s)'
    PROVE  QueueInv'
<1>1. /\ k \in Nat \ {0} /\ events'[k] = e /\ Queued' = 1 .. k
      /\ events \in Seq(EventRecords) /\ Len(events) \in Nat
      /\ loops \in Nat /\ loops' \in Nat /\ Measured' = Measured
  BY SendTyped DEF Queued, Measured, EventsTypeOK
<1>2. PICK d \in {0, 1} :
        /\ k = Len(events) + 1 - d
        /\ \A i \in 1 .. k - 1 : i + d \in Queued /\ events'[i] = events[i + d]
  BY SendTyped
<1>3. \A i \in Queued' : i = k \/ i \in 1 .. k - 1
  BY <1>1
<1>4. EventsRight'
  <2>1. ASSUME NEW i \in 1 .. k - 1 PROVE RightEvent(i)'
    <3>1. PICK x : x = i + d
      OBVIOUS
    <3>2. x \in Queued /\ events'[i] = events[x] /\ RightEvent(x)
      BY <1>2, <3>1 DEF QueueInv, EventsRight
    <3>3. SUFFICES ASSUME NEW s \in EventSources, NEW n \in Nat, events[x].source = s, events[x].seq = n
                   PROVE  \/ events[x] = Ping(n) /\ n <= loops'
                          \/ events[x] = StartOf(s, n) /\ Started(s, n)' /\ <<s, n, n>> \notin Measured
                          \/ /\ events[x].interval = "END" /\ Started(s, n)' /\ Ended(n)' /\ <<s, n, n>> \notin Measured
                             /\ events[x].status = "SUCCESS" => <<s, n>> \in succeeded'
      BY <1>1, <3>2 DEF RightEvent, Ping, StartOf, Event
    <3>4. \/ events[x] = Ping(n) /\ n <= loops
          \/ events[x] = StartOf(s, n) /\ Started(s, n) /\ <<s, n, n>> \notin Measured
          \/ /\ events[x].interval = "END" /\ Started(s, n) /\ Ended(n) /\ <<s, n, n>> \notin Measured
             /\ events[x].status = "SUCCESS" => <<s, n>> \in succeeded
      BY <3>2, <3>3 DEF RightEvent
    <3>5. n <= loops => n <= loops'
      BY <1>1, <3>3
    <3> QED
      BY <3>4, <3>5
  <2> QED
    BY <1>3, <2>1 DEF EventsRight
<1>5. EventsInTurn'
  <2>1. ASSUME NEW i \in Queued', NEW j \in Queued', i < j PROVE InTurn(i, j)'
    <3>1. i \in 1 .. k - 1
      BY <1>1, <2>1
    <3>2. PICK x \in Queued : x = i + d /\ events'[i] = events[x]
      BY <1>2, <3>1
    <3>3. CASE j = k
      BY <1>1, <3>2, <3>3 DEF InTurn
    <3>4. CASE j \in 1 .. k - 1
      <4>1. PICK y \in Queued : y = j + d /\ events'[j] = events[y]
        BY <1>2, <3>4
      <4>2. x < y
        BY <1>1, <1>2, <2>1, <3>1, <3>2, <3>4, <4>1
      <4>3. InTurn(x, y)
        BY <4>2 DEF QueueInv, EventsInTurn
      <4> QED
        BY <3>2, <4>1, <4>3 DEF InTurn
    <3> QED
      BY <1>3, <3>3, <3>4
  <2> QED
    BY <2>1 DEF EventsInTurn
<1>6. MeasuredRight'
  <2>1. \A s \in Emitters, m, n \in Nat : <<s, m, n>> \in Measured' => m = n /\ <<s, n>> \in succeeded'
    BY <1>1 DEF QueueInv, MeasuredRight
  <2>2. ASSUME NEW m \in Nat, NEW n \in Nat, <<LOOP, m, n>> \in Measured
        PROVE  n <= loops' /\ \A i \in Queued' : events'[i].interval = "NONE" => n < events'[i].seq
    <3>1. n <= loops /\ \A i \in Queued : events[i].interval = "NONE" => n < events[i].seq
      BY <2>2 DEF QueueInv, MeasuredRight
    <3>2. n <= loops'
      BY <1>1, <3>1
    <3>3. ASSUME NEW i \in Queued', events'[i].interval = "NONE" PROVE n < events'[i].seq
      <4>1. CASE i = k
        <5>1. loops < e.seq /\ e.seq \in Nat
          BY <1>1, <3>3, <4>1 DEF EventRecords
        <5> QED
          BY <1>1, <3>1, <4>1, <5>1
      <4>2. CASE i \in 1 .. k - 1
        BY <1>2, <3>1, <3>3, <4>2
      <4> QED
        BY <1>3, <4>1, <4>2
    <3> QED
      BY <3>2, <3>3
  <2> QED
    BY <1>1, <2>1, <2>2 DEF MeasuredRight
<1>7. LatestStartIsInside'
  <2>1. ASSUME NEW s \in Emitters, NEW i \in Queued', Latest(s, i)', events'[i].interval = "START"
        PROVE  Inside(s)'
    <3>1. events'[i].source = s /\ \A j \in Queued' : i < j => events'[j].source # s
      BY <2>1 DEF Latest
    <3>2. CASE i = k
      BY <1>1, <2>1, <3>1, <3>2
    <3>3. CASE i \in 1 .. k - 1
      <4>1. k \in Queued' /\ i < k
        BY <1>1, <3>3
      <4>2. s # e.source
        BY <1>1, <3>1, <4>1
      <4>3. PICK x \in Queued : x = i + d /\ events'[i] = events[x]
        BY <1>2, <3>3
      <4>4. ASSUME NEW y \in Queued, x < y PROVE events[y].source # s
        <5>1. y - d \in 1 .. k - 1 /\ (y - d) + d = y /\ i < y - d
          BY <1>1, <1>2, <3>3, <4>3, <4>4 DEF Queued
        <5>2. PICK z \in 1 .. k - 1 : z = y - d
          BY <5>1
        <5>3. events'[z] = events[y] /\ z \in Queued' /\ i < z
          BY <1>1, <1>2, <5>1, <5>2
        <5> QED
          BY <3>1, <5>3
      <4>5. Latest(s, x)
        BY <3>1, <4>3, <4>4 DEF Latest
      <4> QED
        BY <2>1, <4>2, <4>3, <4>5 DEF QueueInv, LatestStartIsInside
    <3> QED
      BY <1>3, <3>2, <3>3
  <2> QED
    BY <2>1 DEF LatestStartIsInside
<1>8. DurationsDiffer'
  BY DEF QueueInv, DurationsDiffer
<1> QED
  BY <1>4, <1>5, <1>6, <1>7, <1>8 DEF QueueInv

LEMMA BlockKeepsQueue ==
    ASSUME EventsAssumption, NumbersInv, QueueInv, NEW t \in Threads, NEW s \in Emitters, BlockPipelineEvent(t, s)
    PROVE  QueueInv'
<1>1. /\ block' = [block EXCEPT ![t] = [source |-> s, seq |-> sequence, at |-> "constructed"]]
      /\ block \in [Threads -> Blocks] /\ block[t].at = "none"
      /\ UNCHANGED <<events, durations, loops, succeeded, starts>>
  BY DEF NumbersInv, EventsTypeOK, BlockPipelineEvent, Idle
<1>2. Queued' = Queued /\ Measured' = Measured /\ \A r, n : Started(r, n)' <=> Started(r, n)
  BY <1>1 DEF Queued, Measured, Started
<1>3. \A n \in Nat : Ended(n) /\ n < sequence => Ended(n)'
  BY BlockKeepsNumbers
<1>4. EventsRight'
  <2>1. ASSUME NEW i \in Queued PROVE RightEvent(i)'
    <3>1. RightEvent(i)
      BY DEF QueueInv, EventsRight
    <3>2. SUFFICES ASSUME NEW r \in EventSources, NEW n \in Nat, events[i].source = r, events[i].seq = n
                   PROVE  \/ events[i] = Ping(n) /\ n <= loops
                          \/ events[i] = StartOf(r, n) /\ Started(r, n)' /\ <<r, n, n>> \notin Measured
                          \/ /\ events[i].interval = "END" /\ Started(r, n)' /\ Ended(n)' /\ <<r, n, n>> \notin Measured
                             /\ events[i].status = "SUCCESS" => <<r, n>> \in succeeded
      BY <1>1, <1>2 DEF RightEvent, Ping, StartOf, Event
    <3>3. Started(r, n) => n < sequence
      BY StartsAreNumbered DEF NumbersInv
    <3> QED
      BY <1>2, <1>3, <3>1, <3>2, <3>3 DEF RightEvent
  <2> QED
    BY <1>2, <2>1 DEF EventsRight
<1>5. EventsInTurn' /\ MeasuredRight' /\ DurationsDiffer'
  BY <1>1, <1>2 DEF QueueInv, EventsInTurn, InTurn, MeasuredRight, DurationsDiffer
<1>6. \A r : Inside(r) => Inside(r)'
  BY <1>1 DEF Inside
<1>7. LatestStartIsInside'
  BY <1>1, <1>2, <1>6 DEF QueueInv, LatestStartIsInside, Latest
<1> QED
  BY <1>4, <1>5, <1>7 DEF QueueInv

LEMMA ThrowKeepsQueue ==
    ASSUME EventsAssumption, NumbersInv, QueueInv, NEW t \in Threads, uncaughtException(t)
    PROVE  QueueInv' /\ \A r : Inside(r) => Inside(r)'
<1>1. /\ block' = [block EXCEPT ![t].at = "thrown"]
      /\ block \in [Threads -> Blocks]
      /\ UNCHANGED <<events, durations, loops, succeeded, starts>>
  BY DEF NumbersInv, EventsTypeOK, uncaughtException
<1>2. Queued' = Queued /\ Measured' = Measured /\ \A r, n : Started(r, n)' <=> Started(r, n)
  BY <1>1 DEF Queued, Measured, Started
<1>3. \A n : Ended(n) => Ended(n)'
  BY ThrowKeepsNumbers
<1>4. EventsRight'
  <2>1. ASSUME NEW i \in Queued PROVE RightEvent(i)'
    <3>1. RightEvent(i)
      BY DEF QueueInv, EventsRight
    <3>2. SUFFICES ASSUME NEW r \in EventSources, NEW n \in Nat, events[i].source = r, events[i].seq = n
                   PROVE  \/ events[i] = Ping(n) /\ n <= loops
                          \/ events[i] = StartOf(r, n) /\ Started(r, n)' /\ <<r, n, n>> \notin Measured
                          \/ /\ events[i].interval = "END" /\ Started(r, n)' /\ Ended(n)' /\ <<r, n, n>> \notin Measured
                             /\ events[i].status = "SUCCESS" => <<r, n>> \in succeeded
      BY <1>1, <1>2 DEF RightEvent, Ping, StartOf, Event
    <3> QED
      BY <1>2, <1>3, <3>1, <3>2 DEF RightEvent
  <2> QED
    BY <1>2, <2>1 DEF EventsRight
<1>5. EventsInTurn' /\ MeasuredRight' /\ DurationsDiffer'
  BY <1>1, <1>2 DEF QueueInv, EventsInTurn, InTurn, MeasuredRight, DurationsDiffer
<1>6. ASSUME NEW r, Inside(r) PROVE Inside(r)'
  <2>1. PICK u \in Threads : block[u].source = r /\ block[u].at \in {"started", "thrown"}
    BY <1>6 DEF Inside
  <2>2. block'[u].source = r /\ block'[u].at \in {"started", "thrown"}
    BY <1>1, <2>1 DEF Blocks
  <2> QED
    BY <2>2 DEF Inside
<1>7. LatestStartIsInside'
  BY <1>1, <1>2, <1>6 DEF QueueInv, LatestStartIsInside, Latest
<1> QED
  BY <1>4, <1>5, <1>6, <1>7 DEF QueueInv

LEMMA StartKeepsQueue ==
    ASSUME EventsAssumption, NumbersInv, QueueInv, NEW t \in Threads, startTrackedEvent(t)
    PROVE  QueueInv' /\ \A r : Inside(r) => Inside(r)'
<1>1. PICK s, n : s = block[t].source /\ n = block[t].seq
  OBVIOUS
<1>2. /\ StartOf(s, n) \in EventRecords /\ Send(StartOf(s, n))
      /\ s \in Emitters /\ n \in Nat \ {0} /\ EventsTypeOK /\ EventsTypeOK' /\ BlockNumbered(t)
  BY <1>1, StartTyped DEF NumbersInv
<1>3. /\ Started(s, n)' /\ \A r : ~Started(r, n)
      /\ \A r, m : Started(r, m) => Started(r, m)'
  <2>1. \A r : Started(r, n) => Started(r, n)'
    BY <1>1, <1>2, StartAppended
  <2>2. \A r \in Emitters : ~Started(r, n)
    BY <1>1, <1>2 DEF BlockNumbered, startTrackedEvent
  <2>3. \A r : ~Started(r, n)
    BY <2>2 DEF Started
  <2> QED
    BY <1>1, <1>2, <2>3, StartAppended
<1>4. \A m : Ended(m) => Ended(m)'
  BY StartKeepsNumbers
<1>5. UNCHANGED <<durations, succeeded, loops>> /\ loops \in Nat
  BY <1>2 DEF startTrackedEvent, EventsTypeOK
<1>6. PICK k : k = Len(events')
  OBVIOUS
<1>7. events'[k] = StartOf(s, n)
  BY <1>2, <1>6, SendTyped
<1>8. <<s, n, n>> \notin Measured
  <2>1. <<s, n>> \notin succeeded
    BY <1>2, <1>3 DEF NumbersInv, SuccessesRight
  <2> QED
    BY <1>2, <2>1 DEF QueueInv, MeasuredRight
<1>9. RightEvent(k)'
  <2>1. ASSUME NEW r \in EventSources, NEW m \in Nat, events'[k].source = r, events'[k].seq = m
        PROVE  events'[k] = StartOf(r, m) /\ Started(r, m)' /\ <<r, m, m>> \notin Measured
    <3>1. r = s /\ m = n
      BY <1>7, <2>1 DEF StartOf, Event
    <3> QED
      BY <1>3, <1>7, <1>8, <3>1
  <2>2. Measured' = Measured
    BY <1>5 DEF Measured
  <2> QED
    BY <2>1, <2>2 DEF RightEvent, StartOf, Event
<1>10. \A i \in Queued : events[i].interval \in {"START", "END"} => events[i].seq # n
  <2>1. \A i \in Queued : events[i].interval \in {"START", "END"} => Started(events[i].source, events[i].seq)
    BY <1>2, Kinds DEF QueueInv, EventsRight
  <2> QED
    BY <1>3, <2>1
<1>11. ASSUME NEW r, Inside(r) PROVE Inside(r)'
  <2>1. PICK u \in Threads : block[u].source = r /\ block[u].at \in {"started", "thrown"}
    BY <1>11 DEF Inside
  <2>2. block'[u].source = r /\ block'[u].at \in {"started", "thrown"}
    BY <1>2, <2>1 DEF startTrackedEvent, EventsTypeOK, Blocks
  <2> QED
    BY <2>2 DEF Inside
<1>12. Inside(s)'
  <2>1. block'[t].source = s /\ block'[t].at = "started"
    BY <1>1, <1>2 DEF startTrackedEvent, EventsTypeOK, Blocks
  <2> QED
    BY <2>1 DEF Inside
<1>13. PICK e : e = StartOf(s, n)
  OBVIOUS
<1>14. e \in EventRecords /\ Send(e) /\ e.source = s /\ e.seq = n /\ e.interval = "START"
  BY <1>2, <1>13 DEF StartOf, Event
<1>15. QueueInv'
  BY <1>2, <1>3, <1>4, <1>5, <1>6, <1>9, <1>10, <1>11, <1>12, <1>14, SendKeepsQueue
<1> QED
  BY <1>11, <1>15

LEMMA EndKeepsQueue ==
    ASSUME EventsAssumption, NumbersInv, QueueInv, NEW t \in Threads, endTrackedEvent(t)
    PROVE  QueueInv' /\ \A r : r # block[t].source /\ Inside(r) => Inside(r)'
<1>1. PICK s \in Emitters, n \in Nat \ {0}, e \in EventRecords :
        /\ s = block[t].source /\ n = block[t].seq /\ block[t].at = "started" /\ Started(s, n)
        /\ e.source = s /\ e.seq = n /\ e.interval = "END" /\ Send(e)
        /\ \/ /\ e = EndOf(s, n) /\ succeeded' = succeeded \cup {<<s, n>>}
           \/ e.status = "CANCELLED" /\ UNCHANGED <<succeeded, excused>>
        /\ EventsTypeOK' /\ EventsTypeOK
  <2>1. EventsTypeOK /\ BlockNumbered(t)
    BY DEF NumbersInv
  <2> QED
    BY <2>1, EndTyped
<1>2. Ended(n)' /\ ~Ended(n) /\ \A m : Ended(m) => Ended(m)'
  BY <1>1, EndKeepsNumbers
<1>3. UNCHANGED <<durations, loops, starts>> /\ loops \in Nat /\ succeeded \subseteq succeeded'
  BY <1>1 DEF endTrackedEvent, EventsTypeOK
<1>4. \A r, m : Started(r, m) <=> Started(r, m)'
  BY <1>3 DEF Started
<1>6. PICK k : k = Len(events')
  OBVIOUS
<1>7. events'[k] = e
  BY <1>1, <1>6, SendTyped
<1>8. <<s, n, n>> \notin Measured
  <2>1. <<s, n>> \notin succeeded
    BY <1>1, <1>2 DEF NumbersInv, SuccessesRight
  <2> QED
    BY <2>1 DEF QueueInv, MeasuredRight
<1>5. e.status = "SUCCESS" => <<s, n>> \in succeeded'
  BY <1>1
<1>9. RightEvent(k)'
  <2>1. ASSUME NEW r \in EventSources, NEW m \in Nat, events'[k].source = r, events'[k].seq = m
        PROVE  /\ events'[k].interval = "END" /\ Started(r, m)' /\ Ended(m)' /\ <<r, m, m>> \notin Measured
               /\ events'[k].status = "SUCCESS" => <<r, m>> \in succeeded'
    <3>1. r = s /\ m = n
      BY <1>1, <1>7, <2>1
    <3> QED
      BY <1>1, <1>2, <1>4, <1>5, <1>7, <1>8, <3>1
  <2>2. Measured' = Measured
    BY <1>3 DEF Measured
  <2> QED
    BY <2>1, <2>2 DEF RightEvent
<1>10. \A i \in Queued : events[i].interval = "END" => events[i].seq # n
  <2>1. \A i \in Queued : events[i].interval = "END" => Ended(events[i].seq)
    BY <1>1, Kinds DEF QueueInv, EventsRight
  <2> QED
    BY <1>2, <2>1
<1>11. ASSUME NEW r, r # s, Inside(r) PROVE Inside(r)'
  <2>1. PICK u \in Threads : block[u].source = r /\ block[u].at \in {"started", "thrown"}
    BY <1>11 DEF Inside
  <2>2. block'[u] = block[u]
    BY <1>1, <1>11, <2>1 DEF endTrackedEvent, EventsTypeOK
  <2> QED
    BY <2>1, <2>2 DEF Inside
<1>15. QueueInv'
  BY <1>1, <1>2, <1>3, <1>4, <1>6, <1>9, <1>10, <1>11, SendKeepsQueue
<1> QED
  BY <1>1, <1>11, <1>15

LEMMA PingKeepsQueue ==
    ASSUME EventsAssumption, NumbersInv, QueueInv, pingMainLoopEvent
    PROVE  QueueInv'
<1>1. PICK e : e = Ping(loops + 1)
  OBVIOUS
<1>2. /\ e \in EventRecords /\ Send(e) /\ EventsTypeOK /\ EventsTypeOK'
      /\ e.source = LOOP /\ e.seq = loops + 1 /\ e.interval = "NONE" /\ loops \in Nat
      /\ loops' = loops + 1 /\ UNCHANGED <<durations, succeeded, block, starts>>
  BY <1>1, PingTyped DEF Ping, Event, NumbersInv, EventsTypeOK, pingMainLoopEvent
<1>3. /\ \A m : Ended(m) => Ended(m)'
      /\ \A r, m : Started(r, m) => Started(r, m)'
      /\ \A r : Inside(r) => Inside(r)'
  BY <1>2 DEF Ended, Started, Inside
<1>6. PICK k : k = Len(events')
  OBVIOUS
<1>7. events'[k] = e
  BY <1>2, <1>6, SendTyped
<1>9. RightEvent(k)'
  <2>1. PICK m \in Nat : m = loops + 1
    BY <1>2
  <2>2. events'[k].seq = m /\ events'[k] = Ping(m) /\ m <= loops'
    BY <1>1, <1>2, <1>7, <2>1
  <2> QED
    BY <2>2 DEF RightEvent, Ping, Event
<1>10. \A i \in Queued : events[i].interval = "NONE" => events[i].seq < e.seq
  <2>1. ASSUME NEW i \in Queued, events[i].interval = "NONE" PROVE events[i].seq <= loops /\ events[i].seq \in Nat
    <3>1. RightEvent(i)
      BY DEF QueueInv, EventsRight
    <3>2. events[i] \in EventRecords /\ events[i].seq <= loops
      BY <1>2, <2>1, <3>1, Kinds
    <3> QED
      BY <3>2 DEF EventRecords
  <2> QED
    BY <1>2, <2>1
<1>11. \A i \in Queued : events[i].interval = e.interval => events[i].seq # e.seq
  <2>1. ASSUME NEW i \in Queued, events[i].interval = "NONE" PROVE events[i].seq # e.seq
    <3>1. events[i] \in EventRecords
      BY <1>2 DEF EventsTypeOK, Queued
    <3> QED
      BY <1>2, <1>10, <2>1, <3>1 DEF EventRecords
  <2> QED
    BY <1>2, <2>1
<1> QED
  <2>1. loops <= loops' /\ loops < e.seq
    BY <1>2
  <2> QED
    BY <1>2, <1>3, <1>6, <1>9, <1>10, <1>11, <2>1, SendKeepsQueue

----------------------------------------------------------------------------
(* Finding a START.                                                        *)

\* The search finds n if every number behind it is erased or greater; what it
\* finds is n (PipelineEventAggregation.cpp:77-87).
LEMMA Finds ==
    ASSUME EventsAssumption, NEW b \in Buffers(Nat, eventWaitWindow), NEW n \in Nat,
           NEW g, g = getBuffer(b, eventWaitWindow)
    PROVE  /\ Len(g) = Len(b.buffer) /\ Len(g) \in Nat /\ Len(g) <= eventWaitWindow
           /\ \A c \in findOngoingEvent(n, b) : \E p \in 1 .. Len(g) :
                g[p] = n /\ c = at(b, eventWaitWindow, p - 1) + 1
           /\ \A p \in 1 .. Len(g) :
                g[p] = n /\ (\A q \in p + 1 .. Len(g) : g[q] = NoEvent \/ g[q] > n) =>
                    findOngoingEvent(n, b) # {}
<1> DEFINE Value(pos) == b.buffer[at(b, eventWaitWindow, pos) + 1]
<1>1. eventWaitWindow \in Nat \ {0} /\ b.buffer \in Seq(Nat) /\ Len(b.buffer) \in Nat
      /\ Len(b.buffer) <= eventWaitWindow
  BY DEF EventsAssumption, Buffers
<1>2. Len(g) = Len(b.buffer)
  <2>1. CASE Len(b.buffer) = 0
    BY <1>1, <2>1 DEF getBuffer
  <2>2. CASE Len(b.buffer) # 0
    <3>1. 0 \in 0 .. Len(b.buffer) - 1
      BY <1>1, <2>2
    <3> QED
      BY <1>1, <3>1, IteratorsAgree
  <2> QED
    BY <2>1, <2>2
<1>3. \A p \in 0 .. Len(b.buffer) - 1 : g[p + 1] = Value(p)
  BY <1>1, IteratorsAgree
<1>4. findOngoingEvent(n, b) =
        {at(b, eventWaitWindow, pos) + 1 : pos \in
          {p \in 0 .. Len(b.buffer) - 1 :
            /\ Value(p) = n
            /\ \A q \in p + 1 .. Len(b.buffer) - 1 : Value(q) = NoEvent \/ Value(q) > n}}
  BY DEF findOngoingEvent
<1> HIDE DEF Value
<1>5. ASSUME NEW c \in findOngoingEvent(n, b)
      PROVE  \E p \in 1 .. Len(g) : g[p] = n /\ c = at(b, eventWaitWindow, p - 1) + 1
  <2>1. PICK p \in 0 .. Len(b.buffer) - 1 : Value(p) = n /\ c = at(b, eventWaitWindow, p) + 1
    BY <1>4
  <2>2. p + 1 \in 1 .. Len(g) /\ (p + 1) - 1 = p /\ g[p + 1] = n
    BY <1>1, <1>2, <1>3, <2>1
  <2> QED
    BY <2>1, <2>2
<1>6. ASSUME NEW p \in 1 .. Len(g), g[p] = n, \A q \in p + 1 .. Len(g) : g[q] = NoEvent \/ g[q] > n
      PROVE  findOngoingEvent(n, b) # {}
  <2>1. PICK x \in 0 .. Len(b.buffer) - 1 : x = p - 1
    BY <1>1, <1>2
  <2>2. Value(x) = n
    <3>1. x + 1 = p
      BY <1>1, <1>2, <2>1
    <3> QED
      BY <1>3, <1>6, <3>1
  <2>3. ASSUME NEW q \in x + 1 .. Len(b.buffer) - 1 PROVE Value(q) = NoEvent \/ Value(q) > n
    <3>1. q + 1 \in p + 1 .. Len(g) /\ q \in 0 .. Len(b.buffer) - 1
      BY <1>1, <1>2, <2>1
    <3> QED
      BY <1>3, <1>6, <3>1
  <2> QED
    BY <1>4, <2>2, <2>3
<1> QED
  BY <1>1, <1>2, <1>5, <1>6

\* Erasing leaves the rest of the vector as it is.
Erased(b, c) == [b EXCEPT !.buffer[c] = NoEvent]

LEMMA ErasedIsBuffer ==
    ASSUME EventsAssumption, NEW b \in Buffers(Nat, eventWaitWindow), NEW c \in 1 .. Len(b.buffer)
    PROVE  /\ Erased(b, c) \in Buffers(Nat, eventWaitWindow) /\ Erased(b, c).index = b.index
           /\ Len(Erased(b, c).buffer) = Len(b.buffer) /\ Erased(b, c).buffer[c] = NoEvent
           /\ \A i \in 1 .. Len(b.buffer) : i # c => Erased(b, c).buffer[i] = b.buffer[i]
<1>1. /\ eventWaitWindow \in Nat \ {0} /\ b.buffer \in Seq(Nat) /\ Len(b.buffer) <= eventWaitWindow
      /\ b.index \in Nat /\ b.index < eventWaitWindow /\ (Len(b.buffer) < eventWaitWindow => b.index = 0)
      /\ b = [buffer |-> b.buffer, index |-> b.index]
  BY DEF EventsAssumption, Buffers
<1>2. PICK y : y = [b.buffer EXCEPT ![c] = NoEvent]
  OBVIOUS
<1>3. /\ y \in Seq(Nat) /\ Len(y) = Len(b.buffer) /\ y[c] = NoEvent
      /\ \A i \in 1 .. Len(b.buffer) : i # c => y[i] = b.buffer[i]
  BY <1>1, <1>2 DEF NoEvent
<1>4. PICK new : new = Erased(b, c)
  OBVIOUS
<1>5. new = [buffer |-> y, index |-> b.index]
  BY <1>1, <1>2, <1>4 DEF Erased
<1>6. new.buffer = y /\ new.index = b.index
  BY <1>5
<1>7. new \in Buffers(Nat, eventWaitWindow)
  <2>1. new \in [buffer : Seq(Nat), index : Nat]
    BY <1>1, <1>3, <1>5
  <2> QED
    BY <1>1, <1>3, <1>6, <2>1 DEF Buffers
<1> QED
  BY ONLY <1>3, <1>4, <1>6, <1>7

\* What is found is erased, and the rest of the window stays.
LEMMA FoundIsErased ==
    ASSUME EventsAssumption, NEW b \in Buffers(Nat, eventWaitWindow), NEW n \in Nat,
           NEW c \in findOngoingEvent(n, b), NEW g, g = getBuffer(b, eventWaitWindow),
           NEW h, h = getBuffer(Erased(b, c), eventWaitWindow)
    PROVE  /\ Erased(b, c) \in Buffers(Nat, eventWaitWindow) /\ Len(h) = Len(g)
           /\ \E p \in 1 .. Len(g) : /\ g[p] = n /\ h[p] = NoEvent
                                     /\ \A q \in 1 .. Len(g) : q # p => h[q] = g[q]
<1>1. PICK W \in Nat \ {0}, k \in Nat : W = eventWaitWindow /\ k = Len(b.buffer)
  BY DEF EventsAssumption, Buffers
<1>2. Len(g) = k
  BY <1>1, Finds
<1>3. PICK p \in 1 .. k : g[p] = n /\ c = at(b, eventWaitWindow, p - 1) + 1
  BY <1>2, Finds
<1>4. ASSUME NEW q \in 1 .. k
      PROVE  /\ g[q] = b.buffer[at(b, W, q - 1) + 1]
             /\ at(b, W, q - 1) \in 0 .. k - 1 /\ at(b, W, q - 1) + 1 \in 1 .. k
  <2>1. PICK x \in 0 .. k - 1 : x = q - 1 /\ x + 1 = q
    OBVIOUS
  <2>2. g[x + 1] = b.buffer[at(b, W, x) + 1] /\ at(b, W, x) \in 0 .. k - 1
    BY <1>1, <2>1, IteratorsAgree
  <2>3. at(b, W, x) + 1 \in 1 .. k
    BY <2>2
  <2> QED
    BY <2>1, <2>2, <2>3
<1>5. c \in 1 .. k
  BY <1>1, <1>3, <1>4
<1>6. PICK new : new = Erased(b, c)
  OBVIOUS
<1>7. /\ new \in Buffers(Nat, eventWaitWindow) /\ new.index = b.index
      /\ Len(new.buffer) = k /\ new.buffer[c] = NoEvent
      /\ \A i \in 1 .. k : i # c => new.buffer[i] = b.buffer[i]
  BY <1>1, <1>5, <1>6, ErasedIsBuffer
<1>8. \A pos : at(new, W, pos) = at(b, W, pos)
  BY <1>1, <1>7 DEF at, start
<1>9. h = getBuffer(new, eventWaitWindow)
  BY <1>6
<1>10. Len(h) = k
  BY <1>7, <1>9, Finds
<1>11. ASSUME NEW q \in 1 .. k PROVE h[q] = new.buffer[at(b, W, q - 1) + 1]
  <2>1. PICK x \in 0 .. k - 1 : x = q - 1 /\ x + 1 = q
    OBVIOUS
  <2>2. x \in 0 .. Len(new.buffer) - 1 /\ new \in Buffers(Nat, W)
    BY <1>1, <1>7
  <2>3. getBuffer(new, W)[x + 1] = new.buffer[at(new, W, x) + 1]
    BY ONLY <2>2, W \in Nat \ {0}, IteratorsAgree
  <2> QED
    BY <1>1, <1>8, <1>9, <2>1, <2>3
<1>12. ASSUME NEW q \in 1 .. k, q # p PROVE at(b, W, q - 1) # at(b, W, p - 1)
  <2>1. PICK st \in Nat : st = start(b, W)
    BY <1>1 DEF start, Buffers
  <2>0. ASSUME NEW pos \in Int PROVE at(b, W, pos) = IF st + pos < k THEN st + pos ELSE st + pos - k
    <3>1. at(b, W, pos) = IF start(b, W) + pos < Len(b.buffer) THEN start(b, W) + pos
                          ELSE start(b, W) + pos - Len(b.buffer)
      BY <1>1, <2>1 DEF at
    <3> QED
      BY ONLY <1>1, <2>1, <3>1
  <2>2. /\ at(b, W, q - 1) = IF st + (q - 1) < k THEN st + (q - 1) ELSE st + (q - 1) - k
        /\ at(b, W, p - 1) = IF st + (p - 1) < k THEN st + (p - 1) ELSE st + (p - 1) - k
    BY <2>0, q - 1 \in Int, p - 1 \in Int
  <2>3. PICK u, v : /\ u = at(b, W, q - 1) /\ u = IF st + (q - 1) < k THEN st + (q - 1) ELSE st + (q - 1) - k
                    /\ v = at(b, W, p - 1) /\ v = IF st + (p - 1) < k THEN st + (p - 1) ELSE st + (p - 1) - k
    BY <2>2
  <2>4. u # v
    BY ONLY <2>3, st \in Nat, k \in Nat, p \in 1 .. k, q \in 1 .. k, <1>12
  <2> QED
    BY <2>3, <2>4
<1>13. h[p] = NoEvent
  BY <1>1, <1>3, <1>7, <1>11
<1>14. ASSUME NEW q \in 1 .. k, q # p PROVE h[q] = g[q]
  <2>1. PICK i \in 1 .. k : i = at(b, W, q - 1) + 1
    BY <1>4
  <2>2. i # c
    <3>1. at(b, W, q - 1) \in 0 .. k - 1 /\ at(b, W, p - 1) \in 0 .. k - 1
      BY <1>4, p \in 1 .. k
    <3> QED
      BY <1>1, <1>3, <1>12, <1>14, <2>1, <3>1
  <2> QED
    BY <1>4, <1>7, <1>11, <2>1, <2>2
<1> QED
  BY <1>2, <1>3, <1>6, <1>7, <1>10, <1>13, <1>14

----------------------------------------------------------------------------
(* Handling the event at the head of the queue.                            *)

HandlesStart(s, n) ==
    /\ s \in Emitters /\ events[1] = StartOf(s, n) /\ Started(s, n)
    /\ ongoing' = [ongoing EXCEPT ![s] = add(ongoing[s], n, eventWaitWindow)]
    /\ durations' = durations
HandlesPing(n) ==
    /\ events[1] = Ping(n) /\ n <= loops
    /\ ongoing' = [ongoing EXCEPT ![LOOP] = add(ongoing[LOOP], n, eventWaitWindow)]
    /\ durations' = IF n > 1 /\ findOngoingEvent(n - 1, ongoing[LOOP]) # {}
                    THEN Append(durations, <<LOOP, n - 1, n>>) ELSE durations
HandlesEnd(s, n) ==
    /\ s \in Emitters /\ events[1] = EndOf(s, n)
    /\ durations' = Append(durations, <<s, n, n>>)
    /\ \E c \in findOngoingEvent(n, ongoing[s]) :
         ongoing' = [ongoing EXCEPT ![s] = Erased(ongoing[s], c)]
HandlesNothing(s, n) ==
    /\ s \in Emitters /\ events[1].source = s /\ events[1].seq = n /\ events[1].interval = "END"
    /\ events[1] = EndOf(s, n) => findOngoingEvent(n, ongoing[s]) = {}
    /\ UNCHANGED <<durations, ongoing>>

\* addEvent does one of these, of the source and the number of the head.
LEMMA Handles ==
    ASSUME EventsAssumption, NumbersInv, QueueInv, addEvent
    PROVE  /\ events # <<>> /\ events' = Tail(events) /\ 1 \in Queued
           /\ UNCHANGED <<sequence, block, loops, starts, succeeded, excused, lost>>
           /\ shown' = IF events[1].interval = "NONE" THEN shown
                       ELSE [shown EXCEPT ![events[1].source] = (events[1].interval = "START")]
           /\ \E s \in EventSources, n \in Nat \ {0} :
                /\ HandlesStart(s, n) \/ HandlesPing(n) \/ HandlesEnd(s, n) \/ HandlesNothing(s, n)
                /\ n = events[1].seq /\ s = events[1].source
<1>1. /\ events # <<>> /\ events' = Tail(events) /\ EventsTypeOK
      /\ UNCHANGED <<sequence, block, loops, starts, succeeded, excused, lost>>
  BY DEF addEvent, NumbersInv
<1>2. 1 \in Queued /\ Head(events) = events[1] /\ events[1] \in EventRecords
  BY <1>1, HandleTyped
<1>3. PICK e : e = events[1]
  OBVIOUS
<1>4. shown' = IF e.interval = "NONE" THEN shown ELSE [shown EXCEPT ![e.source] = (e.interval = "START")]
  BY <1>2, <1>3 DEF addEvent, Shown
<1>5. /\ e.status = "CANCELLED" => UNCHANGED <<durations, ongoing>>
      /\ e.status # "CANCELLED" /\ e.interval = "NONE" => updatePingBuffers(e)
      /\ e.status # "CANCELLED" /\ e.interval # "NONE" => updateIntervalBuffers(e)
  BY <1>2, <1>3 DEF addEvent
<1>6. /\ e.source \in EventSources /\ e.seq \in Nat \ {0} /\ e.interval \in {"START", "END", "NONE"}
      /\ e.status \in {"SUCCESS", "CANCELLED"}
  BY <1>2, <1>3 DEF EventRecords
<1>7. PICK s \in EventSources, n \in Nat \ {0} : s = e.source /\ n = e.seq
  BY <1>6
<1>8. RightEvent(1)
  BY <1>2 DEF QueueInv, EventsRight
<1>9. /\ e.interval = "NONE" => e = Ping(n) /\ n <= loops /\ s = LOOP
      /\ e.interval \in {"START", "END"} => s \in Emitters /\ Started(s, n)
      /\ e.interval = "START" => e = StartOf(s, n)
      /\ e.interval = "END" /\ e.status = "SUCCESS" => e = EndOf(s, n)
  BY <1>1, <1>2, <1>3, <1>7, <1>8, Kinds
<1>10. CASE e.interval = "NONE"
  <2>1. e = Ping(n) /\ e.status = "SUCCESS" /\ n <= loops /\ s = LOOP
    BY <1>9, <1>10 DEF Ping, Event
  <2>2. updatePingBuffers(e)
    BY <1>5, <1>10, <2>1
  <2>3. HandlesPing(n)
    BY <1>3, <1>7, <2>1, <2>2 DEF HandlesPing, updatePingBuffers, AddStart
  <2> QED
    BY <1>1, <1>2, <1>3, <1>4, <1>7, <2>3
<1>11. CASE e.interval = "START"
  <2>1. e = StartOf(s, n) /\ e.status = "SUCCESS" /\ s \in Emitters /\ Started(s, n)
    BY <1>9, <1>11 DEF StartOf, Event
  <2>2. updateIntervalBuffers(e)
    BY <1>5, <1>11, <2>1
  <2>3. HandlesStart(s, n)
    BY <1>3, <1>7, <1>11, <2>1, <2>2 DEF HandlesStart, updateIntervalBuffers, AddStart
  <2> QED
    BY <1>1, <1>2, <1>3, <1>4, <1>7, <2>3
<1>12. CASE e.interval = "END"
  <2>1. s \in Emitters
    BY <1>9, <1>12
  <2>2. CASE e.status = "CANCELLED"
    <3>1. e # EndOf(s, n)
      BY <2>2 DEF EndOf, Event
    <3>2. HandlesNothing(s, n)
      BY <1>3, <1>5, <1>7, <1>12, <2>1, <2>2, <3>1 DEF HandlesNothing
    <3> QED
      BY <1>1, <1>2, <1>3, <1>4, <1>7, <3>2
  <2>3. CASE e.status = "SUCCESS"
    <3>1. e = EndOf(s, n) /\ updateIntervalBuffers(e)
      BY <1>5, <1>9, <1>12, <2>3
    <3>2. CASE findOngoingEvent(n, ongoing[s]) = {}
      <4>1. UNCHANGED <<durations, ongoing>>
        BY <1>7, <1>12, <3>1, <3>2 DEF updateIntervalBuffers
      <4>2. HandlesNothing(s, n)
        BY <1>3, <1>7, <1>12, <2>1, <3>2, <4>1 DEF HandlesNothing
      <4> QED
        BY <1>1, <1>2, <1>3, <1>4, <1>7, <4>2
    <3>3. CASE findOngoingEvent(n, ongoing[s]) # {}
      <4>1. PICK c \in findOngoingEvent(n, ongoing[s]) :
               c = CHOOSE i \in findOngoingEvent(n, ongoing[s]) : TRUE
        BY <3>3
      <4>2. /\ durations' = Append(durations, <<s, n, n>>)
            /\ ongoing' = [ongoing EXCEPT ![s].buffer[c] = NoEvent]
        BY <1>7, <1>12, <3>1, <3>3, <4>1 DEF updateIntervalBuffers
      <4>3. ongoing' = [ongoing EXCEPT ![s] = Erased(ongoing[s], c)]
        BY <4>2 DEF Erased
      <4>4. HandlesEnd(s, n)
        BY <1>3, <2>1, <3>1, <4>2, <4>3 DEF HandlesEnd
      <4> QED
        BY <1>1, <1>2, <1>3, <1>4, <1>7, <4>4
    <3> QED
      BY <3>2, <3>3
  <2> QED
    BY <1>6, <2>2, <2>3
<1> QED
  BY <1>6, <1>10, <1>11, <1>12

\* A new duration.
LEMMA DurationsGrow ==
    ASSUME EventsTypeOK, NEW d, durations' = Append(durations, d), d \in EventSources \X Nat \X Nat
    PROVE  /\ durations' \in Seq(EventSources \X Nat \X Nat) /\ Measured' = Measured \cup {d}
           /\ DurationsDiffer /\ d \notin Measured => DurationsDiffer'
<1>1. durations \in Seq(EventSources \X Nat \X Nat)
  BY DEF EventsTypeOK
<1>2. PICK k \in Nat : k = Len(durations)
  BY <1>1
<1>3. /\ durations' \in Seq(EventSources \X Nat \X Nat) /\ Len(durations') = k + 1
      /\ durations'[k + 1] = d /\ \A i \in 1 .. k : durations'[i] = durations[i]
  BY <1>1, <1>2, AppendProperties
<1>4. /\ Measured = {durations[i] : i \in 1 .. k}
      /\ Measured' = {durations'[i] : i \in 1 .. k + 1}
  <2>1. DOMAIN durations = 1 .. k /\ DOMAIN durations' = 1 .. k + 1
    BY <1>1, <1>2, <1>3
  <2> QED
    BY <2>1 DEF Measured
<1>5. 1 .. k + 1 = (1 .. k) \cup {k + 1}
  BY <1>2
<1>6. Measured' = Measured \cup {d}
  BY <1>3, <1>4, <1>5
<1>7. ASSUME DurationsDiffer, d \notin Measured PROVE DurationsDiffer'
  <2>1. ASSUME NEW i \in 1 .. k + 1, NEW j \in 1 .. k + 1, durations'[i] = durations'[j] PROVE i = j
    <3>1. \A x \in 1 .. k : durations'[x] # d /\ durations'[x] = durations[x]
      BY <1>3, <1>4, <1>7
    <3>2. (i \in 1 .. k \/ i = k + 1) /\ (j \in 1 .. k \/ j = k + 1)
      BY <1>5
    <3>3. CASE i \in 1 .. k /\ j \in 1 .. k
      BY <1>2, <1>7, <2>1, <3>1, <3>3 DEF DurationsDiffer
    <3>4. CASE ~(i \in 1 .. k /\ j \in 1 .. k)
      BY <1>3, <2>1, <3>1, <3>2, <3>4
    <3> QED
      BY <3>3, <3>4
  <2> QED
    BY <1>3, <2>1 DEF DurationsDiffer
<1> QED
  BY <1>3, <1>6, <1>7

LEMMA AddEventTyped ==
    ASSUME EventsAssumption, NumbersInv, QueueInv, addEvent
    PROVE  EventsTypeOK'
<1>1. /\ events # <<>> /\ events' = Tail(events) /\ EventsTypeOK /\ 1 \in Queued
      /\ UNCHANGED <<sequence, block, loops, starts, succeeded, excused, lost>>
      /\ shown' = IF events[1].interval = "NONE" THEN shown
                  ELSE [shown EXCEPT ![events[1].source] = (events[1].interval = "START")]
  BY Handles DEF NumbersInv
<1>2. PICK s \in EventSources, n \in Nat \ {0} :
        /\ HandlesStart(s, n) \/ HandlesPing(n) \/ HandlesEnd(s, n) \/ HandlesNothing(s, n)
        /\ n = events[1].seq /\ s = events[1].source
  BY Handles
<1>3. events' \in Seq(EventRecords)
  BY <1>1, HandleTyped
<1>4. shown' \in [Emitters -> BOOLEAN]
  <2>1. \A x \in BOOLEAN, r \in Emitters : [shown EXCEPT ![r] = x] \in [Emitters -> BOOLEAN]
    BY <1>1 DEF EventsTypeOK
  <2>2. (events[1].interval = "START") \in BOOLEAN
    OBVIOUS
  <2>3. events[1].interval # "NONE" => events[1].source \in Emitters
    BY <1>2 DEF HandlesStart, HandlesPing, HandlesEnd, HandlesNothing, Ping, StartOf, EndOf, Event
  <2> QED
    BY <1>1, <2>1, <2>2, <2>3 DEF EventsTypeOK
<1>5. eventWaitWindow \in Nat \ {0} /\ ongoing \in [EventSources -> Buffers(Nat, eventWaitWindow)]
      /\ LOOP \in EventSources /\ Emitters \subseteq EventSources
  BY <1>1 DEF EventsAssumption, EventsTypeOK, EventSources
<1>6. ongoing' \in [EventSources -> Buffers(Nat, eventWaitWindow)] /\ durations' \in Seq(EventSources \X Nat \X Nat)
  <2>0. \A r \in EventSources : add(ongoing[r], n, eventWaitWindow) \in Buffers(Nat, eventWaitWindow)
    <3>1. SUFFICES ASSUME NEW r \in EventSources
                   PROVE  add(ongoing[r], n, eventWaitWindow) \in Buffers(Nat, eventWaitWindow)
      OBVIOUS
    <3>2. ongoing[r] \in Buffers(Nat, eventWaitWindow) /\ n \in Nat
      BY <1>5
    <3> QED
      BY <1>5, <3>2, AddIsBuffer
  <2>1. CASE HandlesStart(s, n)
    BY <1>1, <1>5, <2>0, <2>1 DEF HandlesStart, EventsTypeOK
  <2>2. CASE HandlesPing(n)
    <3>1. ongoing' \in [EventSources -> Buffers(Nat, eventWaitWindow)]
      BY <1>5, <2>0, <2>2 DEF HandlesPing
    <3>2. durations' = durations \/ durations' = Append(durations, <<LOOP, n - 1, n>>)
      BY <2>2 DEF HandlesPing
    <3>3. <<LOOP, n - 1, n>> \in EventSources \X Nat \X Nat
      <4>1. n - 1 \in Nat /\ n \in Nat
        OBVIOUS
      <4> QED
        BY <1>5, <4>1
    <3>4. PICK d \in EventSources \X Nat \X Nat : d = <<LOOP, n - 1, n>>
      BY <3>3
    <3>5. CASE durations' = Append(durations, d)
      BY <1>1, <3>1, <3>5, DurationsGrow
    <3>6. CASE durations' = durations
      BY <1>1, <3>1, <3>6 DEF EventsTypeOK
    <3> QED
      BY <3>2, <3>4, <3>5, <3>6
  <2>3. CASE HandlesEnd(s, n)
    <3>1. PICK d \in EventSources \X Nat \X Nat : d = <<s, n, n>>
      OBVIOUS
    <3>2. durations' \in Seq(EventSources \X Nat \X Nat)
      BY <1>1, <2>3, <3>1, DurationsGrow DEF HandlesEnd
    <3>3. PICK c \in findOngoingEvent(n, ongoing[s]) :
            ongoing' = [ongoing EXCEPT ![s] = Erased(ongoing[s], c)]
      BY <2>3 DEF HandlesEnd
    <3>4. PICK b \in Buffers(Nat, eventWaitWindow) : b = ongoing[s]
      BY <1>5
    <3>5. PICK new : new = Erased(b, c)
      OBVIOUS
    <3>8. new \in Buffers(Nat, eventWaitWindow)
      <4>1. n \in Nat /\ c \in findOngoingEvent(n, b)
        BY <3>3, <3>4
      <4>2. PICK g, h : g = getBuffer(b, eventWaitWindow) /\ h = getBuffer(Erased(b, c), eventWaitWindow)
        OBVIOUS
      <4>3. Erased(b, c) \in Buffers(Nat, eventWaitWindow)
        BY <4>1, <4>2, FoundIsErased
      <4> QED
        BY <3>5, <4>3
    <3>9. ongoing' = [ongoing EXCEPT ![s] = new]
      BY <3>3, <3>4, <3>5
    <3> QED
      BY <1>5, <3>2, <3>8, <3>9
  <2>4. CASE HandlesNothing(s, n)
    BY <1>1, <2>4 DEF HandlesNothing, EventsTypeOK
  <2> QED
    BY <1>2, <2>1, <2>2, <2>3, <2>4
<1> QED
  BY <1>1, <1>3, <1>4, <1>6 DEF EventsTypeOK

\* What the head of the queue adds to what is measured.
HeadMeasures(s, n, D) ==
    \/ D = {}
    \/ s \in Emitters /\ events[1] = EndOf(s, n) /\ D = {<<s, n, n>>}
    \/ s = LOOP /\ events[1] = Ping(n) /\ n <= loops /\ D = {<<LOOP, n - 1, n>>}

LEMMA AddEventMeasures ==
    ASSUME EventsAssumption, NumbersInv, QueueInv, addEvent,
           NEW s \in EventSources, NEW n \in Nat \ {0}, s = events[1].source,
           HandlesStart(s, n) \/ HandlesPing(n) \/ HandlesEnd(s, n) \/ HandlesNothing(s, n)
    PROVE  \E D : Measured' = Measured \cup D /\ HeadMeasures(s, n, D) /\ DurationsDiffer'
<1>1. EventsTypeOK /\ 1 \in Queued /\ RightEvent(1)
  BY Handles DEF NumbersInv, QueueInv, EventsRight
<1>2. CASE durations' = durations
  <2>1. Measured' = Measured \cup {} /\ DurationsDiffer'
    BY <1>2 DEF Measured, DurationsDiffer, QueueInv
  <2> QED
    BY <2>1 DEF HeadMeasures
<1>3. CASE HandlesEnd(s, n)
  <2>1. /\ s \in Emitters /\ events[1] = EndOf(s, n) /\ durations' = Append(durations, <<s, n, n>>)
    BY <1>3 DEF HandlesEnd
  <2>2. <<s, n, n>> \notin Measured
    <3>1. events[1].interval = "END" /\ events[1].source = s /\ events[1].seq = n
      BY <2>1 DEF EndOf, Event
    <3>2. events[1].interval = "END" => <<events[1].source, events[1].seq, events[1].seq>> \notin Measured
      BY <1>1, Kinds
    <3> QED
      BY <3>1, <3>2
  <2>3. PICK d \in EventSources \X Nat \X Nat : d = <<s, n, n>>
    OBVIOUS
  <2>4. Measured' = Measured \cup {d} /\ DurationsDiffer'
    BY <1>1, <2>1, <2>2, <2>3, DurationsGrow DEF QueueInv
  <2>5. HeadMeasures(s, n, {d})
    BY <2>1, <2>3 DEF HeadMeasures
  <2> QED
    BY <2>4, <2>5
<1>4. CASE HandlesPing(n) /\ durations' = Append(durations, <<LOOP, n - 1, n>>)
  <2>1. events[1] = Ping(n) /\ n <= loops /\ s = LOOP
    BY <1>4 DEF HandlesPing, Ping, Event
  <2>2. n - 1 \in Nat /\ n \in Nat
    OBVIOUS
  <2>3. <<LOOP, n - 1, n>> \notin Measured
    <3>1. <<LOOP, n - 1, n>> \in Measured => n < n
      BY <1>1, <2>1, <2>2 DEF QueueInv, MeasuredRight, Ping, Event
    <3> QED
      BY <2>2, <3>1
  <2>4. PICK d \in EventSources \X Nat \X Nat : d = <<LOOP, n - 1, n>>
    BY <2>2 DEF EventSources
  <2>5. Measured' = Measured \cup {d} /\ DurationsDiffer'
    BY <1>1, <1>4, <2>3, <2>4, DurationsGrow DEF QueueInv
  <2>6. HeadMeasures(s, n, {d})
    BY <2>1, <2>4 DEF HeadMeasures
  <2> QED
    BY <2>5, <2>6
<1> QED
  BY <1>2, <1>3, <1>4 DEF HandlesStart, HandlesPing, HandlesNothing

LEMMA AddEventKeepsQueue ==
    ASSUME EventsAssumption, NumbersInv, QueueInv, addEvent
    PROVE  QueueInv'
<1>1. /\ events # <<>> /\ events' = Tail(events) /\ 1 \in Queued /\ EventsTypeOK /\ RightEvent(1)
      /\ UNCHANGED <<sequence, block, loops, starts, succeeded, excused, lost>>
  BY Handles DEF NumbersInv, QueueInv, EventsRight
<1>2. PICK s \in EventSources, n \in Nat \ {0} :
        /\ HandlesStart(s, n) \/ HandlesPing(n) \/ HandlesEnd(s, n) \/ HandlesNothing(s, n)
        /\ n = events[1].seq /\ s = events[1].source
  BY Handles
<1>3. PICK D : Measured' = Measured \cup D /\ HeadMeasures(s, n, D) /\ DurationsDiffer'
  BY <1>2, AddEventMeasures
<1>4. /\ \A i \in Queued' : i + 1 \in Queued /\ events'[i] = events[i + 1] /\ i \in Nat /\ i >= 1
      /\ \A i \in Queued : i = 1 \/ (i - 1 \in Queued' /\ events'[i - 1] = events[i])
      /\ events \in Seq(EventRecords)
  <2>1. \A i \in Queued' : i \in Nat /\ i >= 1
    BY DEF Queued
  <2> QED
    BY <1>1, <2>1, HandleTyped DEF EventsTypeOK
<1>5. /\ \A r, m : Started(r, m)' <=> Started(r, m)
      /\ \A m : Ended(m)' <=> Ended(m)
      /\ \A r : Inside(r)' <=> Inside(r)
  BY <1>1 DEF Started, Ended, Inside
<1>6. \A i \in Queued' : InTurn(1, i + 1)
  BY <1>1, <1>4 DEF QueueInv, EventsInTurn
<1>7. EventsRight'
  <2>1. ASSUME NEW i \in Queued' PROVE RightEvent(i)'
    <3>1. PICK x : x = i + 1
      OBVIOUS
    <3>2. x \in Queued /\ events'[i] = events[x] /\ RightEvent(x) /\ InTurn(1, x)
      BY <1>4, <1>6, <3>1 DEF QueueInv, EventsRight
    <3>3. SUFFICES ASSUME NEW r \in EventSources, NEW m \in Nat, events[x].source = r, events[x].seq = m
                   PROVE  \/ events[x] = Ping(m) /\ m <= loops
                          \/ events[x] = StartOf(r, m) /\ Started(r, m) /\ <<r, m, m>> \notin Measured'
                          \/ /\ events[x].interval = "END" /\ Started(r, m) /\ Ended(m) /\ <<r, m, m>> \notin Measured'
                             /\ events[x].status = "SUCCESS" => <<r, m>> \in succeeded
      BY <1>1, <1>5, <3>2 DEF RightEvent, Ping, StartOf, Event
    <3>4. ASSUME events[x].interval \in {"START", "END"}, r \in Emitters PROVE <<r, m, m>> \notin D
      <4>1. s \in Emitters /\ events[1] = EndOf(s, n) => m # n
        BY <3>2, <3>3, <3>4 DEF InTurn, EndOf, Event
      <4> QED
        BY <1>3, <3>4, <4>1 DEF HeadMeasures, EventsAssumption
    <3>5. events[x] = StartOf(r, m) => events[x].interval = "START"
      BY DEF StartOf, Event
    <3>6. Started(r, m) => r \in Emitters
      BY DEF Started
    <3> QED
      BY <1>3, <3>2, <3>3, <3>4, <3>5, <3>6 DEF RightEvent
  <2> QED
    BY <2>1 DEF EventsRight
<1>8. EventsInTurn'
  <2>1. ASSUME NEW i \in Queued', NEW j \in Queued', i < j PROVE InTurn(i, j)'
    <3>1. i + 1 \in Queued /\ j + 1 \in Queued /\ i + 1 < j + 1
      BY <1>4, <2>1
    <3>2. InTurn(i + 1, j + 1)
      BY <3>1 DEF QueueInv, EventsInTurn
    <3> QED
      BY <1>4, <3>2 DEF InTurn
  <2> QED
    BY <2>1 DEF EventsInTurn
<1>9. MeasuredRight'
  <2>1. ASSUME NEW r \in Emitters, NEW m \in Nat, NEW k \in Nat, <<r, m, k>> \in Measured'
        PROVE  m = k /\ <<r, k>> \in succeeded
    <3>1. CASE <<r, m, k>> \in Measured
      BY <3>1 DEF QueueInv, MeasuredRight
    <3>2. CASE <<r, m, k>> \in D
      <4>1. events[1] = EndOf(s, n) /\ r = s /\ m = n /\ k = n
        BY <1>3, <3>2 DEF HeadMeasures, EventsAssumption
      <4>2. <<s, n>> \in succeeded
        <5>1. /\ events[1].interval = "END" /\ events[1].status = "SUCCESS"
              /\ events[1].source = s /\ events[1].seq = n
          BY <4>1 DEF EndOf, Event
        <5>2. events[1].interval = "END" /\ events[1].status = "SUCCESS" =>
                <<events[1].source, events[1].seq>> \in succeeded
          BY <1>1, Kinds
        <5> QED
          BY <5>1, <5>2
      <4> QED
        BY <4>1, <4>2
    <3> QED
      BY <1>3, <2>1, <3>1, <3>2
  <2>2. ASSUME NEW m \in Nat, NEW k \in Nat, <<LOOP, m, k>> \in Measured'
        PROVE  k <= loops /\ \A i \in Queued' : events'[i].interval = "NONE" => k < events'[i].seq
    <3>1. CASE <<LOOP, m, k>> \in Measured
      <4>1. k <= loops /\ \A i \in Queued : events[i].interval = "NONE" => k < events[i].seq
        BY <3>1 DEF QueueInv, MeasuredRight
      <4> QED
        BY <1>4, <4>1
    <3>2. CASE <<LOOP, m, k>> \in D
      <4>1. events[1] = Ping(n) /\ k = n /\ n <= loops
        BY <1>3, <3>2 DEF HeadMeasures, EventsAssumption
      <4>2. ASSUME NEW i \in Queued', events'[i].interval = "NONE" PROVE n < events'[i].seq
        BY <1>4, <1>6, <4>1, <4>2 DEF InTurn, Ping, Event
      <4> QED
        BY <4>1, <4>2
    <3> QED
      BY <1>3, <2>2, <3>1, <3>2
  <2> QED
    BY <1>1, <2>1, <2>2 DEF MeasuredRight
<1>10. LatestStartIsInside'
  <2>1. ASSUME NEW r \in Emitters, NEW i \in Queued', Latest(r, i)', events'[i].interval = "START"
        PROVE  Inside(r)
    <3>1. PICK x \in Queued : x = i + 1 /\ events'[i] = events[x]
      BY <1>4
    <3>2. ASSUME NEW y \in Queued, x < y PROVE events[y].source # r
      <4>1. y # 1 /\ i < y - 1
        BY <1>4, <3>1, <3>2 DEF Queued
      <4>2. PICK z \in Queued' : z = y - 1 /\ events'[z] = events[y]
        BY <1>4, <4>1
      <4> QED
        BY <2>1, <4>1, <4>2 DEF Latest
    <3>3. Latest(r, x)
      BY <2>1, <3>1, <3>2 DEF Latest
    <3> QED
      BY <2>1, <3>1, <3>3 DEF QueueInv, LatestStartIsInside
  <2> QED
    BY <1>5, <2>1 DEF LatestStartIsInside
<1> QED
  BY <1>3, <1>7, <1>8, <1>9, <1>10 DEF QueueInv

----------------------------------------------------------------------------
(* While nothing is lost.                                                  *)

LEMMA InitNothingLost == ASSUME EventsAssumption, EventsInit PROVE NothingLost
<1>1. /\ events = <<>> /\ durations = <<>> /\ loops = 0 /\ succeeded = {}
      /\ \A s \in Emitters : starts[s] = <<>> /\ shown[s] = FALSE /\ ongoing[s] = Empty
      /\ ongoing[LOOP] = Empty /\ eventWaitWindow \in Nat \ {0}
  BY DEF EventsInit, EventsAssumption
<1>2. Queued = {} /\ Measured = {}
  BY <1>1 DEF Queued, Measured
<1>3. Len(getBuffer(Empty, eventWaitWindow)) = 0
  BY <1>1 DEF getBuffer, Empty
<1>4. ASSUME NEW s \in Emitters PROVE Window(s, 0)
  BY <1>1, <1>2, <1>3 DEF Window
<1>5. PingWindow(0)
  BY <1>1, <1>2 DEF PingWindow
<1>6. StartsInOrder /\ Covered /\ EndsFind
  BY <1>1, <1>2 DEF StartsInOrder, Covered, EndsFind
<1>7. ShownInside
  BY <1>1 DEF ShownInside
<1>8. \A s \in Emitters : \E k \in Nat : Window(s, k)
  BY <1>4
<1> QED
  BY <1>5, <1>6, <1>7, <1>8 DEF NothingLost

\* Nothing is lost when an event is sent: it is the last in the queue.
LEMMA SendAppends ==
    ASSUME EventsAssumption, EventsTypeOK, NEW e \in EventRecords, Send(e), ~lost'
    PROVE  /\ ~lost /\ Len(events) \in Nat /\ Len(events') = Len(events) + 1
           /\ events'[Len(events) + 1] = e
           /\ \A i \in Queued : i \in Queued' /\ events'[i] = events[i] /\ i < Len(events) + 1
           /\ \A i \in Queued' : i \in Queued \/ i = Len(events) + 1
           /\ Len(events) + 1 \in Queued'
<1>1. events \in Seq(EventRecords) /\ Len(events) \in Nat
  BY DEF EventsTypeOK
<1>2. PICK d \in {0, 1} :
        /\ Len(events') = Len(events) + 1 - d
        /\ \A i \in 1 .. Len(events') - 1 : i + d \in Queued /\ events'[i] = events[i + d]
        /\ ~lost' => ~lost /\ d = 0
  BY SendTyped
<1>3. events'[Len(events')] = e
  BY SendTyped
<1>4. ~lost /\ d = 0
  BY <1>2
<1>5. Len(events') = Len(events) + 1
  BY <1>1, <1>2, <1>4
<1>6. \A i \in Queued : events'[i] = events[i]
  BY <1>1, <1>2, <1>4, <1>5 DEF Queued
<1> QED
  BY <1>1, <1>3, <1>4, <1>5, <1>6 DEF Queued

\* What a sent event changes of the windows: that of its own START, and of its
\* own ping, grows at the end.
LEMMA SendKeepsWindows ==
    ASSUME EventsAssumption, EventsTypeOK, NEW e \in EventRecords, Send(e), ~lost',
           UNCHANGED <<ongoing, durations>>, NEW s \in Emitters, NEW k \in Nat, Window(s, k),
           Len(starts[s]) \in Nat,
           \/ starts'[s] = starts[s]
           \/ /\ Len(starts'[s]) = Len(starts[s]) + 1
              /\ \A j \in 1 .. Len(starts[s]) : starts'[s][j] = starts[s][j]
              /\ e = StartOf(s, starts'[s][Len(starts[s]) + 1]),
           \A j \in 1 .. Len(starts[s]) : e # StartOf(s, starts[s][j])
    PROVE  Window(s, k)'
<1> DEFINE L == Len(starts[s])
           N == Len(events) + 1
           W == eventWaitWindow
<1>1. /\ events'[N] = e /\ N \in Queued'
      /\ \A i \in Queued : i \in Queued' /\ events'[i] = events[i]
      /\ \A i \in Queued' : i \in Queued \/ i = N
  BY SendAppends
<1>2. PICK g : g = getBuffer(ongoing[s], W)
  OBVIOUS
<1>3. /\ k \in 0 .. L
      /\ \A j \in 1 .. L : k < j <=> \E i \in Queued : events[i] = StartOf(s, starts[s][j])
      /\ Len(g) = IF k < W THEN k ELSE W
      /\ \A p \in 1 .. Len(g) :
           g[p] = IF <<s, starts[s][k - Len(g) + p], starts[s][k - Len(g) + p]>> \in Measured THEN NoEvent
                  ELSE starts[s][k - Len(g) + p]
  BY <1>2 DEF Window
<1>4. W \in Nat \ {0} /\ Measured' = Measured
  BY DEF EventsAssumption, Measured
<1>5. ASSUME NEW j \in 1 .. L
      PROVE  starts'[s][j] = starts[s][j] /\ j \in 1 .. Len(starts'[s])
             /\ (k < j <=> \E i \in Queued' : events'[i] = StartOf(s, starts[s][j]))
  <2>1. (\E i \in Queued' : events'[i] = StartOf(s, starts[s][j])) <=>
        (\E i \in Queued : events[i] = StartOf(s, starts[s][j]))
    BY <1>1
  <2>2. starts'[s][j] = starts[s][j] /\ j \in 1 .. Len(starts'[s])
    OBVIOUS
  <2> QED
    BY <1>3, <2>1, <2>2
<1>6. ASSUME NEW j \in 1 .. Len(starts'[s])
      PROVE  k < j <=> \E i \in Queued' : events'[i] = StartOf(s, starts'[s][j])
  <2>1. CASE j \in 1 .. L
    BY <1>5, <2>1
  <2>2. CASE ~(j \in 1 .. L)
    <3>1. j = L + 1 /\ e = StartOf(s, starts'[s][j])
      BY <2>2
    <3>2. k < j
      BY <1>3, <3>1
    <3> QED
      BY <1>1, <3>1, <3>2
  <2> QED
    BY <2>1, <2>2
<1>7. ASSUME NEW p \in 1 .. Len(g) PROVE starts'[s][k - Len(g) + p] = starts[s][k - Len(g) + p]
  <2>1. k - Len(g) + p \in 1 .. L
    BY <1>3, <1>4
  <2> QED
    BY <1>5, <2>1
<1>8. k \in 0 .. Len(starts'[s])
  BY <1>3
<1>9. g = getBuffer(ongoing'[s], eventWaitWindow)
  BY <1>2
<1>10. Len(g) = IF k < eventWaitWindow THEN k ELSE eventWaitWindow
  BY <1>3
<1>11. \A p \in 1 .. Len(g) :
         g[p] = IF <<s, starts'[s][k - Len(g) + p], starts'[s][k - Len(g) + p]>> \in Measured' THEN NoEvent
                ELSE starts'[s][k - Len(g) + p]
  BY <1>3, <1>4, <1>7
<1> HIDE DEF L, N, W
<1> QED
  BY <1>6, <1>8, <1>9, <1>10, <1>11 DEF Window

\* The same of the pings.
LEMMA SendKeepsPings ==
    ASSUME EventsAssumption, EventsTypeOK, NEW e \in EventRecords, Send(e), ~lost',
           UNCHANGED <<ongoing, durations>>, NEW h \in Nat, PingWindow(h),
           \/ loops' = loops /\ e.interval # "NONE"
           \/ loops' = loops + 1 /\ e = Ping(loops + 1)
    PROVE  PingWindow(h)'
<1> DEFINE N == Len(events) + 1
<1>1. /\ events'[N] = e /\ N \in Queued' /\ loops \in Nat /\ Measured' = Measured
      /\ \A i \in Queued : i \in Queued' /\ events'[i] = events[i]
      /\ \A i \in Queued' : i \in Queued \/ i = N
  BY SendAppends DEF EventsTypeOK, Measured
<1>2. /\ h \in 0 .. loops
      /\ \A n \in 1 .. loops : h < n <=> \E i \in Queued : events[i] = Ping(n)
  BY DEF PingWindow
<1>3. \A n : Ping(n).interval = "NONE" /\ Ping(n).seq = n
  BY DEF Ping, Event
<1>4. ASSUME NEW n \in 1 .. loops' PROVE h < n <=> \E i \in Queued' : events'[i] = Ping(n)
  <2>1. CASE n \in 1 .. loops
    <3>1. e # Ping(n)
      <4>1. n # loops + 1
        BY <1>1, <2>1
      <4> QED
        BY <1>3, <4>1
    <3> QED
      BY <1>1, <1>2, <2>1, <3>1
  <2>2. CASE ~(n \in 1 .. loops)
    <3>1. n = loops + 1 /\ e = Ping(n)
      BY <1>1, <2>2
    <3>2. h < n
      BY <1>1, <1>2, <3>1
    <3> QED
      BY <1>1, <3>1, <3>2
  <2> QED
    BY <2>1, <2>2
<1>5. h \in 0 .. loops'
  BY <1>1, <1>2
<1>6. PICK g : g = getBuffer(ongoing[LOOP], eventWaitWindow) /\ g = getBuffer(ongoing'[LOOP], eventWaitWindow)
  OBVIOUS
<1>7. /\ h > 0 => Len(g) > 0 /\ g[Len(g)] = h
      /\ \A n \in 2 .. h : <<LOOP, n - 1, n>> \in Measured
  BY <1>6 DEF PingWindow
<1> QED
  BY <1>1, <1>4, <1>5, <1>6, <1>7 DEF PingWindow

\* The STARTs of a source after e is sent: as they were, or one more, which is e.
Grown(s, e) ==
    /\ Len(starts[s]) \in Nat
    /\ \/ starts'[s] = starts[s]
       \/ /\ Len(starts'[s]) = Len(starts[s]) + 1
          /\ \A j \in 1 .. Len(starts[s]) : starts'[s][j] = starts[s][j]
          /\ e = StartOf(s, starts'[s][Len(starts[s]) + 1])
    /\ \A j \in 1 .. Len(starts[s]) : e # StartOf(s, starts[s][j])

LEMMA GrownStarts ==
    ASSUME NEW s, NEW e, Grown(s, e), NEW j \in 1 .. Len(starts'[s])
    PROVE  \/ j \in 1 .. Len(starts[s]) /\ starts'[s][j] = starts[s][j] /\ e # StartOf(s, starts[s][j])
           \/ j = Len(starts[s]) + 1 /\ Len(starts'[s]) = Len(starts[s]) + 1 /\ e = StartOf(s, starts'[s][j])
<1>1. CASE starts'[s] = starts[s]
  BY <1>1 DEF Grown
<1>2. CASE ~(starts'[s] = starts[s])
  <2>1. Len(starts'[s]) = Len(starts[s]) + 1 /\ Len(starts[s]) \in Nat
    BY <1>2 DEF Grown
  <2>2. j \in 1 .. Len(starts[s]) \/ j = Len(starts[s]) + 1
    BY <2>1
  <2> QED
    BY <1>2, <2>1, <2>2 DEF Grown
<1> QED
  BY <1>1, <1>2

LEMMA SendKeepsStartsInOrder ==
    ASSUME EventsAssumption, EventsTypeOK, NEW e \in EventRecords, Send(e), ~lost', StartsInOrder,
           \A s \in Emitters : Grown(s, e),
           \A s \in Emitters : \A j \in 1 .. Len(starts'[s]), i \in Queued :
              e = StartOf(s, starts'[s][j]) => events[i] # e
    PROVE  StartsInOrder'
<1> DEFINE N == Len(events) + 1
<1>1. /\ events'[N] = e /\ N \in Queued'
      /\ \A i \in Queued : i \in Queued' /\ events'[i] = events[i] /\ i < N
      /\ \A i \in Queued' : i \in Queued \/ i = N
  BY SendAppends
<1> HIDE DEF N
<1>2. SUFFICES ASSUME NEW s \in Emitters, NEW i \in 1 .. Len(starts'[s]), NEW j \in 1 .. Len(starts'[s]),
                      NEW a \in Queued', NEW b \in Queued',
                      events'[a] = StartOf(s, starts'[s][i]), events'[b] = StartOf(s, starts'[s][j]), i < j
               PROVE  a < b
  BY DEF StartsInOrder
<1>3. Grown(s, e) /\ Len(starts[s]) \in Nat
  BY DEF Grown
<1>4. i \in 1 .. Len(starts[s]) /\ starts'[s][i] = starts[s][i] /\ e # StartOf(s, starts[s][i])
  <2>1. i # Len(starts[s]) + 1
    BY <1>2, <1>3, GrownStarts
  <2> QED
    BY <1>3, <2>1, GrownStarts
<1>5. a \in Queued /\ events[a] = StartOf(s, starts[s][i])
  BY <1>1, <1>2, <1>4
<1>6. CASE j \in 1 .. Len(starts[s]) /\ starts'[s][j] = starts[s][j] /\ e # StartOf(s, starts[s][j])
  <2>1. b \in Queued /\ events[b] = StartOf(s, starts[s][j])
    BY <1>1, <1>2, <1>6
  <2> QED
    BY <1>2, <1>4, <1>5, <1>6, <2>1 DEF StartsInOrder
<1>7. CASE j = Len(starts[s]) + 1 /\ e = StartOf(s, starts'[s][j])
  <2>1. b = N
    BY <1>1, <1>2, <1>7
  <2> QED
    BY <1>1, <1>5, <2>1
<1> QED
  BY <1>3, <1>6, <1>7, GrownStarts

\* What is measured, or will be before place i, stays so.
LEMMA SendKeepsMeasures ==
    ASSUME EventsAssumption, EventsTypeOK, NEW e \in EventRecords, Send(e), ~lost', UNCHANGED durations,
           NEW s, NEW m, NEW i \in 1 .. Len(events) + 1, Measures(s, m, i),
           \A a \in Queued : events[a] = EndOf(s, m) /\ <<s, m>> \notin excused => <<s, m>> \notin excused'
    PROVE  Measures(s, m, i)'
<1>1. CASE <<s, m, m>> \in Measured
  BY <1>1 DEF Measures, Measured
<1>2. CASE EndBefore(s, m, i)
  <2>1. PICK a \in 1 .. i - 1 : events[a] = EndOf(s, m) /\ <<s, m>> \notin excused
    BY <1>2 DEF EndBefore
  <2>2. a \in Queued
    BY DEF Queued, EventsTypeOK
  <2>3. events'[a] = events[a]
    BY <2>2, SendAppends
  <2> QED
    BY <2>1, <2>2, <2>3 DEF Measures, EndBefore
<1> QED
  BY <1>1, <1>2 DEF Measures

\* An END in the queue finds its START as it did before e was sent.
LEMMA SendKeepsFindable ==
    ASSUME EventsAssumption, EventsTypeOK, NEW e \in EventRecords, Send(e), ~lost', UNCHANGED durations,
           NEW s \in Emitters, NEW n \in Nat, NEW j \in 1 .. Len(starts[s]), NEW i \in Queued,
           Findable(s, n, j, i), Grown(s, e),
           \A m : \A a \in Queued : events[a] = EndOf(s, m) /\ <<s, m>> \notin excused => <<s, m>> \notin excused'
    PROVE  Findable(s, n, j, i)'
<1>1. SUFFICES ASSUME NEW l \in j + 1 .. Len(starts'[s]), NEW m \in Nat, starts'[s][l] = m, ~StartAfter(s, m, i)'
               PROVE  l < j + eventWaitWindow /\ (m < n => Measures(s, m, i)')
  BY DEF Findable
<1>2. PICK N : N = Len(events) + 1
  OBVIOUS
<1>3. /\ events'[N] = e /\ N \in Queued' /\ Len(events') = N /\ N \in Nat
      /\ \A a \in Queued : a \in Queued' /\ events'[a] = events[a] /\ a < N
  BY <1>2, SendAppends
<1>4. Len(starts[s]) \in Nat /\ l \in 1 .. Len(starts'[s])
  BY DEF Grown
<1>5. /\ l \in 1 .. Len(starts[s]) /\ starts[s][l] = m
  <2>1. e # StartOf(s, m)
    <3>1. i < N
      BY <1>3
    <3>2. N \in i + 1 .. Len(events')
      BY <1>3, <3>1 DEF Queued
    <3> QED
      BY <1>1, <1>3, <3>2 DEF StartAfter
  <2> QED
    BY <1>1, <1>4, <2>1, GrownStarts
<1>6. ~StartAfter(s, m, i)
  <2>1. ASSUME NEW a \in i + 1 .. Len(events), events[a] = StartOf(s, m) PROVE FALSE
    <3>1. a \in Queued
      BY <1>2, <1>3 DEF Queued
    <3>2. a \in i + 1 .. Len(events') /\ events'[a] = StartOf(s, m)
      BY <1>2, <1>3, <2>1, <3>1 DEF Queued
    <3> QED
      BY <1>1, <3>2 DEF StartAfter
  <2> QED
    BY <2>1 DEF StartAfter
<1>7. l \in j + 1 .. Len(starts[s])
  BY <1>1, <1>4, <1>5
<1>8. l < j + eventWaitWindow /\ (m < n => Measures(s, m, i))
  BY <1>5, <1>6, <1>7 DEF Findable
<1>9. i \in 1 .. Len(events) + 1
  BY <1>2, <1>3 DEF Queued
<1> QED
  BY <1>8, <1>9, SendKeepsMeasures

\* A thread leaves a source only with the event that it sends.
LEMMA SendKeepsShown ==
    ASSUME EventsAssumption, EventsTypeOK, NEW e \in EventRecords, Send(e), ~lost', ShownInside, UNCHANGED shown,
           \A s \in Emitters : s # e.source /\ Inside(s) => Inside(s)'
    PROVE  ShownInside'
<1>1. ASSUME NEW s \in Emitters, shown[s], \A i \in Queued' : events'[i].source # s PROVE Inside(s)'
  <2>1. s # e.source
    BY <1>1, SendAppends
  <2>2. \A i \in Queued : events[i].source # s
    BY <1>1, SendAppends
  <2> QED
    BY <1>1, <2>1, <2>2 DEF ShownInside
<1> QED
  BY <1>1 DEF ShownInside

LEMMA StartLosesNothing ==
    ASSUME EventsAssumption, NumbersInv, QueueInv, ~lost => NothingLost, ~lost',
           NEW t \in Threads, startTrackedEvent(t)
    PROVE  NothingLost'
<1>1. PICK s, n : s = block[t].source /\ n = block[t].seq
  OBVIOUS
<1>2. PICK e : e = StartOf(s, n)
  OBVIOUS
<1>3. /\ e \in EventRecords /\ Send(e) /\ e.source = s /\ e.seq = n /\ e.interval = "START"
      /\ s \in Emitters /\ n \in Nat \ {0} /\ EventsTypeOK /\ BlockNumbered(t)
  BY <1>1, <1>2, StartTyped DEF NumbersInv, StartOf, Event
<1>4. UNCHANGED <<loops, ongoing, shown, durations, succeeded, excused>>
  BY DEF startTrackedEvent
<1>5. /\ starts[s] \in Seq(Nat \ {0}) /\ Len(starts'[s]) = Len(starts[s]) + 1
      /\ starts'[s][Len(starts[s]) + 1] = n
      /\ \A j \in 1 .. Len(starts[s]) : starts'[s][j] = starts[s][j]
      /\ \A r \in Emitters : r # s => starts'[r] = starts[r]
      /\ ~Started(s, n)
  <2>1. starts[s] \in Seq(Nat \ {0}) /\ ~Started(s, n)
    BY <1>1, <1>3, StartAppended
  <2>2. Len(starts'[s]) = Len(starts[s]) + 1 /\ starts'[s][Len(starts[s]) + 1] = n
    BY <1>1, <1>3, StartAppended
  <2>3. \A j \in 1 .. Len(starts[s]) : starts'[s][j] = starts[s][j]
    BY <1>1, <1>3, StartAppended
  <2>4. \A r \in Emitters : r # s => starts'[r] = starts[r]
    BY <1>1, <1>3, StartAppended
  <2> QED
    BY <2>1, <2>2, <2>3, <2>4
<1>6. ASSUME NEW r \in Emitters PROVE Grown(r, e)
  <2>1. Len(starts[r]) \in Nat
    BY <1>3 DEF EventsTypeOK
  <2>2. ASSUME NEW j \in 1 .. Len(starts[r]), e = StartOf(r, starts[r][j]) PROVE FALSE
    <3>1. r = s /\ starts[r][j] = n
      BY <1>3, <2>2 DEF StartOf, Event
    <3> QED
      BY <1>3, <1>5, <3>1 DEF Started
  <2>3. r = s => /\ Len(starts'[r]) = Len(starts[r]) + 1
                 /\ \A j \in 1 .. Len(starts[r]) : starts'[r][j] = starts[r][j]
                 /\ e = StartOf(r, starts'[r][Len(starts[r]) + 1])
    BY <1>2, <1>5
  <2> QED
    BY <1>5, <2>1, <2>2, <2>3 DEF Grown
<1>7. /\ ~lost /\ events'[Len(events) + 1] = e
      /\ \A i \in Queued : i \in Queued' /\ events'[i] = events[i]
      /\ \A i \in Queued' : i \in Queued \/ i = Len(events) + 1
  BY <1>3, SendAppends
<1>8. NothingLost
  BY <1>7
<1>9. \A i \in Queued : events[i].interval \in {"START", "END"} => events[i].seq # n
  <2>1. \A i \in Queued : events[i].interval \in {"START", "END"} => Started(events[i].source, events[i].seq)
    BY <1>3, Kinds DEF QueueInv, EventsRight
  <2>2. \A r : ~Started(r, n)
    BY <1>1, <1>3 DEF BlockNumbered, startTrackedEvent, Started
  <2> QED
    BY <2>1, <2>2
<1>10. ASSUME NEW r \in Emitters PROVE \E k \in Nat : Window(r, k)'
  <2>1. PICK k \in Nat : Window(r, k)
    BY <1>8 DEF NothingLost
  <2>2. Window(r, k)'
    BY <1>3, <1>4, <1>6, <2>1, SendKeepsWindows DEF Grown
  <2> QED
    BY <2>2
<1>11. \E h \in Nat : PingWindow(h)'
  <2>1. PICK h \in Nat : PingWindow(h)
    BY <1>8 DEF NothingLost
  <2>2. PingWindow(h)'
    BY <1>3, <1>4, <2>1, SendKeepsPings
  <2> QED
    BY <2>2
<1>12. StartsInOrder'
  <2>1. \A i \in Queued : events[i] # e
    BY <1>3, <1>9
  <2> QED
    BY <1>3, <1>6, <1>8, <2>1, SendKeepsStartsInOrder DEF NothingLost
<1>13. Covered'
  <2>1. Measured' = Measured
    BY <1>4 DEF Measured
  <2> QED
    BY <1>4, <1>7, <1>8, <2>1 DEF NothingLost, Covered
<1>14. EndsFind'
  <2>1. SUFFICES ASSUME NEW r \in Emitters, NEW m \in Nat, NEW i \in Queued', events'[i] = EndOf(r, m),
                        <<r, m>> \notin excused, NEW j \in 1 .. Len(starts'[r]), starts'[r][j] = m
                 PROVE  Findable(r, m, j, i)'
    BY <1>4 DEF EndsFind
  <2>2. EndOf(r, m).interval = "END" /\ EndOf(r, m).seq = m
    BY DEF EndOf, Event
  <2>3. i \in Queued /\ events[i] = EndOf(r, m) /\ m # n
    BY <1>3, <1>7, <1>9, <2>1, <2>2
  <2>4. j \in 1 .. Len(starts[r]) /\ starts[r][j] = m
    <3>1. e # StartOf(r, m)
      BY <1>3, <2>3 DEF StartOf, Event
    <3> QED
      BY <1>6, <2>1, <3>1, GrownStarts
  <2>5. Findable(r, m, j, i)
    BY <1>8, <2>1, <2>3, <2>4 DEF NothingLost, EndsFind
  <2> QED
    BY <1>3, <1>4, <1>6, <2>3, <2>4, <2>5, SendKeepsFindable
<1>15. ShownInside'
  BY <1>3, <1>4, <1>8, StartKeepsQueue, SendKeepsShown DEF NothingLost
<1> QED
  BY <1>10, <1>11, <1>12, <1>13, <1>14, <1>15 DEF NothingLost

LEMMA PingLosesNothing ==
    ASSUME EventsAssumption, NumbersInv, QueueInv, ~lost => NothingLost, ~lost', pingMainLoopEvent
    PROVE  NothingLost'
<1>1. PICK e : e = Ping(loops + 1)
  OBVIOUS
<1>2. /\ e \in EventRecords /\ Send(e) /\ EventsTypeOK
      /\ e.source = LOOP /\ e.interval = "NONE" /\ loops' = loops + 1
      /\ UNCHANGED <<block, starts, ongoing, shown, durations, succeeded, excused>>
  BY <1>1, PingTyped DEF Ping, Event, NumbersInv, pingMainLoopEvent
<1>3. ASSUME NEW r \in Emitters PROVE Grown(r, e)
  <2>1. Len(starts[r]) \in Nat
    BY <1>2 DEF EventsTypeOK
  <2> QED
    BY <1>2, <2>1 DEF Grown, StartOf, Event
<1>4. /\ ~lost /\ events'[Len(events) + 1] = e
      /\ \A i \in Queued : i \in Queued' /\ events'[i] = events[i]
      /\ \A i \in Queued' : i \in Queued \/ i = Len(events) + 1
  BY <1>2, SendAppends
<1>5. NothingLost
  BY <1>4
<1>6. ASSUME NEW r \in Emitters PROVE \E k \in Nat : Window(r, k)'
  <2>1. PICK k \in Nat : Window(r, k)
    BY <1>5 DEF NothingLost
  <2>2. Window(r, k)'
    BY <1>2, <1>3, <2>1, SendKeepsWindows DEF Grown
  <2> QED
    BY <2>2
<1>7. \E h \in Nat : PingWindow(h)'
  <2>1. PICK h \in Nat : PingWindow(h)
    BY <1>5 DEF NothingLost
  <2>2. PingWindow(h)'
    BY <1>1, <1>2, <2>1, SendKeepsPings
  <2> QED
    BY <2>2
<1>8. StartsInOrder'
  <2>1. \A s \in Emitters : \A m : e # StartOf(s, m)
    BY <1>2 DEF StartOf, Event
  <2> QED
    BY <1>2, <1>3, <1>5, <2>1, SendKeepsStartsInOrder DEF NothingLost
<1>9. Covered'
  <2>1. Measured' = Measured
    BY <1>2 DEF Measured
  <2> QED
    BY <1>2, <1>4, <1>5, <2>1 DEF NothingLost, Covered
<1>10. EndsFind'
  <2>1. SUFFICES ASSUME NEW r \in Emitters, NEW m \in Nat, NEW i \in Queued', events'[i] = EndOf(r, m),
                        <<r, m>> \notin excused, NEW j \in 1 .. Len(starts[r]), starts[r][j] = m
                 PROVE  Findable(r, m, j, i)'
    BY <1>2 DEF EndsFind
  <2>2. i \in Queued /\ events[i] = EndOf(r, m)
    BY <1>2, <1>4, <2>1 DEF EndOf, Event
  <2>3. Findable(r, m, j, i)
    BY <1>5, <2>1, <2>2 DEF NothingLost, EndsFind
  <2> QED
    BY <1>2, <1>3, <2>2, <2>3, SendKeepsFindable
<1>11. ShownInside'
  <2>1. \A r : Inside(r) => Inside(r)'
    BY <1>2 DEF Inside
  <2> QED
    BY <1>2, <1>5, <2>1, SendKeepsShown DEF NothingLost
<1> QED
  BY <1>6, <1>7, <1>8, <1>9, <1>10, <1>11 DEF NothingLost

\* A new END that is not excused finds its START.
LEMMA NewEndFinds ==
    ASSUME EventsAssumption, NumbersInv, NothingLost, NEW s \in Emitters, NEW n \in Nat \ {0},
           ~Unfindable(s, n), NEW j \in 1 .. Len(starts[s]), starts[s][j] = n,
           NEW l \in j + 1 .. Len(starts[s]), NEW m \in Nat, starts[s][l] = m
    PROVE  l < j + eventWaitWindow /\ (m < n => Measures(s, m, Len(events) + 1))
<1>1. PICK k \in Nat : k = Len(starts[s]) /\ j \in 1 .. k /\ l \in j + 1 .. k
  BY DEF NumbersInv, EventsTypeOK
<1>2. /\ Len(Later(s, n)) = k - j /\ DOMAIN Later(s, n) = 1 .. k - j
      /\ \A x \in 1 .. k - j : Later(s, n)[x] = starts[s][j + x]
  <2>1. starts[s] \in Seq(Nat \ {0}) /\ StartsNumbered /\ DOMAIN starts[s] = 1 .. k
    BY <1>1 DEF NumbersInv, EventsTypeOK
  <2>2. ASSUME NEW i \in 1 .. k, starts[s][i] = n PROVE i = j
    <3>1. \A x, y \in 1 .. k : starts[s][x] = starts[s][y] => x = y
      BY <1>1, <2>1 DEF StartsNumbered
    <3> QED
      BY <1>1, <2>2, <3>1
  <2>3. (CHOOSE i \in DOMAIN starts[s] : starts[s][i] = n) = j
    BY <1>1, <2>1, <2>2
  <2>4. Later(s, n) = SubSeq(starts[s], j + 1, k)
    BY <1>1, <2>3 DEF Later
  <2>5. PICK q, later : q = starts[s] /\ later = Later(s, n) /\ later = SubSeq(q, j + 1, k)
    BY <2>4
  <2>6. q \in Seq(Nat \ {0}) /\ j + 1 \in 1 .. k + 1 /\ \A i \in j + 1 .. k : i \in 1 .. Len(q)
    BY <1>1, <2>1, <2>5
  <2>7. later \in Seq(Nat \ {0}) /\ Len(later) = k - j /\ \A x \in 1 .. k - j : later[x] = q[j + x]
    <3>1. k - (j + 1) + 1 = k - j /\ \A x \in 1 .. k - j : (j + 1) + x - 1 = j + x
      BY <1>1
    <3>2. PICK a \in 1 .. k + 1 : a = j + 1
      BY <2>6
    <3>3. \A i \in a .. k : i \in 1 .. Len(q)
      BY <2>6, <3>2
    <3>4. /\ SubSeq(q, a, k) \in Seq(Nat \ {0})
          /\ Len(SubSeq(q, a, k)) = k - a + 1
          /\ \A x \in 1 .. k - a + 1 : SubSeq(q, a, k)[x] = q[a + x - 1]
      BY ONLY <2>6, <3>2, <3>3, k \in Nat, SubSeqProperties
    <3> QED
      BY <1>1, <2>5, <3>1, <3>2, <3>4
  <2>8. DOMAIN later = 1 .. k - j
    BY <2>7
  <2> QED
    BY <2>5, <2>7, <2>8
<1>3. l < j + eventWaitWindow
  <2>1. ~(Len(Later(s, n)) >= eventWaitWindow)
    BY DEF Unfindable
  <2> QED
    BY <1>1, <1>2, <2>1 DEF EventsAssumption
<1>4. ASSUME m < n PROVE Measures(s, m, Len(events) + 1)
  <2>1. PICK x \in 1 .. k - j : x = l - j /\ j + x = l
    BY <1>1
  <2>2. Later(s, n)[x] = m
    BY <1>2, <2>1
  <2>3. <<s, m>> \in succeeded \ excused
    BY <1>2, <1>4, <2>2 DEF Unfindable
  <2>4. <<s, m, m>> \in Measured \/ \E i \in Queued : events[i] = EndOf(s, m)
    BY <2>3 DEF NothingLost, Covered
  <2>5. Queued = 1 .. (Len(events) + 1) - 1
    BY DEF Queued, NumbersInv, EventsTypeOK
  <2> QED
    BY <2>3, <2>4, <2>5 DEF Measures, EndBefore
<1> QED
  BY <1>3, <1>4

LEMMA EndLosesNothing ==
    ASSUME EventsAssumption, NumbersInv, QueueInv, ~lost => NothingLost, ~lost',
           NEW t \in Threads, endTrackedEvent(t)
    PROVE  NothingLost'
<1>1. PICK s \in Emitters, n \in Nat \ {0}, e \in EventRecords :
        /\ s = block[t].source /\ n = block[t].seq /\ block[t].at = "started"
        /\ e.source = s /\ e.seq = n /\ e.interval = "END" /\ Send(e)
        /\ \/ /\ e = EndOf(s, n) /\ succeeded' = succeeded \cup {<<s, n>>}
              /\ excused' = IF Unfindable(s, n) THEN excused \cup {<<s, n>>} ELSE excused
           \/ e.status = "CANCELLED" /\ UNCHANGED <<succeeded, excused>>
        /\ EventsTypeOK
  <2>1. EventsTypeOK /\ BlockNumbered(t)
    BY DEF NumbersInv
  <2> QED
    BY <2>1, EndTyped
<1>2. UNCHANGED <<loops, ongoing, shown, durations, starts>>
  BY DEF endTrackedEvent
<1>3. ASSUME NEW r \in Emitters PROVE Grown(r, e)
  <2>1. Len(starts[r]) \in Nat
    BY <1>1 DEF EventsTypeOK
  <2> QED
    BY <1>1, <1>2, <2>1 DEF Grown, StartOf, Event
<1>4. /\ ~lost /\ events'[Len(events) + 1] = e /\ Len(events) + 1 \in Queued'
      /\ \A i \in Queued : i \in Queued' /\ events'[i] = events[i]
      /\ \A i \in Queued' : i \in Queued \/ i = Len(events) + 1
  BY <1>1, SendAppends
<1>5. NothingLost
  BY <1>4
<1>6. ASSUME NEW r, NEW m, NEW i \in Queued, events[i] = EndOf(r, m) PROVE m # n
  <2>1. events[i].interval = "END" /\ events[i].seq = m
    BY <1>6 DEF EndOf, Event
  <2>2. Ended(m)
    BY <1>1, <2>1, Kinds DEF QueueInv, EventsRight
  <2>3. ~Ended(n)
    BY <1>1, EndKeepsNumbers
  <2> QED
    BY <2>2, <2>3
<1>7. \A r, m : m # n /\ <<r, m>> \notin excused => <<r, m>> \notin excused'
  BY <1>1
<1>8. \A r, m : m # n /\ <<r, m>> \notin excused' => <<r, m>> \notin excused
  BY <1>1
<1>9. ASSUME NEW r \in Emitters PROVE \E k \in Nat : Window(r, k)'
  <2>1. PICK k \in Nat : Window(r, k)
    BY <1>5 DEF NothingLost
  <2>2. Window(r, k)'
    BY <1>1, <1>2, <1>3, <2>1, SendKeepsWindows DEF Grown
  <2> QED
    BY <2>2
<1>10. \E h \in Nat : PingWindow(h)'
  <2>1. PICK h \in Nat : PingWindow(h)
    BY <1>5 DEF NothingLost
  <2>2. PingWindow(h)'
    BY <1>1, <1>2, <2>1, SendKeepsPings
  <2> QED
    BY <2>2
<1>11. StartsInOrder'
  <2>1. \A r \in Emitters : \A m : e # StartOf(r, m)
    BY <1>1 DEF StartOf, Event
  <2> QED
    BY <1>1, <1>2, <1>3, <1>5, <2>1, SendKeepsStartsInOrder DEF NothingLost
<1>12. Covered'
  <2>1. Measured' = Measured
    BY <1>2 DEF Measured
  <2>2. SUFFICES ASSUME NEW r \in Emitters, NEW m \in Nat, <<r, m>> \in succeeded' \ excused'
                 PROVE  <<r, m, m>> \in Measured \/ \E i \in Queued' : events'[i] = EndOf(r, m)
    BY <2>1 DEF Covered
  <2>3. CASE <<r, m>> \in succeeded
    <3>1. <<r, m>> \notin excused
      BY <1>1, <2>2
    <3>2. <<r, m, m>> \in Measured \/ \E i \in Queued : events[i] = EndOf(r, m)
      BY <1>5, <2>3, <3>1 DEF NothingLost, Covered
    <3> QED
      BY <1>4, <3>2
  <2>4. CASE <<r, m>> \notin succeeded
    <3>1. e = EndOf(r, m)
      BY <1>1, <2>2, <2>4
    <3> QED
      BY <1>4, <3>1
  <2> QED
    BY <2>3, <2>4
<1>13. EndsFind'
  <2>1. SUFFICES ASSUME NEW r \in Emitters, NEW m \in Nat, NEW i \in Queued', events'[i] = EndOf(r, m),
                        <<r, m>> \notin excused', NEW j \in 1 .. Len(starts[r]), starts[r][j] = m
                 PROVE  Findable(r, m, j, i)'
    BY <1>2 DEF EndsFind
  <2>2. \A q : \A a \in Queued : events[a] = EndOf(r, q) /\ <<r, q>> \notin excused => <<r, q>> \notin excused'
    BY <1>6, <1>7
  <2>3. CASE i \in Queued
    <3>1. events[i] = EndOf(r, m) /\ <<r, m>> \notin excused
      BY <1>4, <1>6, <1>8, <2>1, <2>3
    <3>2. Findable(r, m, j, i)
      BY <1>5, <2>1, <2>3, <3>1 DEF NothingLost, EndsFind
    <3> QED
      BY <1>1, <1>2, <1>3, <2>2, <2>3, <3>2, SendKeepsFindable
  <2>4. CASE i = Len(events) + 1
    <3>1. e = EndOf(r, m)
      BY <1>4, <2>1, <2>4
    <3>2. e.source = r /\ e.seq = m /\ e.status = "SUCCESS"
      BY <3>1 DEF EndOf, Event
    <3>3. r = s /\ m = n /\ ~Unfindable(s, n)
      BY <1>1, <2>1, <3>2
    <3>4. ASSUME NEW l \in j + 1 .. Len(starts[s]), NEW q \in Nat, starts[s][l] = q
          PROVE  l < j + eventWaitWindow /\ (q < n => Measures(s, q, i)')
      <4>1. l < j + eventWaitWindow /\ (q < n => Measures(s, q, i))
        BY <1>5, <2>1, <2>4, <3>3, <3>4, NewEndFinds
      <4>2. i \in 1 .. Len(events) + 1
        BY <1>1, <2>4 DEF EventsTypeOK
      <4> QED
        BY <1>1, <1>2, <2>2, <3>3, <4>1, <4>2, SendKeepsMeasures
    <3> QED
      BY <1>2, <3>3, <3>4 DEF Findable
  <2> QED
    BY <1>4, <2>3, <2>4
<1>14. ShownInside'
  BY <1>1, <1>2, <1>5, EndKeepsQueue, SendKeepsShown DEF NothingLost
<1> QED
  BY <1>9, <1>10, <1>11, <1>12, <1>13, <1>14 DEF NothingLost

\* A step that neither sends nor handles.
LEMMA QuietLosesNothing ==
    ASSUME EventsAssumption, ~lost => NothingLost, ~lost', \A s : Inside(s) => Inside(s)',
           UNCHANGED <<loops, events, ongoing, shown, durations, starts, succeeded, excused, lost>>
    PROVE  NothingLost'
<1>1. NothingLost /\ Queued' = Queued /\ Measured' = Measured
  BY DEF Queued, Measured
<1>2. ASSUME NEW s \in Emitters PROVE \E k \in Nat : Window(s, k)'
  <2>1. PICK k \in Nat : Window(s, k)
    BY <1>1 DEF NothingLost
  <2>2. Window(s, k)'
    BY <1>1, <2>1 DEF Window
  <2> QED
    BY <2>2
<1>3. \E h \in Nat : PingWindow(h)'
  <2>1. PICK h \in Nat : PingWindow(h)
    BY <1>1 DEF NothingLost
  <2>2. PingWindow(h)'
    BY <1>1, <2>1 DEF PingWindow
  <2> QED
    BY <2>2
<1>4. StartsInOrder' /\ Covered' /\ ShownInside'
  BY <1>1 DEF NothingLost, StartsInOrder, Covered, ShownInside
<1>5. \A s, m, i : Measures(s, m, i) => Measures(s, m, i)'
  BY <1>1 DEF Measures, EndBefore
<1>6. \A s, m, i : StartAfter(s, m, i) => StartAfter(s, m, i)'
  BY DEF StartAfter
<1>7. EndsFind'
  <2>1. SUFFICES ASSUME NEW r \in Emitters, NEW m \in Nat, NEW i \in Queued, events[i] = EndOf(r, m),
                        <<r, m>> \notin excused, NEW j \in 1 .. Len(starts[r]), starts[r][j] = m
                 PROVE  Findable(r, m, j, i)'
    BY <1>1 DEF EndsFind
  <2>2. Findable(r, m, j, i)
    BY <1>1, <2>1 DEF NothingLost, EndsFind
  <2> QED
    BY <1>5, <1>6, <2>2 DEF Findable
<1> QED
  BY <1>2, <1>3, <1>4, <1>7 DEF NothingLost

----------------------------------------------------------------------------
(* Handling an event, while nothing is lost.                               *)

\* What is not at the head stays in the queue.
LEMMA StaysQueued ==
    ASSUME EventsTypeOK, events # <<>>, events' = Tail(events), NEW e, events[1] # e
    PROVE  (\E i \in Queued' : events'[i] = e) <=> (\E i \in Queued : events[i] = e)
<1>1. /\ \A i \in Queued' : i + 1 \in Queued /\ events'[i] = events[i + 1]
      /\ \A i \in Queued : i = 1 \/ (i - 1 \in Queued' /\ events'[i - 1] = events[i])
  BY HandleTyped
<1>2. ASSUME NEW i \in Queued', events'[i] = e PROVE \E j \in Queued : events[j] = e
  <2>1. i + 1 \in Queued /\ events[i + 1] = e
    BY <1>1, <1>2
  <2> QED
    BY <2>1
<1>3. ASSUME NEW i \in Queued, events[i] = e PROVE \E j \in Queued' : events'[j] = e
  <2>1. i # 1
    BY <1>3
  <2>2. i - 1 \in Queued' /\ events'[i - 1] = e
    BY <1>1, <1>3, <2>1
  <2> QED
    BY <2>2
<1> QED
  BY <1>2, <1>3

\* The END at the head of the queue finds its START.
LEMMA HeadEndFinds ==
    ASSUME EventsAssumption, NumbersInv, QueueInv, NothingLost, 1 \in Queued,
           NEW s \in Emitters, NEW n \in Nat \ {0}, events[1] = EndOf(s, n), <<s, n>> \notin excused
    PROVE  findOngoingEvent(n, ongoing[s]) # {}
<1>1. /\ eventWaitWindow \in Nat \ {0} /\ EventsTypeOK /\ starts[s] \in Seq(Nat \ {0})
      /\ ongoing[s] \in Buffers(Nat, eventWaitWindow) /\ RightEvent(1)
  BY DEF EventsAssumption, NumbersInv, EventsTypeOK, EventSources, QueueInv, EventsRight
<1>2. events[1].interval = "END" /\ events[1].source = s /\ events[1].seq = n
  BY DEF EndOf, Event
<1>3. Started(s, n) /\ <<s, n, n>> \notin Measured
  <2>1. events[1].interval = "END" =>
          /\ Started(events[1].source, events[1].seq)
          /\ <<events[1].source, events[1].seq, events[1].seq>> \notin Measured
    BY <1>1, Kinds
  <2> QED
    BY <1>2, <2>1
<1>4. PICK L \in Nat, W \in Nat \ {0} : L = Len(starts[s]) /\ W = eventWaitWindow
  BY <1>1
<1>5. PICK j \in 1 .. L : starts[s][j] = n
  BY <1>3, <1>4 DEF Started
<1>6. PICK k \in Nat : Window(s, k)
  BY DEF NothingLost
<1>7. PICK g : g = getBuffer(ongoing[s], eventWaitWindow)
  OBVIOUS
<1>8. /\ k \in 0 .. L /\ Len(g) = IF k < W THEN k ELSE W
      /\ \A i \in 1 .. L : k < i <=> \E a \in Queued : events[a] = StartOf(s, starts[s][i])
      /\ \A p \in 1 .. Len(g) :
           g[p] = IF <<s, starts[s][k - Len(g) + p], starts[s][k - Len(g) + p]>> \in Measured THEN NoEvent
                  ELSE starts[s][k - Len(g) + p]
  BY <1>4, <1>6, <1>7 DEF Window
<1>9. Findable(s, n, j, 1)
  BY <1>4, <1>5 DEF NothingLost, EndsFind
<1>10. j <= k
  <2>1. ASSUME k < j PROVE FALSE
    <3>1. PICK a \in Queued : events[a] = StartOf(s, n)
      BY <1>5, <1>8, <2>1
    <3>2. events[a].interval = "START" /\ events[a].seq = n
      BY <3>1 DEF StartOf, Event
    <3>3. 1 < a
      BY <1>2, <3>2 DEF Queued
    <3>4. InTurn(1, a)
      BY <3>3 DEF QueueInv, EventsInTurn
    <3> QED
      BY <1>2, <3>2, <3>4 DEF InTurn
  <2> QED
    BY <1>5, <1>8, <2>1
<1>11. ASSUME NEW l \in j + 1 .. k
       PROVE  /\ starts[s][l] \in Nat /\ l < j + W /\ starts[s][l] # n
              /\ starts[s][l] < n => <<s, starts[s][l], starts[s][l]>> \in Measured
  <2>1. PICK m \in Nat : m = starts[s][l]
    BY <1>1, <1>4, <1>8
  <2>2. l \in 1 .. L /\ l \in j + 1 .. Len(starts[s]) /\ ~(k < l)
    BY <1>4, <1>5, <1>8
  <2>3. ~StartAfter(s, m, 1)
    <3>1. ASSUME NEW a \in 1 + 1 .. Len(events), events[a] = StartOf(s, m) PROVE FALSE
      <4>1. a \in Queued
        BY <1>1, <3>1 DEF Queued, EventsTypeOK
      <4> QED
        BY <1>8, <2>1, <2>2, <3>1, <4>1
    <3> QED
      BY <3>1 DEF StartAfter
  <2>4. l < j + W /\ (m < n => Measures(s, m, 1))
    BY <1>4, <1>9, <2>1, <2>2, <2>3 DEF Findable
  <2>5. ~EndBefore(s, m, 1)
    BY DEF EndBefore
  <2>6. m # n
    BY <1>4, <1>5, <2>1, <2>2 DEF NumbersInv, StartsNumbered
  <2> QED
    BY <2>1, <2>4, <2>5, <2>6 DEF Measures
<1>12. k < j + W
  <2>1. CASE k = j
    BY <1>4, <1>5, <2>1
  <2>2. CASE k # j
    <3>1. k \in j + 1 .. k
      BY <1>5, <1>8, <1>10, <2>2
    <3> QED
      BY <1>11, <3>1
  <2> QED
    BY <2>1, <2>2
<1>18. PICK y \in Nat : y = Len(g) /\ y = IF k < W THEN k ELSE W
  BY <1>4, <1>6, <1>8
<1>13. PICK p \in Nat : p = j - (k - y) /\ p \in 1 .. y /\ k - y + p = j
  <2>1. j - (k - y) \in 1 .. y /\ k - y + (j - (k - y)) = j
    BY <1>5, <1>8, <1>10, <1>12, <1>18
  <2> QED
    BY <2>1
<1>14. g[p] = n
  BY <1>3, <1>5, <1>8, <1>13, <1>18
<1>15. ASSUME NEW q \in p + 1 .. Len(g) PROVE g[q] = NoEvent \/ g[q] > n
  <2>0. q \in p + 1 .. y
    BY <1>18
  <2>1. PICK l \in j + 1 .. k : l = k - Len(g) + q
    <3>1. k - y + q \in j + 1 .. k
      BY <1>5, <1>8, <1>13, <1>18, <2>0
    <3> QED
      BY <1>18, <3>1
  <2>2. q \in 1 .. Len(g)
    BY <1>13, <1>18, <2>0
  <2>3. g[q] = NoEvent \/ (g[q] = starts[s][l] /\ <<s, starts[s][l], starts[s][l]>> \notin Measured)
    BY <1>8, <2>1, <2>2
  <2>4. /\ starts[s][l] \in Nat /\ starts[s][l] # n
        /\ starts[s][l] < n => <<s, starts[s][l], starts[s][l]>> \in Measured
    BY <1>11
  <2> QED
    BY <2>3, <2>4
<1>16. n \in Nat
  OBVIOUS
<1>17. \A x \in 1 .. Len(g) : g[x] = n /\ (\A q \in x + 1 .. Len(g) : g[q] = NoEvent \/ g[q] > n) =>
         findOngoingEvent(n, ongoing[s]) # {}
  <2>1. PICK b \in Buffers(Nat, eventWaitWindow) : b = ongoing[s] /\ g = getBuffer(b, eventWaitWindow)
    BY <1>1, <1>7
  <2> QED
    BY <1>16, <2>1, Finds
<1> QED
  BY <1>13, <1>14, <1>15, <1>17, <1>18

\* The window of a source that the event at the head is not about.
LEMMA WindowStays ==
    ASSUME EventsTypeOK, events # <<>>, events' = Tail(events), UNCHANGED starts,
           NEW s \in Emitters, NEW k \in Nat, Window(s, k), ongoing'[s] = ongoing[s],
           \A m : <<s, m, m>> \in Measured' <=> <<s, m, m>> \in Measured,
           \A m : events[1] # StartOf(s, m)
    PROVE  Window(s, k)'
<1>2. ASSUME NEW m
      PROVE  (\E i \in Queued' : events'[i] = StartOf(s, m)) <=> (\E i \in Queued : events[i] = StartOf(s, m))
  BY StaysQueued
<1>3. PICK g : g = getBuffer(ongoing[s], eventWaitWindow)
  OBVIOUS
<1>5. g = getBuffer(ongoing'[s], eventWaitWindow)
  BY <1>3
<1>4. /\ k \in 0 .. Len(starts[s])
      /\ \A j \in 1 .. Len(starts[s]) : k < j <=> \E i \in Queued : events[i] = StartOf(s, starts[s][j])
      /\ Len(g) = IF k < eventWaitWindow THEN k ELSE eventWaitWindow
      /\ \A p \in 1 .. Len(g) :
           g[p] = IF <<s, starts[s][k - Len(g) + p], starts[s][k - Len(g) + p]>> \in Measured THEN NoEvent
                  ELSE starts[s][k - Len(g) + p]
  BY <1>3 DEF Window
<1>6. /\ \A j \in 1 .. Len(starts'[s]) : k < j <=> \E i \in Queued' : events'[i] = StartOf(s, starts'[s][j])
      /\ \A p \in 1 .. Len(g) :
           g[p] = IF <<s, starts'[s][k - Len(g) + p], starts'[s][k - Len(g) + p]>> \in Measured' THEN NoEvent
                  ELSE starts'[s][k - Len(g) + p]
      /\ k \in 0 .. Len(starts'[s])
  BY <1>2, <1>4
<1> QED
  BY <1>4, <1>5, <1>6 DEF Window

\* A START is handled: the window of its source slides.
LEMMA WindowSlides ==
    ASSUME EventsAssumption, NumbersInv, QueueInv, NothingLost, events # <<>>, events' = Tail(events),
           UNCHANGED starts, NEW s \in Emitters, NEW n \in Nat \ {0}, HandlesStart(s, n),
           NEW k \in Nat, Window(s, k)
    PROVE  Window(s, k + 1)'
<1>1. /\ eventWaitWindow \in Nat \ {0} /\ EventsTypeOK /\ starts[s] \in Seq(Nat \ {0}) /\ s \in EventSources
      /\ ongoing[s] \in Buffers(Nat, eventWaitWindow)
      /\ ongoing \in [EventSources -> Buffers(Nat, eventWaitWindow)]
  BY DEF EventsAssumption, NumbersInv, EventsTypeOK, EventSources
<1>2. /\ \A i \in Queued' : i + 1 \in Queued /\ events'[i] = events[i + 1] /\ i + 1 # 1
      /\ \A i \in Queued : i = 1 \/ (i - 1 \in Queued' /\ events'[i - 1] = events[i])
      /\ 1 \in Queued
  <2>1. \A i \in Queued' : i + 1 # 1
    BY DEF Queued
  <2> QED
    BY <1>1, <2>1, HandleTyped
<1>3. events[1] = StartOf(s, n) /\ ongoing'[s] = add(ongoing[s], n, eventWaitWindow) /\ Measured' = Measured
  BY <1>1 DEF HandlesStart, Measured
<1>4. PICK L \in Nat, W \in Nat \ {0} : L = Len(starts[s]) /\ W = eventWaitWindow
  BY <1>1
<1>5. PICK g, b : g = getBuffer(ongoing[s], eventWaitWindow) /\ b = ongoing[s]
  OBVIOUS
<1>6. PICK h : h = getBuffer(ongoing'[s], eventWaitWindow)
  OBVIOUS
<1>7. /\ k \in 0 .. L /\ Len(g) = IF k < W THEN k ELSE W
      /\ \A i \in 1 .. L : k < i <=> \E a \in Queued : events[a] = StartOf(s, starts[s][i])
      /\ \A p \in 1 .. Len(g) :
           g[p] = IF <<s, starts[s][k - Len(g) + p], starts[s][k - Len(g) + p]>> \in Measured THEN NoEvent
                  ELSE starts[s][k - Len(g) + p]
  BY <1>4, <1>5 DEF Window
<1>8. PICK j \in 1 .. L : starts[s][j] = n
  BY <1>4 DEF HandlesStart, Started
<1>9. j = k + 1
  <2>1. k < j
    BY <1>2, <1>3, <1>7, <1>8
  <2>2. ASSUME k + 1 < j PROVE FALSE
    <3>1. k + 1 \in 1 .. L /\ k < k + 1
      BY <1>7, <1>8, <2>2
    <3>2. PICK a \in Queued : events[a] = StartOf(s, starts[s][k + 1])
      BY <1>7, <3>1
    <3>3. a < 1
      BY <1>2, <1>3, <1>4, <1>8, <2>2, <3>1, <3>2 DEF NothingLost, StartsInOrder
    <3> QED
      BY <3>3 DEF Queued
  <2> QED
    BY <1>7, <1>8, <2>1, <2>2
<1>10. ASSUME NEW i \in 1 .. L
       PROVE  k + 1 < i <=> \E a \in Queued' : events'[a] = StartOf(s, starts[s][i])
  <2>1. ASSUME k + 1 < i PROVE \E a \in Queued' : events'[a] = StartOf(s, starts[s][i])
    <3>1. PICK a \in Queued : events[a] = StartOf(s, starts[s][i])
      BY <1>7, <2>1
    <3>2. starts[s][i] # starts[s][j]
      BY <1>4, <1>8, <1>9, <2>1 DEF NumbersInv, StartsNumbered
    <3>3. a # 1
      BY <1>3, <1>8, <3>1, <3>2 DEF StartOf, Event
    <3>4. a - 1 \in Queued' /\ events'[a - 1] = StartOf(s, starts[s][i])
      BY <1>2, <3>1, <3>3
    <3> QED
      BY <3>4
  <2>2. ASSUME NEW a \in Queued', events'[a] = StartOf(s, starts[s][i]) PROVE k + 1 < i
    <3>0. a + 1 \in Queued /\ a + 1 # 1 /\ events[a + 1] = StartOf(s, starts[s][i])
      BY <1>2, <2>2
    <3>1. PICK c \in Queued : c = a + 1 /\ c # 1 /\ events[c] = StartOf(s, starts[s][i])
      BY <3>0
    <3>2. k < i
      BY <1>7, <3>1
    <3>3. 1 < c
      BY <3>1 DEF Queued
    <3>4. InTurn(1, c)
      BY <1>2, <3>3 DEF QueueInv, EventsInTurn
    <3>5. starts[s][i] # n
      BY <1>3, <3>1, <3>4 DEF InTurn, StartOf, Event
    <3>6. i # k + 1
      BY <1>8, <1>9, <3>5
    <3> QED
      BY <1>7, <3>2, <3>6
  <2> QED
    BY <2>1, <2>2
<1>11. /\ Len(h) = IF Len(b.buffer) = W THEN W ELSE Len(g) + 1
       /\ h[Len(h)] = n
       /\ \A i \in 1 .. Len(h) - 1 : h[i] = g[IF Len(b.buffer) = W THEN i + 1 ELSE i]
  <2>1. n \in Nat /\ b \in Buffers(Nat, W) /\ h = getBuffer(add(b, n, W), W) /\ g = getBuffer(b, W)
    BY <1>1, <1>3, <1>4, <1>5, <1>6
  <2> QED
    BY <2>1, AddSlides
<1>12. Len(g) = Len(b.buffer)
  <2>1. 0 \in Nat
    OBVIOUS
  <2> QED
    BY <1>1, <1>5, <2>1, Finds
<1>13. <<s, n, n>> \notin Measured
  <2>1. RightEvent(1) /\ events[1].interval = "START" /\ events[1].source = s /\ events[1].seq = n
    BY <1>2, <1>3 DEF QueueInv, EventsRight, StartOf, Event
  <2>2. events[1].interval = "START" => <<events[1].source, events[1].seq, events[1].seq>> \notin Measured
    BY <1>1, <1>2, <2>1, Kinds
  <2> QED
    BY <2>1, <2>2
<1>14. Len(h) = IF k + 1 < W THEN k + 1 ELSE W
  BY <1>7, <1>11, <1>12
<1>15. ASSUME NEW p \in 1 .. Len(h)
       PROVE  h[p] = IF <<s, starts[s][k + 1 - Len(h) + p], starts[s][k + 1 - Len(h) + p]>> \in Measured THEN NoEvent
                     ELSE starts[s][k + 1 - Len(h) + p]
  <2>1. CASE p = Len(h)
    <3>1. k + 1 - Len(h) + p = j
      BY <1>7, <1>9, <1>14, <2>1
    <3> QED
      BY <1>8, <1>11, <1>13, <2>1, <3>1
  <2>2. CASE p # Len(h)
    <3>1. PICK q \in 1 .. Len(g) : q = (IF Len(b.buffer) = W THEN p + 1 ELSE p) /\ p \in 1 .. Len(h) - 1
      BY <1>7, <1>11, <1>12, <1>14, <2>2
    <3>2. k + 1 - Len(h) + p = k - Len(g) + q
      BY <1>7, <1>11, <1>12, <1>14, <3>1
    <3>3. h[p] = g[q]
      BY <1>11, <3>1
    <3> QED
      BY <1>7, <3>2, <3>3
  <2> QED
    BY <2>1, <2>2
<1>16. k + 1 \in 0 .. L
  BY <1>7, <1>8, <1>9
<1>17. PICK x \in Nat : x = k + 1
  OBVIOUS
<1>18. starts' = starts /\ Measured' = Measured
  BY <1>3
<1>19. x \in 0 .. Len(starts'[s])
  BY <1>4, <1>16, <1>17, <1>18
<1>20. \A l \in 1 .. Len(starts'[s]) :
            x < l <=> \E i \in Queued' : events'[i] = StartOf(s, starts'[s][l])
  BY <1>4, <1>10, <1>17, <1>18
<1>21. Len(h) = IF x < eventWaitWindow THEN x ELSE eventWaitWindow
  BY <1>4, <1>14, <1>17
<1>22. \A p \in 1 .. Len(h) :
            h[p] = IF <<s, starts'[s][x - Len(h) + p], starts'[s][x - Len(h) + p]>> \in Measured'
                   THEN NoEvent ELSE starts'[s][x - Len(h) + p]
  BY <1>15, <1>17, <1>18
<1>23. Window(s, x)'
  BY <1>6, <1>19, <1>20, <1>21, <1>22 DEF Window
<1> QED
  BY <1>17, <1>23

\* An END is handled: its START is measured, and its place is empty.
LEMMA WindowErases ==
    ASSUME EventsAssumption, NumbersInv, QueueInv, events # <<>>, events' = Tail(events),
           UNCHANGED starts, NEW s \in Emitters, NEW n \in Nat \ {0}, HandlesEnd(s, n),
           Measured' = Measured \cup {<<s, n, n>>}, NEW k \in Nat, Window(s, k)
    PROVE  Window(s, k)'
<1>1. /\ eventWaitWindow \in Nat \ {0} /\ EventsTypeOK /\ starts[s] \in Seq(Nat \ {0}) /\ s \in EventSources
      /\ ongoing[s] \in Buffers(Nat, eventWaitWindow)
      /\ ongoing \in [EventSources -> Buffers(Nat, eventWaitWindow)]
  BY DEF EventsAssumption, NumbersInv, EventsTypeOK, EventSources
<1>3. \A m : events[1] # StartOf(s, m)
  BY DEF HandlesEnd, EndOf, StartOf, Event
<1>4. ASSUME NEW m
      PROVE  (\E i \in Queued' : events'[i] = StartOf(s, m)) <=> (\E i \in Queued : events[i] = StartOf(s, m))
  BY <1>1, <1>3, StaysQueued
<1>5. PICK L \in Nat, W \in Nat \ {0} : L = Len(starts[s]) /\ W = eventWaitWindow
  BY <1>1
<1>6. PICK b \in Buffers(Nat, eventWaitWindow) : b = ongoing[s]
  BY <1>1
<1>7. PICK g : g = getBuffer(b, eventWaitWindow)
  OBVIOUS
<1>8. PICK c \in findOngoingEvent(n, b) : ongoing'[s] = Erased(b, c)
  <2>1. PICK c \in findOngoingEvent(n, ongoing[s]) :
          ongoing' = [ongoing EXCEPT ![s] = Erased(ongoing[s], c)]
    BY DEF HandlesEnd
  <2> QED
    BY <1>1, <1>6, <2>1
<1>9. PICK h : h = getBuffer(Erased(b, c), eventWaitWindow)
  OBVIOUS
<1>11. /\ Len(h) = Len(g)
       /\ \E p \in 1 .. Len(g) : /\ g[p] = n /\ h[p] = NoEvent
                                 /\ \A q \in 1 .. Len(g) : q # p => h[q] = g[q]
  <2>1. n \in Nat
    OBVIOUS
  <2> QED
    BY <1>7, <1>9, <2>1, FoundIsErased
<1>12. PICK p \in 1 .. Len(g) : /\ Len(h) = Len(g) /\ g[p] = n /\ h[p] = NoEvent
                                /\ \A q \in 1 .. Len(g) : q # p => h[q] = g[q]
  BY <1>11
<1>13. /\ k \in 0 .. L /\ Len(g) = IF k < W THEN k ELSE W
       /\ \A i \in 1 .. L : k < i <=> \E a \in Queued : events[a] = StartOf(s, starts[s][i])
       /\ \A q \in 1 .. Len(g) :
            g[q] = IF <<s, starts[s][k - Len(g) + q], starts[s][k - Len(g) + q]>> \in Measured THEN NoEvent
                   ELSE starts[s][k - Len(g) + q]
  BY <1>5, <1>6, <1>7 DEF Window
<1>14. starts[s][k - Len(g) + p] = n
  BY <1>12, <1>13 DEF NoEvent
<1>15. ASSUME NEW q \in 1 .. Len(g)
       PROVE  h[q] = IF <<s, starts[s][k - Len(g) + q], starts[s][k - Len(g) + q]>> \in Measured' THEN NoEvent
                     ELSE starts[s][k - Len(g) + q]
  <2>1. CASE q = p
    BY <1>12, <1>14, <2>1
  <2>2. CASE q # p
    <3>1. PICK y \in Nat : y = Len(g) /\ y <= k
      BY <1>13
    <3>2. k - y + q \in 1 .. L /\ k - y + p \in 1 .. L /\ k - y + q # k - y + p
      BY <1>12, <1>13, <2>2, <3>1
    <3>3. starts[s][k - y + q] # n
      <4>1. PICK i \in 1 .. Len(starts[s]), j \in 1 .. Len(starts[s]) : i = k - y + q /\ j = k - y + p /\ i # j
        BY <1>5, <3>2
      <4>2. \A x, z \in 1 .. Len(starts[s]) : starts[s][x] = starts[s][z] => x = z
        BY DEF NumbersInv, StartsNumbered
      <4>3. starts[s][i] # starts[s][j]
        BY <4>1, <4>2
      <4> QED
        BY <1>14, <3>1, <4>1, <4>3
    <3>4. <<s, starts[s][k - Len(g) + q], starts[s][k - Len(g) + q]>> \in Measured'
            <=> <<s, starts[s][k - Len(g) + q], starts[s][k - Len(g) + q]>> \in Measured
      BY <3>1, <3>3
    <3> QED
      BY <1>12, <1>13, <2>2, <3>4
  <2> QED
    BY <2>1, <2>2
<1>16. starts' = starts
  OBVIOUS
<1>17. k \in 0 .. Len(starts'[s]) /\ Len(h) = IF k < eventWaitWindow THEN k ELSE eventWaitWindow
  BY <1>5, <1>12, <1>13, <1>16
<1>18. \A l \in 1 .. Len(starts'[s]) :
         k < l <=> \E i \in Queued' : events'[i] = StartOf(s, starts'[s][l])
  BY <1>4, <1>5, <1>13, <1>16
<1>19. \A q \in 1 .. Len(h) :
         h[q] = IF <<s, starts'[s][k - Len(h) + q], starts'[s][k - Len(h) + q]>> \in Measured'
                THEN NoEvent ELSE starts'[s][k - Len(h) + q]
  BY <1>12, <1>15, <1>16
<1>20. h = getBuffer(ongoing'[s], eventWaitWindow)
  BY <1>8, <1>9
<1> QED
  BY <1>17, <1>18, <1>19, <1>20 DEF Window

\* A ping is handled: it is the next, and finds the one before it.
LEMMA PingSlides ==
    ASSUME EventsAssumption, NumbersInv, QueueInv, events # <<>>, events' = Tail(events),
           UNCHANGED loops, NEW n \in Nat \ {0}, HandlesPing(n), NEW h \in Nat, PingWindow(h)
    PROVE  PingWindow(n)'
<1>1. /\ eventWaitWindow \in Nat \ {0} /\ EventsTypeOK /\ loops \in Nat /\ LOOP \in EventSources
      /\ ongoing[LOOP] \in Buffers(Nat, eventWaitWindow)
      /\ ongoing \in [EventSources -> Buffers(Nat, eventWaitWindow)]
  BY DEF EventsAssumption, NumbersInv, EventsTypeOK, EventSources
<1>2. /\ \A i \in Queued' : i + 1 \in Queued /\ events'[i] = events[i + 1] /\ 1 < i + 1
      /\ \A i \in Queued : i = 1 \/ (i - 1 \in Queued' /\ events'[i - 1] = events[i])
      /\ 1 \in Queued
  <2>1. \A i \in Queued' : 1 < i + 1
    BY DEF Queued
  <2> QED
    BY <1>1, <2>1, HandleTyped
<1>3. /\ events[1] = Ping(n) /\ n \in 1 .. loops
      /\ ongoing'[LOOP] = add(ongoing[LOOP], n, eventWaitWindow)
      /\ durations' = IF n > 1 /\ findOngoingEvent(n - 1, ongoing[LOOP]) # {}
                      THEN Append(durations, <<LOOP, n - 1, n>>) ELSE durations
  BY <1>1 DEF HandlesPing
<1>4. PICK b \in Buffers(Nat, eventWaitWindow) : b = ongoing[LOOP]
  BY <1>1
<1>5. PICK g : g = getBuffer(b, eventWaitWindow)
  OBVIOUS
<1>6. /\ h \in 0 .. loops /\ (h > 0 => Len(g) > 0 /\ g[Len(g)] = h)
      /\ \A m \in 1 .. loops : h < m <=> \E i \in Queued : events[i] = Ping(m)
      /\ \A m \in 2 .. h : <<LOOP, m - 1, m>> \in Measured
  BY <1>4, <1>5 DEF PingWindow
<1>7. ASSUME NEW a \in Queued, NEW m \in Nat, events[a] = Ping(m), a # 1 PROVE n < m
  <2>1. 1 < a
    BY <1>7 DEF Queued
  <2>2. InTurn(1, a)
    BY <1>2, <2>1 DEF QueueInv, EventsInTurn
  <2> QED
    BY <1>3, <1>7, <2>2 DEF InTurn, Ping, Event
<1>8. n = h + 1
  <2>1. h < n
    BY <1>2, <1>3, <1>6
  <2>2. ASSUME h + 1 < n PROVE FALSE
    <3>1. PICK m \in Nat : m = h + 1 /\ m \in 1 .. loops /\ h < m /\ m < n
      BY <1>1, <1>3, <1>6, <2>2
    <3>2. PICK a \in Queued : events[a] = Ping(m)
      BY <1>6, <3>1
    <3>3. a # 1
      BY <1>3, <3>1, <3>2 DEF Ping, Event
    <3>4. n < m
      BY <1>7, <3>2, <3>3
    <3> QED
      BY <3>1, <3>4
  <2> QED
    BY <2>1, <2>2
<1>9. PICK f : f = getBuffer(ongoing'[LOOP], eventWaitWindow)
  OBVIOUS
<1>10. Len(f) > 0 /\ f[Len(f)] = n
  <2>1. n \in Nat /\ f = getBuffer(add(b, n, eventWaitWindow), eventWaitWindow)
    BY <1>3, <1>4, <1>9
  <2>2. /\ Len(f) = IF Len(b.buffer) = eventWaitWindow THEN eventWaitWindow ELSE Len(g) + 1
        /\ f[Len(f)] = n
    BY <1>1, <1>5, <2>1, AddSlides
  <2>3. Len(g) \in Nat
    BY <1>5, <2>1, Finds
  <2> QED
    BY <1>1, <2>2, <2>3
<1>11. ASSUME NEW m \in 1 .. loops PROVE n < m <=> \E i \in Queued' : events'[i] = Ping(m)
  <2>1. ASSUME n < m PROVE \E i \in Queued' : events'[i] = Ping(m)
    <3>1. PICK a \in Queued : events[a] = Ping(m)
      BY <1>6, <1>8, <2>1
    <3>2. a # 1
      BY <1>3, <2>1, <3>1 DEF Ping, Event
    <3>3. a - 1 \in Queued' /\ events'[a - 1] = Ping(m)
      BY <1>2, <3>1, <3>2
    <3> QED
      BY <3>3
  <2>2. ASSUME NEW i \in Queued', events'[i] = Ping(m) PROVE n < m
    <3>1. PICK a \in Queued : a = i + 1 /\ 1 < a /\ events[a] = Ping(m)
      BY <1>2, <2>2
    <3> QED
      BY <1>7, <3>1
  <2> QED
    BY <2>1, <2>2
<1>12. ASSUME NEW m \in 2 .. n PROVE <<LOOP, m - 1, m>> \in Measured'
  <2>1. Measured \subseteq Measured' /\ (durations' # durations => <<LOOP, n - 1, n>> \in Measured')
    <3>1. CASE durations' = durations
      BY <3>1 DEF Measured
    <3>2. CASE durations' # durations
      <4>0. n - 1 \in Nat /\ n \in Nat
        OBVIOUS
      <4>1. PICK d \in EventSources \X Nat \X Nat : d = <<LOOP, n - 1, n>>
        BY <1>1, <4>0
      <4>2. durations' = Append(durations, d)
        BY <1>3, <3>2, <4>1
      <4>3. Measured' = Measured \cup {d}
        BY <1>1, <4>2, DurationsGrow
      <4> QED
        BY <4>1, <4>3
    <3> QED
      BY <3>1, <3>2
  <2>2. CASE m <= h
    BY <1>6, <2>1, <2>2
  <2>3. CASE m = n
    <3>1. h \in Nat /\ n - 1 = h /\ h > 0 /\ n > 1
      BY <1>8, <2>3
    <3>2. Len(g) > 0 /\ g[Len(g)] = h /\ Len(g) \in Nat
      BY <1>5, <1>6, <3>1, Finds
    <3>3. PICK p \in 1 .. Len(g) : p = Len(g)
      BY <3>2
    <3>4. g[p] = h /\ \A q \in p + 1 .. Len(g) : g[q] = NoEvent \/ g[q] > h
      BY <3>2, <3>3
    <3>5. findOngoingEvent(h, b) # {}
      BY <1>5, <3>1, <3>4, Finds
    <3>6. durations' = Append(durations, <<LOOP, n - 1, n>>)
      BY <1>3, <1>4, <3>1, <3>5
    <3>7. durations \in Seq(EventSources \X Nat \X Nat)
      BY <1>1 DEF EventsTypeOK
    <3>8. durations' # durations
      BY <3>6, <3>7
    <3> QED
      BY <2>1, <2>3, <3>8
  <2> QED
    BY <1>8, <2>2, <2>3
<1>13. n \in 0 .. loops' /\ loops' = loops
  BY <1>3
<1> QED
  BY <1>9, <1>10, <1>11, <1>12, <1>13 DEF PingWindow

\* What is no ping leaves the pings as they are.
LEMMA PingsStay ==
    ASSUME EventsTypeOK, events # <<>>, events' = Tail(events), UNCHANGED loops,
           ongoing'[LOOP] = ongoing[LOOP], Measured \subseteq Measured',
           \A m : events[1] # Ping(m), NEW h \in Nat, PingWindow(h)
    PROVE  PingWindow(h)'
<1>2. ASSUME NEW m
      PROVE  (\E i \in Queued' : events'[i] = Ping(m)) <=> (\E i \in Queued : events[i] = Ping(m))
  BY StaysQueued
<1>3. PICK g : g = getBuffer(ongoing[LOOP], eventWaitWindow)
  OBVIOUS
<1>4. /\ h \in 0 .. loops /\ (h > 0 => Len(g) > 0 /\ g[Len(g)] = h)
      /\ \A m \in 1 .. loops : h < m <=> \E i \in Queued : events[i] = Ping(m)
      /\ \A m \in 2 .. h : <<LOOP, m - 1, m>> \in Measured
  BY <1>3 DEF PingWindow
<1>5. g = getBuffer(ongoing'[LOOP], eventWaitWindow) /\ loops' = loops
  BY <1>3
<1> QED
  BY <1>2, <1>4, <1>5 DEF PingWindow

\* What handling the head adds to what is measured of the emitters.
LEMMA HeadChanges ==
    ASSUME EventsAssumption, NumbersInv, QueueInv, addEvent,
           NEW s \in EventSources, NEW n \in Nat \ {0}, s = events[1].source
    PROVE  /\ HandlesStart(s, n) => Measured' = Measured
           /\ HandlesNothing(s, n) => Measured' = Measured
           /\ HandlesEnd(s, n) => Measured' = Measured \cup {<<s, n, n>>}
           /\ HandlesPing(n) => /\ Measured \subseteq Measured'
                                /\ \A r \in Emitters : \A m : <<r, m, m>> \in Measured' <=> <<r, m, m>> \in Measured
<1>1. EventsTypeOK
  BY DEF NumbersInv
<1>2. durations' = durations => Measured' = Measured
  BY DEF Measured
<1>3. HandlesEnd(s, n) => Measured' = Measured \cup {<<s, n, n>>}
  <2>1. n \in Nat
    OBVIOUS
  <2>2. PICK d \in EventSources \X Nat \X Nat : d = <<s, n, n>>
    BY <2>1
  <2>3. HandlesEnd(s, n) => durations' = Append(durations, d)
    BY <2>2 DEF HandlesEnd
  <2>4. durations' = Append(durations, d) => Measured' = Measured \cup {d}
    BY <1>1, DurationsGrow
  <2> QED
    BY <2>2, <2>3, <2>4
<1>4. ASSUME HandlesPing(n)
      PROVE  /\ Measured \subseteq Measured'
             /\ \A r \in Emitters : \A m : <<r, m, m>> \in Measured' <=> <<r, m, m>> \in Measured
  <2>1. PICK D : Measured' = Measured \cup D /\ HeadMeasures(s, n, D)
    BY <1>4, AddEventMeasures
  <2>2. events[1] # EndOf(s, n)
    BY <1>4 DEF HandlesPing, Ping, EndOf, Event
  <2>3. \A r \in Emitters : \A m : <<r, m, m>> \notin D
    BY <2>1, <2>2 DEF HeadMeasures, EventsAssumption
  <2> QED
    BY <2>1, <2>3
<1> QED
  BY <1>2, <1>3, <1>4 DEF HandlesStart, HandlesNothing

\* The windows, the ENDs behind the head and what is shown, when it is handled.
LEMMA AddEventLosesNothing ==
    ASSUME EventsAssumption, NumbersInv, QueueInv, NothingLost, addEvent
    PROVE  NothingLost'
<1>1. /\ events # <<>> /\ events' = Tail(events) /\ 1 \in Queued /\ EventsTypeOK /\ RightEvent(1)
      /\ UNCHANGED <<sequence, block, loops, starts, succeeded, excused, lost>>
      /\ shown' = IF events[1].interval = "NONE" THEN shown
                  ELSE [shown EXCEPT ![events[1].source] = (events[1].interval = "START")]
  BY Handles DEF NumbersInv, QueueInv, EventsRight
<1>2. PICK s \in EventSources, n \in Nat \ {0} :
        /\ HandlesStart(s, n) \/ HandlesPing(n) \/ HandlesEnd(s, n) \/ HandlesNothing(s, n)
        /\ n = events[1].seq /\ s = events[1].source
  BY Handles
<1>3. /\ HandlesStart(s, n) => Measured' = Measured
      /\ HandlesNothing(s, n) => Measured' = Measured
      /\ HandlesEnd(s, n) => Measured' = Measured \cup {<<s, n, n>>}
      /\ HandlesPing(n) => /\ Measured \subseteq Measured'
                           /\ \A r \in Emitters : \A m : <<r, m, m>> \in Measured' <=> <<r, m, m>> \in Measured
  BY <1>2, HeadChanges
<1>4. /\ \A i \in Queued' : i + 1 \in Queued /\ events'[i] = events[i + 1] /\ i \in Nat /\ i >= 1
      /\ \A i \in Queued : i \in Nat /\ i >= 1 /\ (i = 1 \/ (i - 1 \in Queued' /\ events'[i - 1] = events[i]))
      /\ Len(events) \in Nat \ {0} /\ Len(events') = Len(events) - 1
  <2>1. \A i \in Queued' : i \in Nat /\ i >= 1
    BY DEF Queued
  <2>2. \A i \in Queued : i \in Nat /\ i >= 1
    BY DEF Queued
  <2> QED
    BY <1>1, <2>1, <2>2, HandleTyped
<1>5. /\ ongoing \in [EventSources -> Buffers(Nat, eventWaitWindow)] /\ LOOP \notin Emitters
      /\ LOOP \in EventSources /\ Emitters \subseteq EventSources
  BY <1>1 DEF EventsTypeOK, EventsAssumption, EventSources
<1>6. Measured \subseteq Measured'
  BY <1>2, <1>3
<1>7. ASSUME NEW r \in Emitters PROVE \E k \in Nat : Window(r, k)'
  <2>1. PICK k \in Nat : Window(r, k)
    BY DEF NothingLost
  <2>2. CASE r = s /\ HandlesStart(s, n)
    <3>1. k + 1 \in Nat /\ Window(s, k + 1)'
      BY <1>1, <2>1, <2>2, WindowSlides
    <3> QED
      BY <2>2, <3>1
  <2>3. CASE r = s /\ HandlesEnd(s, n)
    <3>1. Window(s, k)'
      BY <1>1, <1>3, <2>1, <2>3, WindowErases
    <3> QED
      BY <2>3, <3>1
  <2>4. CASE ~(r = s /\ HandlesStart(s, n)) /\ ~(r = s /\ HandlesEnd(s, n))
    <3>1. ongoing'[r] = ongoing[r]
      BY <1>2, <1>5, <2>4 DEF HandlesStart, HandlesPing, HandlesEnd, HandlesNothing
    <3>2. \A m : <<r, m, m>> \in Measured' <=> <<r, m, m>> \in Measured
      BY <1>2, <1>3, <2>4
    <3>3. \A m : events[1] # StartOf(r, m)
      BY <1>2, <1>5, <2>4 DEF HandlesStart, HandlesPing, HandlesEnd, HandlesNothing, StartOf, EndOf, Ping, Event
    <3>4. Window(r, k)'
      BY <1>1, <2>1, <3>1, <3>2, <3>3, WindowStays
    <3> QED
      BY <3>4
  <2> QED
    BY <2>2, <2>3, <2>4
<1>8. \E h \in Nat : PingWindow(h)'
  <2>1. PICK h \in Nat : PingWindow(h)
    BY DEF NothingLost
  <2>2. CASE HandlesPing(n)
    <3>1. PingWindow(n)' /\ n \in Nat
      BY <1>1, <2>1, <2>2, PingSlides
    <3> QED
      BY <3>1
  <2>3. CASE ~HandlesPing(n)
    <3>1. ongoing'[LOOP] = ongoing[LOOP]
      BY <1>2, <1>5, <2>3 DEF HandlesStart, HandlesEnd, HandlesNothing
    <3>2. \A m : events[1] # Ping(m)
      BY <1>2, <2>3 DEF HandlesStart, HandlesEnd, HandlesNothing, StartOf, EndOf, Ping, Event
    <3>3. PingWindow(h)'
      BY <1>1, <1>6, <2>1, <3>1, <3>2, PingsStay
    <3> QED
      BY <3>3
  <2> QED
    BY <2>2, <2>3
<1>9. StartsInOrder'
  <2>1. SUFFICES ASSUME NEW r \in Emitters, NEW i \in 1 .. Len(starts[r]), NEW j \in 1 .. Len(starts[r]),
                        NEW a \in Queued', NEW b \in Queued',
                        events'[a] = StartOf(r, starts[r][i]), events'[b] = StartOf(r, starts[r][j]), i < j
                 PROVE  a < b
    <3>1. starts' = starts
      BY <1>1
    <3> QED
      BY <3>1 DEF StartsInOrder
  <2>2. PICK x \in Queued, y \in Queued : x = a + 1 /\ y = b + 1 /\ events[x] = events'[a] /\ events[y] = events'[b]
    BY <1>4
  <2>3. x < y
    BY <2>1, <2>2 DEF NothingLost, StartsInOrder
  <2> QED
    BY <1>4, <2>2, <2>3
<1>10. ASSUME NEW r \in Emitters, NEW m \in Nat, events[1] = EndOf(r, m), <<r, m>> \notin excused
       PROVE  <<r, m, m>> \in Measured'
  <2>1. r = s /\ m = n
    BY <1>2, <1>10 DEF EndOf, Event
  <2>2. findOngoingEvent(n, ongoing[s]) # {}
    BY <1>1, <1>10, <2>1, HeadEndFinds
  <2>3. ~HandlesNothing(s, n)
    BY <1>10, <2>1, <2>2 DEF HandlesNothing
  <2>4. ~HandlesStart(s, n) /\ ~HandlesPing(n)
    BY <1>10 DEF HandlesStart, HandlesPing, StartOf, EndOf, Ping, Event
  <2> QED
    BY <1>2, <1>3, <2>1, <2>3, <2>4
<1>11. ASSUME NEW r \in Emitters, NEW m \in Nat, NEW i \in Queued', NEW x \in Queued, x = i + 1, Measures(r, m, x)
       PROVE  Measures(r, m, i)'
  <2>1. CASE <<r, m, m>> \in Measured
    BY <1>6, <2>1 DEF Measures
  <2>2. CASE EndBefore(r, m, x)
    <3>1. PICK a \in 1 .. x - 1 : events[a] = EndOf(r, m) /\ <<r, m>> \notin excused
      BY <2>2 DEF EndBefore
    <3>2. a \in Queued /\ a <= i
      BY <1>4, <1>11, <3>1 DEF Queued
    <3>3. CASE a = 1
      BY <1>10, <3>1, <3>3 DEF Measures
    <3>4. CASE a # 1
      <4>0. a - 1 \in 1 .. i - 1
        BY <1>4, <3>1, <3>2, <3>4
      <4>1. PICK y \in 1 .. i - 1 : y = a - 1 /\ events'[y] = EndOf(r, m)
        BY <1>4, <3>1, <3>2, <3>4, <4>0
      <4>2. <<r, m>> \notin excused'
        BY <1>1, <3>1
      <4>3. EndBefore(r, m, i)'
        BY <4>1, <4>2 DEF EndBefore
      <4> QED
        BY <4>3 DEF Measures
    <3> QED
      BY <3>3, <3>4
  <2> QED
    BY <1>11, <2>1, <2>2 DEF Measures
<1>12. Covered'
  <2>1. SUFFICES ASSUME NEW r \in Emitters, NEW m \in Nat, <<r, m>> \in succeeded \ excused
                 PROVE  <<r, m, m>> \in Measured' \/ \E i \in Queued' : events'[i] = EndOf(r, m)
    BY <1>1 DEF Covered
  <2>2. CASE <<r, m, m>> \in Measured
    BY <1>6, <2>2
  <2>3. CASE \E i \in Queued : events[i] = EndOf(r, m)
    <3>1. PICK i \in Queued : events[i] = EndOf(r, m)
      BY <2>3
    <3>2. CASE i = 1
      BY <1>10, <2>1, <3>1, <3>2
    <3>3. CASE i # 1
      BY <1>4, <3>1, <3>3
    <3> QED
      BY <3>2, <3>3
  <2> QED
    BY <2>1, <2>2, <2>3 DEF NothingLost, Covered
<1>13. EndsFind'
  <2>1. SUFFICES ASSUME NEW r \in Emitters, NEW m \in Nat, NEW i \in Queued', events'[i] = EndOf(r, m),
                        <<r, m>> \notin excused, NEW j \in 1 .. Len(starts[r]), starts[r][j] = m
                 PROVE  Findable(r, m, j, i)'
    BY <1>1 DEF EndsFind
  <2>2. PICK x \in Queued : x = i + 1 /\ events[x] = EndOf(r, m)
    BY <1>4, <2>1
  <2>3. Findable(r, m, j, x)
    BY <2>1, <2>2 DEF NothingLost, EndsFind
  <2>4. SUFFICES ASSUME NEW l \in j + 1 .. Len(starts[r]), NEW q \in Nat, starts[r][l] = q, ~StartAfter(r, q, i)'
                 PROVE  l < j + eventWaitWindow /\ (q < m => Measures(r, q, i)')
    BY <1>1 DEF Findable
  <2>5. ~StartAfter(r, q, x)
    <3>1. ASSUME NEW a \in x + 1 .. Len(events), events[a] = StartOf(r, q) PROVE FALSE
      <4>1. a \in Queued /\ a # 1 /\ a - 1 \in i + 1 .. Len(events')
        BY <1>4, <2>2 DEF Queued
      <4>2. PICK y \in i + 1 .. Len(events') : events'[y] = StartOf(r, q)
        BY <1>4, <3>1, <4>1
      <4> QED
        BY <2>4, <4>2 DEF StartAfter
    <3> QED
      BY <3>1 DEF StartAfter
  <2>6. l < j + eventWaitWindow /\ (q < m => Measures(r, q, x))
    BY <2>3, <2>4, <2>5 DEF Findable
  <2> QED
    BY <1>11, <2>2, <2>6
<1>14. ShownInside'
  <2>1. \A r : Inside(r)' <=> Inside(r)
    BY <1>1 DEF Inside
  <2>2. SUFFICES ASSUME NEW r \in Emitters, shown'[r], \A i \in Queued' : events'[i].source # r
                 PROVE  Inside(r)
    BY <2>1 DEF ShownInside
  <2>3. \A i \in Queued : i # 1 => events[i].source # r
    BY <1>4, <2>2
  <2>4. CASE s # r
    <3>1. shown'[r] = shown[r]
      BY <1>1, <1>2, <2>4 DEF EventsTypeOK
    <3> QED
      BY <1>2, <2>2, <2>3, <2>4, <3>1 DEF NothingLost, ShownInside
  <2>5. CASE s = r
    <3>1. events[1].interval = "NONE" => events[1].source = LOOP
      BY <1>1, Kinds
    <3>2. shown'[r] = (events[1].interval = "START")
      BY <1>1, <1>2, <1>5, <2>5, <3>1 DEF EventsTypeOK
    <3>3. Latest(r, 1)
      BY <1>2, <2>3, <2>5 DEF Latest
    <3> QED
      BY <1>1, <2>2, <3>2, <3>3 DEF QueueInv, LatestStartIsInside
  <2> QED
    BY <2>4, <2>5
<1> QED
  BY <1>7, <1>8, <1>9, <1>12, <1>13, <1>14 DEF NothingLost

----------------------------------------------------------------------------
(* The invariant.                                                          *)

EventsIInv == NumbersInv /\ QueueInv /\ (~lost => NothingLost)

LEMMA InitEvents == ASSUME EventsAssumption, EventsInit PROVE EventsIInv
<1>1. NumbersInv
  BY InitEventsTyped, InitEventsNumbered DEF NumbersInv
<1> QED
  BY <1>1, InitQueueInv, InitNothingLost DEF EventsIInv

LEMMA BlockKeepsEvents ==
    ASSUME EventsAssumption, EventsIInv, NEW t \in Threads, NEW s \in Emitters, BlockPipelineEvent(t, s)
    PROVE  EventsIInv'
<1>1. NumbersInv /\ QueueInv /\ (~lost => NothingLost)
  BY DEF EventsIInv
<1>2. /\ block \in [Threads -> Blocks] /\ block[t].at = "none"
      /\ block' = [block EXCEPT ![t] = [source |-> s, seq |-> sequence, at |-> "constructed"]]
      /\ UNCHANGED <<loops, events, ongoing, shown, durations, starts, succeeded, excused, lost>>
  BY <1>1 DEF BlockPipelineEvent, Idle, NumbersInv, EventsTypeOK
<1>3. ASSUME NEW r, Inside(r) PROVE Inside(r)'
  <2>1. PICK u \in Threads : block[u].source = r /\ block[u].at \in {"started", "thrown"}
    BY <1>3 DEF Inside
  <2>2. u # t
    BY <1>2, <2>1
  <2>3. block'[u] = block[u]
    BY <1>2, <2>2
  <2> QED
    BY <2>1, <2>3 DEF Inside
<1>4. ~lost' => NothingLost'
  BY <1>1, <1>2, <1>3, QuietLosesNothing
<1>5. NumbersInv'
  BY <1>1, BlockKeepsNumbers
<1>6. QueueInv'
  BY <1>1, BlockKeepsQueue
<1> QED
  BY <1>4, <1>5, <1>6 DEF EventsIInv

LEMMA ThrowKeepsEvents ==
    ASSUME EventsAssumption, EventsIInv, NEW t \in Threads, uncaughtException(t)
    PROVE  EventsIInv'
<1>1. NumbersInv /\ QueueInv /\ (~lost => NothingLost)
  BY DEF EventsIInv
<1>2. UNCHANGED <<loops, events, ongoing, shown, durations, starts, succeeded, excused, lost>>
  BY DEF uncaughtException
<1>3. QueueInv' /\ \A r : Inside(r) => Inside(r)'
  BY <1>1, ThrowKeepsQueue
<1>4. ~lost' => NothingLost'
  BY <1>1, <1>2, <1>3, QuietLosesNothing
<1>5. NumbersInv'
  BY <1>1, ThrowKeepsNumbers
<1> QED
  BY <1>3, <1>4, <1>5 DEF EventsIInv

LEMMA StartKeepsEvents ==
    ASSUME EventsAssumption, EventsIInv, NEW t \in Threads, startTrackedEvent(t)
    PROVE  EventsIInv'
<1>1. NumbersInv /\ QueueInv /\ (~lost => NothingLost)
  BY DEF EventsIInv
<1>2. NumbersInv'
  BY <1>1, StartKeepsNumbers
<1>3. QueueInv'
  BY <1>1, StartKeepsQueue
<1>4. ~lost' => NothingLost'
  BY <1>1, StartLosesNothing
<1> QED
  BY <1>2, <1>3, <1>4 DEF EventsIInv

LEMMA EndKeepsEvents ==
    ASSUME EventsAssumption, EventsIInv, NEW t \in Threads, endTrackedEvent(t)
    PROVE  EventsIInv'
<1>1. NumbersInv /\ QueueInv /\ (~lost => NothingLost)
  BY DEF EventsIInv
<1>2. NumbersInv'
  <2>1. PICK n : n = block[t].seq
    OBVIOUS
  <2> QED
    BY <1>1, <2>1, EndKeepsNumbers
<1>3. QueueInv'
  BY <1>1, EndKeepsQueue
<1>4. ~lost' => NothingLost'
  BY <1>1, EndLosesNothing
<1> QED
  BY <1>2, <1>3, <1>4 DEF EventsIInv

LEMMA PingKeepsEvents ==
    ASSUME EventsAssumption, EventsIInv, pingMainLoopEvent
    PROVE  EventsIInv'
<1>1. NumbersInv /\ QueueInv /\ (~lost => NothingLost)
  BY DEF EventsIInv
<1>2. NumbersInv'
  <2>1. EventsTypeOK' /\ UNCHANGED <<block, sequence, starts, succeeded>>
    BY <1>1, PingTyped DEF NumbersInv, pingMainLoopEvent
  <2> QED
    BY <1>1, <2>1, OthersKeepNumbers
<1>3. QueueInv'
  BY <1>1, PingKeepsQueue
<1>4. ~lost' => NothingLost'
  BY <1>1, PingLosesNothing
<1> QED
  BY <1>2, <1>3, <1>4 DEF EventsIInv

LEMMA AddEventKeepsEvents ==
    ASSUME EventsAssumption, EventsIInv, addEvent
    PROVE  EventsIInv'
<1>1. NumbersInv /\ QueueInv /\ (~lost => NothingLost)
  BY DEF EventsIInv
<1>2. UNCHANGED <<block, sequence, starts, succeeded, lost>>
  BY DEF addEvent
<1>3. NumbersInv'
  <2>1. EventsTypeOK'
    BY <1>1, AddEventTyped
  <2> QED
    BY <1>1, <1>2, <2>1, OthersKeepNumbers
<1>4. QueueInv'
  BY <1>1, AddEventKeepsQueue
<1>5. ~lost' => NothingLost'
  BY <1>1, <1>2, AddEventLosesNothing
<1> QED
  BY <1>3, <1>4, <1>5 DEF EventsIInv

LEMMA StutterKeepsEvents == ASSUME EventsAssumption, EventsIInv, UNCHANGED eventVars PROVE EventsIInv'
<1>1. NumbersInv /\ QueueInv /\ (~lost => NothingLost)
  BY DEF EventsIInv
<1>2. UNCHANGED <<sequence, block, loops, events, ongoing, shown, durations, starts, succeeded, excused, lost>>
  BY DEF eventVars
<1>3. NumbersInv'
  <2>1. EventsTypeOK'
    BY <1>1, <1>2 DEF NumbersInv, EventsTypeOK
  <2> QED
    BY <1>1, <1>2, <2>1, OthersKeepNumbers
<1>4. QueueInv'
  <2>1. EventsRight'
    BY <1>1, <1>2 DEF QueueInv, EventsRight, RightEvent, Queued, Started, Ended, Measured
  <2>2. EventsInTurn'
    BY <1>1, <1>2 DEF QueueInv, EventsInTurn, InTurn, Queued
  <2>3. MeasuredRight'
    <3>1. Measured' = Measured /\ Queued' = Queued
      BY <1>2 DEF Measured, Queued
    <3> QED
      BY <1>1, <1>2, <3>1 DEF QueueInv, MeasuredRight
  <2>4. DurationsDiffer'
    BY <1>1, <1>2 DEF QueueInv, DurationsDiffer
  <2>5. LatestStartIsInside'
    BY <1>1, <1>2 DEF QueueInv, LatestStartIsInside, Latest, Inside, Queued
  <2> QED
    BY <2>1, <2>2, <2>3, <2>4, <2>5 DEF QueueInv
<1>5. \A r : Inside(r) => Inside(r)'
  BY <1>2 DEF Inside
<1>6. ~lost' => NothingLost'
  BY <1>1, <1>2, <1>5, QuietLosesNothing
<1> QED
  BY <1>3, <1>4, <1>6 DEF EventsIInv

LEMMA EventsInductive ==
    ASSUME EventsAssumption
    PROVE  EventsPromise => []EventsIInv
<1>1. EventsInit => EventsIInv
  BY InitEvents
<1>2. EventsIInv /\ [EventsNext]_eventVars => EventsIInv'
  <2>1. SUFFICES ASSUME EventsIInv, [EventsNext]_eventVars PROVE EventsIInv'
    OBVIOUS
  <2>2. ASSUME NEW t \in Threads, NEW s \in Emitters, BlockPipelineEvent(t, s) PROVE EventsIInv'
    BY <2>1, <2>2, BlockKeepsEvents
  <2>3. ASSUME NEW t \in Threads, startTrackedEvent(t) PROVE EventsIInv'
    BY <2>1, <2>3, StartKeepsEvents
  <2>4. ASSUME NEW t \in Threads, endTrackedEvent(t) PROVE EventsIInv'
    BY <2>1, <2>4, EndKeepsEvents
  <2>5. ASSUME NEW t \in Threads, uncaughtException(t) PROVE EventsIInv'
    BY <2>1, <2>5, ThrowKeepsEvents
  <2>6. CASE pingMainLoopEvent
    BY <2>1, <2>6, PingKeepsEvents
  <2>7. CASE addEvent
    BY <2>1, <2>7, AddEventKeepsEvents
  <2>8. CASE UNCHANGED eventVars
    BY <2>1, <2>8, StutterKeepsEvents
  <2> QED
    BY <2>1, <2>2, <2>3, <2>4, <2>5, <2>6, <2>7, <2>8 DEF EventsNext
<1> QED
  BY <1>1, <1>2, PTL DEF EventsPromise

\* The pairing keeps what it is made of: typed buffers within their window, a
\* queue of well-formed events, threads that are in one event at most
\* (PipelineEventDispatcher.cpp, PipelineEventAggregation.cpp:56-150).
THEOREM PipelineEventsTypeCorrect == EventsPromise => []EventsTypeOK
<1>1. EventsIInv => EventsTypeOK
  BY DEF EventsIInv, NumbersInv
<1> QED
  BY <1>1, EventsAssumption, EventsInductive, PTL

\* As many durations as there are different ones.
LEMMA MeasuredAreCounted ==
    ASSUME EventsTypeOK, DurationsDiffer
    PROVE  Len(durations) = Cardinality(Measured)
<1>1. PICK k \in Nat : k = Len(durations) /\ DOMAIN durations = 1 .. k
  BY DEF EventsTypeOK
<1>2. Measured = {durations[i] : i \in 1 .. k}
  BY <1>1 DEF Measured
<1>3. PICK f : f = [i \in 1 .. k |-> durations[i]]
  OBVIOUS
<1>4. f \in [1 .. k -> Measured] /\ \A i, j \in 1 .. k : f[i] = f[j] => i = j
  BY <1>1, <1>2, <1>3 DEF DurationsDiffer
<1>5. \A d \in Measured : \E i \in 1 .. k : f[i] = d
  BY <1>2, <1>3
<1>6. f \in Bijection(1 .. k, Measured)
  BY <1>4, <1>5 DEF Bijection, Injection, Surjection, IsInjective
<1>7. ExistsBijection(1 .. k, Measured)
  BY <1>6 DEF ExistsBijection
<1> QED
  BY <1>1, <1>7, FS_CountingElements

\* What the aggregation measures is what happened: every event that ended well,
\* once, if no event was lost (PipelineEventAggregation.cpp:77-150, 348-384).
THEOREM PipelineEventsAreMeasured == EventsPromise => []EventsAreMeasured
<1>1. ASSUME EventsIInv PROVE EventsAreMeasured
  <2>1. NumbersInv /\ QueueInv /\ (~lost => NothingLost)
    BY <1>1 DEF EventsIInv
  <2>2. EventsTypeOK /\ DurationsDiffer
    BY <2>1 DEF NumbersInv, QueueInv
  <2>3. MeasuredOnce
    <3>1. ASSUME NEW d \in Measured, d[1] # LOOP PROVE <<d[1], d[2]>> \in succeeded
      <4>1. d \in EventSources \X Nat \X Nat
        BY <2>2, <3>1 DEF Measured, EventsTypeOK
      <4>2. PICK s \in EventSources, m \in Nat, n \in Nat : d = <<s, m, n>>
        BY <4>1
      <4>3. s \in Emitters
        BY <3>1, <4>2 DEF EventSources
      <4>4. m = n /\ <<s, n>> \in succeeded
        BY <2>1, <3>1, <4>2, <4>3 DEF QueueInv, MeasuredRight
      <4> QED
        BY <4>2, <4>4
    <3> QED
      BY <2>2, <3>1, MeasuredAreCounted DEF MeasuredOnce
  <2>4. EveryEventIsMeasured
    <3>1. SUFFICES ASSUME events = <<>>, ~lost
                   PROVE  /\ \A e \in succeeded \ excused : <<e[1], e[2], e[2]>> \in Measured
                          /\ \A n \in 2 .. loops : <<LOOP, n - 1, n>> \in Measured
      BY DEF EveryEventIsMeasured
    <3>2. NothingLost /\ Queued = {}
      BY <2>1, <3>1 DEF Queued
    <3>3. ASSUME NEW e \in succeeded \ excused PROVE <<e[1], e[2], e[2]>> \in Measured
      <4>1. PICK s \in Emitters, n \in Nat : e = <<s, n>>
        BY <2>2, <3>3 DEF EventsTypeOK
      <4> QED
        BY <3>2, <3>3, <4>1 DEF NothingLost, Covered
    <3>4. ASSUME NEW n \in 2 .. loops PROVE <<LOOP, n - 1, n>> \in Measured
      <4>1. PICK h \in Nat : PingWindow(h)
        BY <3>2 DEF NothingLost
      <4>2. loops \in Nat /\ h \in 0 .. loops /\ (\A m \in 1 .. loops : ~(h < m))
            /\ \A m \in 2 .. h : <<LOOP, m - 1, m>> \in Measured
        BY <2>2, <3>2, <4>1 DEF PingWindow, EventsTypeOK
      <4>3. n \in 2 .. h
        BY <4>2
      <4> QED
        BY <4>2, <4>3
    <3> QED
      BY <3>3, <3>4
  <2>5. ShownIsWaiting
    <3>1. SUFFICES ASSUME events = <<>>, ~lost, NEW s \in Emitters, shown[s]
                   PROVE  \E t \in Threads : block[t].source = s /\ block[t].at \in {"started", "thrown"}
      BY DEF ShownIsWaiting
    <3>2. NothingLost /\ Queued = {}
      BY <2>1, <3>1 DEF Queued
    <3> QED
      BY <3>1, <3>2 DEF NothingLost, ShownInside, Inside
  <2> QED
    BY <2>3, <2>4, <2>5 DEF EventsAreMeasured
<1> QED
  BY <1>1, EventsAssumption, EventsInductive, PTL

----------------------------------------------------------------------------
(* PipelineStates.                                                         *)

StatesPromise == StatesInit /\ [][StatesNext]_stateVars

Requests == [request : Nat, repeat : BOOLEAN]

\* What the user's side of a state is.
AskTyped ==
    /\ program \in [calls : [Users -> Seq(CallKinds)], sides : SUBSET Sides]
    /\ called \in [Users -> Nat] /\ waiting \in [Users -> Nat \cup {Registering}]
    /\ requests \in Seq(Requests) /\ asked \in Nat
    /\ out \in Seq(Nat) /\ Len(out) <= 1
    /\ answers \subseteq Nat \X Nat
MergeTyped ==
    /\ mergeAt \in Sides \cup {"loop", "request", "send"}
    /\ current \in Requests /\ match \in BOOLEAN
    /\ merged \in [Sides -> Nat]
SideTyped ==
    /\ configs \in [Sides -> Seq(Requests)]
    /\ stateInputs \in [Sides -> Seq(Nat)]
    /\ config \in [Sides -> Requests] /\ updated \in [Sides -> BOOLEAN]
StatesTypeOK == AskTyped /\ MergeTyped /\ SideTyped

Ordered(q) == \A i, j \in 1 .. Len(q) : i < j => q[i] <= q[j]
UpTo(q, r) == \A i \in 1 .. Len(q) : q[i] <= r
Only(q, r) == \A i \in 1 .. Len(q) : q[i] = r

\* The merge has yet to find the first state of the current request on this side.
Seeks(s) ==
    match /\ (mergeAt = s \/ (mergeAt = "device" /\ s = "host" /\ "host" \in program.sides))

\* A configuration is on its way to this side only while the merge seeks its
\* state, and the states of a side come in the order of their requests.
SideFollows(s) ==
    /\ \/ configs[s] = <<>> /\ (s \in program.sides => config[s] = current)
       \/ configs[s] = <<current>> /\ Seeks(s) /\ config[s].request < current.request
    /\ Ordered(stateInputs[s]) /\ UpTo(stateInputs[s], config[s].request)
    /\ s \notin program.sides => stateInputs[s] = <<>> /\ ~config[s].repeat /\ configs[s] = <<>>
    /\ s \in program.sides /\ ~Seeks(s) => Only(stateInputs[s], current.request)

\* The states merged so far are of the current request.
Merges ==
    /\ mergeAt = "device" => FirstSide = "device"
    /\ mergeAt \in {"host", "send"} /\ FirstSide = "device" => merged["device"] = current.request
    /\ mergeAt = "send" /\ (FirstSide = "host" \/ "host" \in program.sides) =>
        merged["host"] = current.request

\* Requests are numbered in their order.
Numbered ==
    /\ \A i \in 1 .. Len(requests) : requests[i].request = current.request + i
    /\ asked = current.request + Len(requests)

\* Without stateAsync, nothing repeats and every state is asked for.
Called ==
    /\ \A i \in 1 .. Len(requests) : ~requests[i].repeat
    /\ ~current.repeat
    /\ \A s \in Sides : ~config[s].repeat
    /\ mergeAt \in Sides \cup {"send"} => match
    /\ \A u \in Users : waiting[u] # Registering

MergeIdle == mergeAt \in {"loop", "request"}

\* No state is given out twice.
Given ==
    /\ \A a \in answers : a[2] <= current.request /\ (~MergeIdle => a[2] < current.request)
    /\ out # <<>> => /\ Head(out) <= current.request /\ (~MergeIdle => Head(out) < current.request)
                     /\ \A a \in answers : a[2] # Head(out)
    /\ \A a, b \in answers : a[2] = b[2] => a = b

Calls(u) == program.calls[u] # <<>>

\* The only request there is is that of the only user who asks.
Alone ==
    /\ \A u \in Users : ~Calls(u) => waiting[u] = 0
    /\ \A u \in Users : waiting[u] # 0 => waiting[u] = asked
    /\ (\A u \in Users : waiting[u] = 0) => requests = <<>> /\ MergeIdle /\ out = <<>>
    /\ Len(requests) <= 1
    /\ requests # <<>> => MergeIdle /\ out = <<>>
    /\ ~MergeIdle => out = <<>>
    /\ out # <<>> => Head(out) = asked
    /\ \A a \in answers : a[1] = a[2]

StatesIInv ==
    /\ StatesTypeOK
    /\ \A s \in Sides : SideFollows(s)
    /\ Merges /\ Numbered
    /\ OnlyCalls => Called /\ Given
    /\ OnlyCalls /\ Single => Alone

----------------------------------------------------------------------------
(* The states of a side.                                                   *)

LEMMA TailOfStates ==
    ASSUME NEW q \in Seq(Nat), q # <<>>, Ordered(q), NEW r \in Nat, UpTo(q, r)
    PROVE  /\ Head(q) \in Nat /\ Head(q) <= r /\ Tail(q) \in Seq(Nat)
           /\ Ordered(Tail(q)) /\ UpTo(Tail(q), r)
           /\ \A x \in Nat : Only(q, x) => Head(q) = x /\ Only(Tail(q), x)
           /\ Head(q) = r => Only(Tail(q), r)
<1>1. /\ Tail(q) \in Seq(Nat) /\ Len(Tail(q)) = Len(q) - 1 /\ Head(q) = q[1]
      /\ Len(q) \in Nat /\ Len(q) > 0
      /\ \A i \in 1 .. Len(Tail(q)) : i + 1 \in 1 .. Len(q) /\ Tail(q)[i] = q[i + 1]
  OBVIOUS
<1>2. 1 \in 1 .. Len(q) /\ q[1] \in Nat
  BY <1>1
<1>3. Ordered(Tail(q)) /\ UpTo(Tail(q), r)
  BY <1>1 DEF Ordered, UpTo
<1>4. \A x \in Nat : Only(q, x) => Head(q) = x /\ Only(Tail(q), x)
  BY <1>1, <1>2 DEF Only
<1>5. ASSUME Head(q) = r PROVE Only(Tail(q), r)
  <2>1. ASSUME NEW i \in 1 .. Len(Tail(q)) PROVE Tail(q)[i] = r
    <3>1. i + 1 \in 1 .. Len(q) /\ 1 < i + 1 /\ Tail(q)[i] = q[i + 1] /\ q[i + 1] \in Nat
      BY <1>1
    <3>2. q[1] <= q[i + 1] /\ q[i + 1] <= r
      BY <1>2, <3>1 DEF Ordered, UpTo
    <3>3. QED
      BY <1>1, <1>2, <1>5, <3>1, <3>2
  <2>2. QED
    BY <2>1 DEF Only
<1> QED
  BY <1>1, <1>2, <1>3, <1>4, <1>5 DEF UpTo

LEMMA AppendToStates ==
    ASSUME NEW q \in Seq(Nat), Ordered(q), NEW r \in Nat, UpTo(q, r), NEW x \in Nat, r <= x
    PROVE  /\ Append(q, x) \in Seq(Nat) /\ Append(q, x) # <<>>
           /\ Ordered(Append(q, x)) /\ UpTo(Append(q, x), x)
           /\ Only(q, x) => Only(Append(q, x), x)
<1> DEFINE p == Append(q, x)
<1>1. /\ p \in Seq(Nat) /\ Len(p) = Len(q) + 1 /\ Len(q) \in Nat /\ p[Len(q) + 1] = x
      /\ \A i \in 1 .. Len(q) : p[i] = q[i] /\ q[i] \in Nat
  OBVIOUS
<1> HIDE DEF p
<1>7. \A i \in 1 .. Len(p) : i \in 1 .. Len(q) \/ i = Len(q) + 1
  BY <1>1
<1>2. \A i \in 1 .. Len(q) : q[i] <= x
  BY <1>1 DEF UpTo
<1>3. p # <<>>
  BY <1>1
<1>4. UpTo(p, x)
  BY <1>1, <1>2, <1>7 DEF UpTo
<1>5. Ordered(p)
  <2>1. ASSUME NEW i \in 1 .. Len(p), NEW j \in 1 .. Len(p), i < j PROVE p[i] <= p[j]
    <3>1. i \in 1 .. Len(q)
      BY <1>1, <2>1
    <3>2. CASE j = Len(q) + 1
      BY <1>1, <1>2, <3>1, <3>2
    <3>3. CASE j \in 1 .. Len(q)
      BY <1>1, <2>1, <3>1, <3>3 DEF Ordered
    <3>4. QED
      BY <1>1, <3>2, <3>3
  <2>2. QED
    BY <2>1 DEF Ordered
<1>6. ASSUME Only(q, x) PROVE Only(p, x)
  <2>1. ASSUME NEW i \in 1 .. Len(p) PROVE p[i] = x
    <3>1. CASE i \in 1 .. Len(q)
      <4>1. q[i] = x
        BY <1>6, <3>1 DEF Only
      <4>2. QED
        BY <1>1, <3>1, <4>1
    <3>2. QED
      BY <1>1, <1>7, <3>1
  <2>2. QED
    BY <2>1 DEF Only
<1> QED
  BY <1>1, <1>3, <1>4, <1>5, <1>6 DEF p

\* A full input drops its oldest state.
LEMMA SentState ==
    ASSUME StatesAssumption, SideTyped, NEW s \in Sides, NEW x \in Nat, SendTo(s, x),
           Ordered(stateInputs[s]), NEW r \in Nat, UpTo(stateInputs[s], r), r <= x
    PROVE  \E p \in Seq(Nat) :
             /\ stateInputs' = [stateInputs EXCEPT ![s] = p]
             /\ Ordered(p) /\ UpTo(p, x)
             /\ Only(stateInputs[s], x) => Only(p, x)
<1> DEFINE all == Append(stateInputs[s], x)
<1>1. stateInputs[s] \in Seq(Nat)
  BY DEF SideTyped
<1>2. /\ all \in Seq(Nat) /\ all # <<>> /\ Ordered(all) /\ UpTo(all, x)
      /\ Only(stateInputs[s], x) => Only(all, x)
  BY <1>1, AppendToStates
<1>3. stateInputs' = [stateInputs EXCEPT ![s] = IF Len(all) > InputSize THEN Tail(all) ELSE all]
  BY DEF SendTo
<1> HIDE DEF all
<1>4. /\ Tail(all) \in Seq(Nat) /\ Ordered(Tail(all)) /\ UpTo(Tail(all), x)
      /\ Only(all, x) => Only(Tail(all), x)
  BY <1>2, TailOfStates
<1> QED
  BY <1>2, <1>3, <1>4

----------------------------------------------------------------------------
(* Types. *)

LEMMA InitStatesTyped == ASSUME StatesAssumption PROVE StatesInit => StatesTypeOK
<1> SUFFICES ASSUME StatesInit PROVE StatesTypeOK
  OBVIOUS
<1> USE DEF StatesInit, StatesAssumption
<1>1. NoConfig \in Requests
  BY DEF NoConfig, Requests
<1>2. AskTyped
  BY DEF AskTyped
<1>3. MergeTyped
  BY <1>1 DEF MergeTyped
<1>4. SideTyped
  BY <1>1 DEF SideTyped
<1> QED
  BY <1>2, <1>3, <1>4 DEF StatesTypeOK

UserStep(u) == sendRequest(u) \/ addCallback(u) \/ getState(u)
SideStep(s) == Aggregation(s) \/ updateStats(s)

LEMMA UserStepTyped ==
    ASSUME StatesTypeOK, NEW u \in Users, UserStep(u)
    PROVE  StatesTypeOK'
<1>1. AskTyped /\ MergeTyped /\ SideTyped
  BY DEF StatesTypeOK
<1>2. MergeTyped' /\ SideTyped'
  <2>1. UNCHANGED <<mergeVars, configs, stateInputs, config, updated>>
    BY DEF UserStep, sendRequest, addCallback, getState
  <2>2. QED
    BY <1>1, <2>1 DEF mergeVars, MergeTyped, SideTyped
<1>3. CASE sendRequest(u)
  <2> DEFINE async == program.calls[u][called[u] + 1] = "async"
  <2>1. /\ program' = program /\ out' = out /\ answers' = answers
        /\ called' = [called EXCEPT ![u] = @ + 1]
        /\ asked' = asked + 1
    BY <1>3 DEF sendRequest
  <2>2. [request |-> asked + 1, repeat |-> async] \in Requests
    BY <1>1 DEF AskTyped, Requests
  <2>3. requests' \in Seq(Requests)
    BY <1>1, <1>3, <2>2 DEF sendRequest, AskTyped
  <2>4. waiting' \in [Users -> Nat \cup {Registering}]
    BY <1>1, <1>3 DEF sendRequest, AskTyped
  <2>5. called' \in [Users -> Nat] /\ asked' \in Nat
    BY <1>1, <2>1 DEF AskTyped
  <2>6. QED
    BY <1>1, <1>2, <2>1, <2>3, <2>4, <2>5 DEF StatesTypeOK, AskTyped
<1>4. CASE addCallback(u)
  BY <1>1, <1>2, <1>4 DEF addCallback, StatesTypeOK, AskTyped
<1>5. CASE getState(u)
  <2>1. /\ waiting' \in [Users -> Nat \cup {Registering}] /\ out' = <<>>
        /\ UNCHANGED <<program, called, requests, asked>>
    BY <1>1, <1>5 DEF getState, AskTyped
  <2>2. waiting[u] \in Nat /\ Head(out) \in Nat
    BY <1>1, <1>5 DEF getState, AskTyped, Registering
  <2>3. answers' \subseteq Nat \X Nat
    BY <1>1, <1>5, <2>2 DEF getState, AskTyped
  <2>4. QED
    BY <1>1, <1>2, <2>1, <2>3 DEF StatesTypeOK, AskTyped
<1> QED
  BY <1>3, <1>4, <1>5 DEF UserStep

LEMMA MergeStepTyped ==
    ASSUME StatesTypeOK, Merge
    PROVE  StatesTypeOK'
<1>1. AskTyped /\ MergeTyped /\ SideTyped
  BY DEF StatesTypeOK
<1>2. CASE loop
  <2>1. AskTyped' /\ SideTyped'
    BY <1>1, <1>2 DEF loop, userVars, AskTyped, SideTyped
  <2>2. MergeTyped'
    BY <1>1, <1>2 DEF loop, MergeTyped, FirstSide, Sides
  <2>3. QED
    BY <2>1, <2>2 DEF StatesTypeOK
<1>3. CASE takeRequest
  <2>1. requests \in Seq(Requests) /\ requests # <<>>
    BY <1>1, <1>3 DEF takeRequest, AskTyped
  <2>2. Head(requests) \in Requests /\ Tail(requests) \in Seq(Requests)
    BY <2>1
  <2>3. AskTyped'
    BY <1>1, <1>3, <2>2 DEF takeRequest, userVars, AskTyped
  <2>4. MergeTyped'
    BY <1>1, <1>3, <2>2 DEF takeRequest, MergeTyped, FirstSide, Sides
  <2>5. configs' \in [Sides -> Seq(Requests)]
    BY <1>1, <1>3, <2>2 DEF takeRequest, SideTyped
  <2>6. QED
    BY <1>1, <1>3, <2>3, <2>4, <2>5 DEF takeRequest, SideTyped, StatesTypeOK
<1>4. ASSUME NEW s \in Sides, takeState(s) PROVE StatesTypeOK'
  <2>1. stateInputs[s] \in Seq(Nat) /\ stateInputs[s] # <<>>
    BY <1>1, <1>4 DEF takeState, SideTyped
  <2>2. Head(stateInputs[s]) \in Nat /\ Tail(stateInputs[s]) \in Seq(Nat)
    BY <2>1
  <2>3. AskTyped'
    BY <1>1, <1>4 DEF takeState, userVars, AskTyped
  <2>4. MergeTyped'
    BY <1>1, <1>4, <2>2 DEF takeState, MergeTyped, Sides
  <2>5. stateInputs' \in [Sides -> Seq(Nat)]
    BY <1>1, <1>4, <2>2 DEF takeState, SideTyped
  <2>6. QED
    BY <1>1, <1>4, <2>3, <2>4, <2>5 DEF takeState, SideTyped, StatesTypeOK
<1>5. CASE sendState
  <2>1. SideTyped' /\ MergeTyped'
    BY <1>1, <1>5 DEF sendState, SideTyped, MergeTyped
  <2>2. FirstSide \in Sides
    BY DEF FirstSide, Sides
  <2>3. merged[FirstSide] \in Nat
    BY <1>1, <2>2 DEF MergeTyped
  <2>4. AskTyped'
    BY <1>1, <1>5, <2>3 DEF sendState, userVars, AskTyped
  <2>5. QED
    BY <2>1, <2>4 DEF StatesTypeOK
<1> QED
  BY <1>2, <1>3, <1>4, <1>5 DEF Merge

LEMMA SideStepTyped ==
    ASSUME StatesAssumption, StatesTypeOK, NEW s \in Sides, SideFollows(s), SideStep(s)
    PROVE  StatesTypeOK'
<1>1. AskTyped /\ MergeTyped /\ SideTyped
  BY DEF StatesTypeOK
<1>2. AskTyped' /\ MergeTyped'
  BY <1>1 DEF SideStep, Aggregation, newConfig, repeatState, updateStats, userVars, mergeVars,
     AskTyped, MergeTyped
<1>3. ASSUME NEW x \in Nat, SendTo(s, x) PROVE stateInputs' \in [Sides -> Seq(Nat)]
  <2>1. stateInputs[s] \in Seq(Nat)
    BY <1>1 DEF SideTyped
  <2>2. Append(stateInputs[s], x) \in Seq(Nat) /\ Append(stateInputs[s], x) # <<>>
    BY <2>1, <1>3
  <2>3. Tail(Append(stateInputs[s], x)) \in Seq(Nat)
    BY <2>2
  <2>4. QED
    BY <1>1, <1>3, <2>2, <2>3 DEF SendTo, SideTyped
<1>4. CASE newConfig(s)
  <2>1. configs[s] \in Seq(Requests) /\ configs[s] # <<>>
    BY <1>1, <1>4 DEF newConfig, SideTyped
  <2>2. Head(configs[s]) \in Requests /\ Tail(configs[s]) \in Seq(Requests)
    BY <2>1
  <2>3. Head(configs[s]).request \in Nat
    BY <2>2 DEF Requests
  <2>4. stateInputs' \in [Sides -> Seq(Nat)]
    BY <1>3, <1>4, <2>3 DEF newConfig
  <2>5. QED
    BY <1>1, <1>2, <1>4, <2>2, <2>4 DEF newConfig, SideTyped, StatesTypeOK
<1>5. CASE repeatState(s)
  <2>1. config[s] \in Requests
    BY <1>1 DEF SideTyped
  <2>2. config[s].request \in Nat
    BY <2>1 DEF Requests
  <2>3. stateInputs' \in [Sides -> Seq(Nat)]
    BY <1>3, <1>5, <2>2 DEF repeatState
  <2>4. QED
    BY <1>1, <1>2, <1>5, <2>3 DEF repeatState, SideTyped, StatesTypeOK
<1>6. CASE updateStats(s)
  BY <1>1, <1>2, <1>6 DEF updateStats, SideTyped, StatesTypeOK
<1> QED
  BY <1>4, <1>5, <1>6 DEF SideStep, Aggregation

----------------------------------------------------------------------------
(* Sides and merge. *)

Sided == \A s \in Sides : SideFollows(s)
MergeInv == StatesTypeOK /\ Sided /\ Merges /\ Numbered

LEMMA FirstSideFacts ==
    /\ FirstSide \in Sides
    /\ FirstSide = "device" <=> "device" \in program.sides
    /\ FirstSide # "device" => FirstSide = "host"
BY DEF FirstSide, Sides

LEMMA UserStepMerges ==
    ASSUME MergeInv, NEW u \in Users, UserStep(u)
    PROVE  Sided' /\ Merges' /\ Numbered'
<1>1. UNCHANGED <<program, mergeVars, configs, stateInputs, config, updated>>
  BY DEF UserStep, sendRequest, addCallback, getState
<1>2. Sided' /\ Merges'
  BY <1>1 DEF MergeInv, mergeVars, Sided, Merges, SideFollows, Seeks, FirstSide
<1>3. Numbered'
  <2>1. CASE sendRequest(u)
    <3> DEFINE r == [request |-> asked + 1,
                     repeat |-> program.calls[u][called[u] + 1] = "async"]
    <3>1. requests' = Append(requests, r) /\ asked' = asked + 1 /\ r.request = asked + 1
      BY <2>1 DEF sendRequest
    <3>2. requests \in Seq(Requests) /\ asked \in Nat /\ current.request \in Nat
      BY DEF MergeInv, StatesTypeOK, AskTyped, MergeTyped, Requests
    <3> HIDE DEF r
    <3>3. /\ Len(requests) \in Nat /\ Len(requests') = Len(requests) + 1
          /\ requests'[Len(requests) + 1] = r
          /\ \A i \in 1 .. Len(requests) : requests'[i] = requests[i]
      BY <3>1, <3>2
    <3>4. current' = current
      BY <1>1 DEF mergeVars
    <3>5. /\ asked = current.request + Len(requests)
          /\ \A i \in 1 .. Len(requests) : requests[i].request = current.request + i
      BY DEF MergeInv, Numbered
    <3>6. \A i \in 1 .. Len(requests') : i \in 1 .. Len(requests) \/ i = Len(requests) + 1
      BY <3>3
    <3>7. requests'[Len(requests) + 1].request = current.request + (Len(requests) + 1)
      <4>1. /\ requests'[Len(requests) + 1] = r /\ r.request = asked + 1
            /\ asked = current.request + Len(requests)
        BY <3>1, <3>3, <3>5
      <4>2. current.request \in Nat /\ Len(requests) \in Nat
        BY <3>2, <3>3
      <4>3. QED
        BY <4>1, <4>2
    <3>8. \A i \in 1 .. Len(requests') : requests'[i].request = current.request + i
      BY <3>3, <3>5, <3>6, <3>7
    <3>9. asked' = current.request + Len(requests')
      BY <3>1, <3>2, <3>3, <3>5
    <3>10. QED
      BY <3>4, <3>8, <3>9 DEF Numbered
  <2>2. CASE addCallback(u) \/ getState(u)
    BY <1>1, <2>2 DEF MergeInv, Numbered, addCallback, getState, mergeVars
  <2>3. QED
    BY <2>1, <2>2 DEF UserStep
<1> QED
  BY <1>2, <1>3

LEMMA LoopMerges ==
    ASSUME MergeInv, loop
    PROVE  Sided' /\ Merges' /\ Numbered'
<1>1. /\ mergeAt = "loop" /\ mergeAt' \in {"request", FirstSide} /\ match' = FALSE
      /\ UNCHANGED <<program, asked, requests, current, merged, configs, stateInputs, config>>
  BY DEF loop, userVars
<1>2. Numbered'
  BY <1>1 DEF MergeInv, Numbered
<1>3. Merges'
  BY <1>1, FirstSideFacts DEF Merges, FirstSide
<1>4. Sided'
  <2>1. \A s \in Sides : ~Seeks(s) /\ ~Seeks(s)'
    BY <1>1 DEF Seeks, Sides
  <2>2. QED
    BY <1>1, <2>1 DEF MergeInv, Sided, SideFollows
<1> QED
  BY <1>2, <1>3, <1>4

LEMMA TakeRequestMerges ==
    ASSUME MergeInv, takeRequest
    PROVE  Sided' /\ Merges' /\ Numbered'
<1>1. /\ mergeAt = "request" /\ mergeAt' = FirstSide /\ match' = TRUE
      /\ requests # <<>> /\ requests' = Tail(requests) /\ current' = Head(requests)
      /\ configs' = [s \in Sides |-> IF s \in program.sides THEN Append(configs[s], current')
                                                            ELSE configs[s]]
      /\ UNCHANGED <<program, asked, merged, stateInputs, config>>
  BY DEF takeRequest, userVars
<1>2. requests \in Seq(Requests) /\ current.request \in Nat /\ asked \in Nat
  BY DEF MergeInv, StatesTypeOK, AskTyped, MergeTyped, Requests
<1>3. /\ Len(requests) \in Nat /\ Len(requests') = Len(requests) - 1 /\ Head(requests) = requests[1]
      /\ 1 \in 1 .. Len(requests)
      /\ \A i \in 1 .. Len(requests') : i + 1 \in 1 .. Len(requests) /\ requests'[i] = requests[i + 1]
  BY <1>1, <1>2
<1>4. current'.request = current.request + 1
  BY <1>1, <1>3 DEF MergeInv, Numbered
<1>5. Numbered'
  <2>1. \A i \in 1 .. Len(requests') : requests'[i].request = current.request + (i + 1)
    BY <1>3 DEF MergeInv, Numbered
  <2>2. \A i \in 1 .. Len(requests') : requests'[i].request = current'.request + i
    <3>1. ASSUME NEW i \in 1 .. Len(requests') PROVE requests'[i].request = current'.request + i
      <4>1. i \in Nat
        BY <1>3
      <4>2. current.request + (i + 1) = (current.request + 1) + i
        BY <1>2, <4>1
      <4>3. QED
        BY <1>4, <2>1, <4>2
    <3>2. QED
      BY <3>1
  <2>3. asked' = current'.request + Len(requests')
    BY <1>1, <1>2, <1>3, <1>4 DEF MergeInv, Numbered
  <2>4. QED
    BY <2>2, <2>3 DEF Numbered
<1>6. Merges'
  BY <1>1, FirstSideFacts DEF Merges, FirstSide
<1>7. Sided'
  <2> SUFFICES ASSUME NEW s \in Sides PROVE SideFollows(s)'
    BY DEF Sided
  <2>1. SideFollows(s) /\ ~Seeks(s)
    BY <1>1 DEF MergeInv, Sided, Seeks, Sides
  <2>2. CASE s \in program.sides
    <3>1. Seeks(s)'
      BY <1>1, <2>2 DEF Seeks, FirstSide, Sides
    <3>2. configs[s] = <<>> /\ config[s] = current
      BY <2>1, <2>2 DEF SideFollows
    <3>3. configs'[s] = <<current'>>
      <4>1. configs'[s] = Append(configs[s], current')
        BY <1>1, <2>2
      <4>2. QED
        BY <3>2, <4>1
    <3>4. config'[s].request < current'.request
      BY <1>1, <1>2, <1>4, <3>2
    <3>5. QED
      BY <1>1, <2>1, <2>2, <3>1, <3>3, <3>4 DEF SideFollows
  <2>3. CASE s \notin program.sides
    BY <1>1, <2>1, <2>3 DEF SideFollows
  <2>4. QED
    BY <2>2, <2>3
<1> QED
  BY <1>5, <1>6, <1>7

LEMMA TakeStateMerges ==
    ASSUME MergeInv, NEW s \in Sides, takeState(s)
    PROVE  Sided' /\ Merges' /\ Numbered'
<1> DEFINE q == stateInputs[s]
           state == Head(q)
<1>1. /\ mergeAt = s /\ q # <<>> /\ stateInputs' = [stateInputs EXCEPT ![s] = Tail(@)]
      /\ UNCHANGED <<program, asked, requests, current, match, configs, config>>
      /\ \/ match /\ state # current.request /\ UNCHANGED <<mergeAt, merged>>
         \/ /\ ~match \/ state = current.request
            /\ merged' = [merged EXCEPT ![s] = state]
            /\ mergeAt' = IF s = "device" /\ "host" \in program.sides THEN "host" ELSE "send"
  BY DEF takeState, userVars
<1>2. /\ SideFollows(s) /\ q \in Seq(Nat) /\ config[s].request \in Nat /\ current.request \in Nat
      /\ merged \in [Sides -> Nat] /\ stateInputs \in [Sides -> Seq(Nat)]
  BY DEF MergeInv, Sided, StatesTypeOK, SideTyped, MergeTyped, Requests
<1>3. /\ state <= config[s].request /\ state \in Nat /\ Tail(q) \in Seq(Nat)
      /\ Ordered(Tail(q)) /\ UpTo(Tail(q), config[s].request)
      /\ Only(q, current.request) => state = current.request /\ Only(Tail(q), current.request)
      /\ state = config[s].request => Only(Tail(q), config[s].request)
  BY <1>1, <1>2, TailOfStates DEF SideFollows
<1>4. s \in program.sides
  BY <1>1, <1>2 DEF SideFollows
<1>5. stateInputs'[s] = Tail(q) /\ \A t \in Sides \ {s} : stateInputs'[t] = stateInputs[t]
  BY <1>1, <1>2
<1> HIDE DEF q, state
<1>6. Numbered'
  BY <1>1 DEF MergeInv, Numbered
<1>7. ~match => state = current.request
  BY <1>2, <1>3, <1>4 DEF Seeks, SideFollows, q
<1>8. Merges'
  BY <1>1, <1>2, <1>4, <1>7, FirstSideFacts DEF MergeInv, Merges, FirstSide, Sides
<1>9. state = current.request => /\ Only(Tail(q), current.request)
                                 /\ configs[s] = <<>> /\ config[s] = current
  BY <1>2, <1>3, <1>4 DEF SideFollows
<1>10. SideFollows(s)'
  <2>1. CASE match /\ state # current.request
    <3>1. Seeks(s) /\ Seeks(s)'
      BY <1>1, <2>1 DEF Seeks
    <3>2. QED
      BY <1>1, <1>2, <1>3, <1>4, <1>5, <3>1 DEF SideFollows
  <2>2. CASE ~match \/ state = current.request
    BY <1>1, <1>3, <1>4, <1>5, <1>7, <1>9, <2>2 DEF SideFollows
  <2>3. QED
    BY <2>1, <2>2
<1>11. ASSUME NEW t \in Sides \ {s} PROVE SideFollows(t)'
  <2>1. Seeks(t)' = Seeks(t)
    BY <1>1 DEF Seeks, Sides
  <2>2. SideFollows(t)
    BY DEF MergeInv, Sided
  <2>3. QED
    BY <1>1, <1>5, <2>1, <2>2 DEF SideFollows
<1> QED
  BY <1>6, <1>8, <1>10, <1>11 DEF Sided

LEMMA SendStateMerges ==
    ASSUME MergeInv, sendState
    PROVE  Sided' /\ Merges' /\ Numbered'
<1>1. /\ mergeAt = "send" /\ mergeAt' = "loop"
      /\ UNCHANGED <<program, asked, requests, current, match, merged, configs, stateInputs, config>>
  BY DEF sendState, userVars
<1>2. Numbered' /\ Merges'
  BY <1>1 DEF MergeInv, Numbered, Merges
<1>3. \A s \in Sides : ~Seeks(s) /\ ~Seeks(s)'
  BY <1>1 DEF Seeks, Sides
<1> QED
  BY <1>1, <1>2, <1>3 DEF MergeInv, Sided, SideFollows

LEMMA SideStepMerges ==
    ASSUME StatesAssumption, MergeInv, NEW s \in Sides, SideStep(s)
    PROVE  Sided' /\ Merges' /\ Numbered'
<1>1. UNCHANGED <<program, asked, requests, mergeVars>>
  BY DEF SideStep, Aggregation, newConfig, repeatState, updateStats, userVars
<1>2. Numbered' /\ Merges'
  BY <1>1 DEF MergeInv, Numbered, Merges, mergeVars, FirstSide
<1>3. /\ SideFollows(s) /\ SideTyped /\ config[s].request \in Nat /\ current.request \in Nat
      /\ stateInputs[s] \in Seq(Nat)
  BY DEF MergeInv, Sided, StatesTypeOK, SideTyped, MergeTyped, Requests
<1>4. \A t \in Sides : Seeks(t)' = Seeks(t)
  BY <1>1 DEF Seeks, mergeVars
<1>5. CASE newConfig(s)
  <2>1. configs[s] = <<current>> /\ Seeks(s) /\ config[s].request < current.request /\ s \in program.sides
    BY <1>3, <1>5 DEF newConfig, SideFollows
  <2>2. /\ configs' = [configs EXCEPT ![s] = <<>>]
        /\ config' = [config EXCEPT ![s] = current]
        /\ SendTo(s, current.request)
    BY <1>5, <2>1 DEF newConfig
  <2>3. PICK p \in Seq(Nat) : /\ stateInputs' = [stateInputs EXCEPT ![s] = p]
                              /\ Ordered(p) /\ UpTo(p, current.request)
    BY <1>3, <2>1, <2>2, SentState DEF SideFollows
  <2>4. configs'[s] = <<>> /\ config'[s] = current /\ stateInputs'[s] = p
    BY <1>3, <2>2, <2>3 DEF SideTyped
  <2>5. SideFollows(s)'
    BY <1>1, <1>4, <2>1, <2>3, <2>4 DEF SideFollows, mergeVars
  <2>6. ASSUME NEW t \in Sides \ {s} PROVE SideFollows(t)'
    <3>1. /\ configs'[t] = configs[t] /\ config'[t] = config[t] /\ stateInputs'[t] = stateInputs[t]
          /\ SideFollows(t)
      BY <1>3, <2>2, <2>3 DEF SideTyped, MergeInv, Sided
    <3>2. QED
      BY <1>1, <1>4, <3>1 DEF SideFollows, mergeVars
  <2>7. QED
    BY <1>2, <2>5, <2>6 DEF Sided
<1>6. CASE repeatState(s)
  <2>1. configs[s] = <<>> /\ s \in program.sides /\ config[s] = current
    BY <1>3, <1>6 DEF repeatState, SideFollows
  <2>2. configs' = configs /\ config' = config /\ SendTo(s, current.request)
    BY <1>6, <2>1 DEF repeatState
  <2>3. PICK p \in Seq(Nat) : /\ stateInputs' = [stateInputs EXCEPT ![s] = p]
                              /\ Ordered(p) /\ UpTo(p, current.request)
                              /\ Only(stateInputs[s], current.request) => Only(p, current.request)
    BY <1>3, <2>1, <2>2, SentState DEF SideFollows
  <2>4. stateInputs'[s] = p
    BY <1>3, <2>3 DEF SideTyped
  <2>5. SideFollows(s)'
    BY <1>1, <1>3, <1>4, <2>1, <2>2, <2>3, <2>4 DEF SideFollows, mergeVars
  <2>6. ASSUME NEW t \in Sides \ {s} PROVE SideFollows(t)'
    <3>1. stateInputs'[t] = stateInputs[t] /\ SideFollows(t)
      BY <1>3, <2>3 DEF SideTyped, MergeInv, Sided
    <3>2. QED
      BY <1>1, <1>4, <2>2, <3>1 DEF SideFollows, mergeVars
  <2>7. QED
    BY <1>2, <2>5, <2>6 DEF Sided
<1>7. CASE updateStats(s)
  BY <1>1, <1>2, <1>4, <1>7 DEF updateStats, MergeInv, Sided, SideFollows, mergeVars
<1> QED
  BY <1>5, <1>6, <1>7 DEF SideStep, Aggregation

----------------------------------------------------------------------------
(* Calls only. *)

LEMMA SingleCaller ==
    ASSUME StatesAssumption, Single
    PROVE  \A u, v \in Users : Calls(u) /\ Calls(v) => u = v
<1> DEFINE C == {u \in Users : program.calls[u] # <<>>}
<1>1. IsFiniteSet(C)
  BY FS_Subset DEF StatesAssumption
<1>2. Cardinality(C) = 1
  BY DEF Single
<1>3. PICK c : C = {c}
  BY <1>1, <1>2, FS_Singleton
<1> QED
  BY <1>3 DEF Calls

LEMMA UserStepCalled ==
    ASSUME MergeInv, OnlyCalls, Called, Given, NEW u \in Users, UserStep(u)
    PROVE  OnlyCalls' /\ Called' /\ Given'
<1>1. UNCHANGED <<program, mergeVars, configs, stateInputs, config, updated>>
  BY DEF UserStep, sendRequest, addCallback, getState
<1>2. OnlyCalls'
  BY <1>1 DEF OnlyCalls
<1>3. CASE sendRequest(u)
  <2>1. /\ called[u] < Len(program.calls[u]) /\ out' = out /\ answers' = answers
        /\ called[u] \in Nat /\ program.calls[u] \in Seq(CallKinds)
        /\ requests \in Seq(Requests) /\ waiting \in [Users -> Nat \cup {Registering}]
        /\ asked \in Nat
    BY <1>3 DEF sendRequest, MergeInv, StatesTypeOK, AskTyped
  <2>2. called[u] + 1 \in DOMAIN program.calls[u]
    BY <2>1
  <2>3. program.calls[u][called[u] + 1] = "call"
    BY <2>2 DEF OnlyCalls
  <2> DEFINE r == [request |-> asked + 1, repeat |-> FALSE]
  <2>4. requests' = Append(requests, r)
    <3>1. (program.calls[u][called[u] + 1] = "async") = FALSE
      BY <2>3
    <3>2. QED
      BY <1>3, <3>1 DEF sendRequest
  <2>5. waiting' = [waiting EXCEPT ![u] = asked + 1]
    BY <1>3, <2>3 DEF sendRequest
  <2>6. ~r.repeat
    OBVIOUS
  <2> HIDE DEF r
  <2>7. /\ Len(requests) \in Nat /\ Len(requests') = Len(requests) + 1
        /\ requests'[Len(requests) + 1] = r
        /\ \A i \in 1 .. Len(requests) : requests'[i] = requests[i]
    BY <2>1, <2>4
  <2>8. \A i \in 1 .. Len(requests') : i \in 1 .. Len(requests) \/ i = Len(requests) + 1
    BY <2>7
  <2>9. \A i \in 1 .. Len(requests') : ~requests'[i].repeat
    BY <2>6, <2>7, <2>8 DEF Called
  <2>10. \A v \in Users : waiting'[v] # Registering
    BY <2>1, <2>5 DEF Called, Registering
  <2>11. Called'
    BY <1>1, <2>9, <2>10 DEF Called, mergeVars
  <2>12. Given'
    BY <1>1, <2>1 DEF Given, MergeIdle, mergeVars
  <2>13. QED
    BY <1>2, <2>11, <2>12
<1>4. CASE addCallback(u)
  BY <1>4 DEF addCallback, Called
<1>5. CASE getState(u)
  <2>1. /\ out # <<>> /\ out' = <<>> /\ requests' = requests
        /\ answers' = answers \cup {<<waiting[u], Head(out)>>}
        /\ waiting' = [waiting EXCEPT ![u] = 0]
        /\ waiting \in [Users -> Nat \cup {Registering}]
    BY <1>5 DEF getState, MergeInv, StatesTypeOK, AskTyped
  <2>2. \A v \in Users : waiting'[v] # Registering
    BY <2>1 DEF Called, Registering
  <2>3. Called'
    BY <1>1, <2>1, <2>2 DEF Called, mergeVars
  <2>4. mergeAt' = mergeAt /\ current' = current
    BY <1>1 DEF mergeVars
  <2> DEFINE new == <<waiting[u], Head(out)>>
  <2>5. new[2] = Head(out) /\ answers' = answers \cup {new}
    BY <2>1
  <2> HIDE DEF new
  <2>6. \A a \in answers' : a[2] <= current'.request /\ (~MergeIdle' => a[2] < current'.request)
    BY <2>1, <2>4, <2>5 DEF Given, MergeIdle
  <2>7. \A a, b \in answers' : a[2] = b[2] => a = b
    BY <2>1, <2>5 DEF Given
  <2>8. Given'
    BY <2>1, <2>6, <2>7 DEF Given
  <2>9. QED
    BY <1>2, <2>3, <2>8
<1> QED
  BY <1>3, <1>4, <1>5 DEF UserStep

LEMMA MergeStepCalled ==
    ASSUME MergeInv, OnlyCalls, Called, Given, Merge
    PROVE  OnlyCalls' /\ Called' /\ Given'
<1>1. UNCHANGED <<program, waiting, answers, config>>
  BY DEF Merge, loop, takeRequest, takeState, sendState, userVars
<1>2. OnlyCalls'
  BY <1>1 DEF OnlyCalls
<1>3. CASE loop
  <2>1. /\ mergeAt = "loop" /\ mergeAt' = "request"
        /\ UNCHANGED <<requests, current, out>>
    BY <1>3 DEF loop, Called
  <2>2. Called'
    BY <1>1, <2>1 DEF Called, Sides
  <2>3. Given'
    BY <1>1, <2>1 DEF Given, MergeIdle
  <2>4. QED
    BY <1>2, <2>2, <2>3
<1>4. CASE takeRequest
  <2>1. /\ mergeAt = "request" /\ mergeAt' = FirstSide /\ match'
        /\ requests # <<>> /\ requests' = Tail(requests) /\ current' = Head(requests) /\ out' = out
        /\ requests \in Seq(Requests)
    BY <1>4 DEF takeRequest, MergeInv, StatesTypeOK, AskTyped
  <2>2. /\ Len(requests) \in Nat /\ Len(requests') = Len(requests) - 1
        /\ Head(requests) = requests[1] /\ 1 \in 1 .. Len(requests)
        /\ \A i \in 1 .. Len(requests') :
             i + 1 \in 1 .. Len(requests) /\ requests'[i] = requests[i + 1]
    BY <2>1
  <2>3. /\ ~current'.repeat
        /\ \A i \in 1 .. Len(requests') : ~requests'[i].repeat
    BY <2>1, <2>2 DEF Called
  <2>4. Called'
    BY <1>1, <2>1, <2>3 DEF Called
  <2>5. current'.request = current.request + 1
    BY <2>1, <2>2 DEF MergeInv, Numbered
  <2>6. answers \subseteq Nat \X Nat /\ current.request \in Nat /\ out \in Seq(Nat)
    BY DEF MergeInv, StatesTypeOK, AskTyped, MergeTyped, Requests
  <2>7. \A a \in answers : a[2] \in Nat /\ a[2] <= current.request
    BY <2>6 DEF Given
  <2>8. \A a \in answers : a[2] <= current'.request /\ a[2] < current'.request
    BY <2>5, <2>6, <2>7
  <2>9. out # <<>> => Head(out) \in Nat /\ Head(out) <= current.request
    BY <2>6 DEF Given
  <2>10. out # <<>> => Head(out) <= current'.request /\ Head(out) < current'.request
    BY <2>5, <2>6, <2>9
  <2>11. Given'
    BY <1>1, <2>1, <2>8, <2>10 DEF Given
  <2>12. QED
    BY <1>2, <2>4, <2>11
<1>5. ASSUME NEW s \in Sides, takeState(s) PROVE Called' /\ Given'
  <2>1. /\ mergeAt = s /\ mergeAt' \in Sides \cup {"send"}
        /\ UNCHANGED <<requests, current, match, out>>
    BY <1>5 DEF takeState, Sides
  <2>2. ~MergeIdle /\ ~MergeIdle'
    BY <2>1 DEF MergeIdle, Sides
  <2>3. Called'
    BY <1>1, <2>1 DEF Called
  <2>4. Given'
    BY <1>1, <2>1, <2>2 DEF Given
  <2>5. QED
    BY <2>3, <2>4
<1>6. CASE sendState
  <2>1. /\ mergeAt = "send" /\ mergeAt' = "loop" /\ out' = <<merged[FirstSide]>>
        /\ UNCHANGED <<requests, current, match>>
    BY <1>6 DEF sendState
  <2>2. merged[FirstSide] = current.request
    BY <2>1, FirstSideFacts DEF MergeInv, Merges
  <2>3. Called'
    BY <1>1, <2>1 DEF Called, Sides
  <2>4. current.request \in Nat /\ answers \subseteq Nat \X Nat
    BY DEF MergeInv, StatesTypeOK, AskTyped, MergeTyped, Requests
  <2>5. \A a \in answers : a[2] \in Nat /\ a[2] < current.request
    BY <2>1, <2>4 DEF Given, MergeIdle
  <2>6. \A a \in answers : a[2] # current.request
    BY <2>4, <2>5
  <2>7. MergeIdle' /\ Head(out') = current.request /\ current.request <= current.request
    BY <2>1, <2>2, <2>4 DEF MergeIdle
  <2>8. Given'
    BY <1>1, <2>1, <2>6, <2>7 DEF Given
  <2>9. QED
    BY <1>2, <2>3, <2>8
<1> QED
  BY <1>2, <1>3, <1>4, <1>5, <1>6 DEF Merge

LEMMA SideStepCalled ==
    ASSUME MergeInv, OnlyCalls, Called, Given, NEW s \in Sides, SideStep(s)
    PROVE  OnlyCalls' /\ Called' /\ Given'
<1>1. UNCHANGED <<program, waiting, answers, requests, mergeAt, current, match, out>>
  BY DEF SideStep, Aggregation, newConfig, repeatState, updateStats, userVars, mergeVars
<1>2. OnlyCalls' /\ Given'
  BY <1>1 DEF OnlyCalls, Given, MergeIdle
<1>3. \A t \in Sides : ~config'[t].repeat
  <2>1. SideFollows(s) /\ config \in [Sides -> Requests]
    BY DEF MergeInv, Sided, StatesTypeOK, SideTyped
  <2>2. CASE newConfig(s)
    <3>1. configs[s] = <<current>>
      BY <2>1, <2>2 DEF SideFollows, newConfig
    <3>2. config' = [config EXCEPT ![s] = current]
      BY <2>2, <3>1 DEF newConfig
    <3>3. QED
      BY <2>1, <3>2 DEF Called
  <2>3. CASE repeatState(s) \/ updateStats(s)
    BY <2>3 DEF repeatState, updateStats, Called
  <2>4. QED
    BY <2>2, <2>3 DEF SideStep, Aggregation
<1>4. Called'
  BY <1>1, <1>3 DEF Called
<1> QED
  BY <1>2, <1>4

----------------------------------------------------------------------------
(* One user calls. *)

AloneInv == MergeInv /\ OnlyCalls /\ Called /\ Given /\ Single /\ Alone

LEMMA UserStepAlone ==
    ASSUME StatesAssumption, AloneInv, NEW u \in Users, UserStep(u)
    PROVE  Alone'
<1>1. UNCHANGED <<program, mergeAt>>
  BY DEF UserStep, sendRequest, addCallback, getState, mergeVars
<1>2. /\ \A v \in Users : Calls(v)' = Calls(v)
      /\ MergeIdle' = MergeIdle
  BY <1>1 DEF Calls, MergeIdle
<1>3. /\ requests \in Seq(Requests) /\ waiting \in [Users -> Nat \cup {Registering}]
      /\ asked \in Nat /\ program.calls[u] \in Seq(CallKinds) /\ called[u] \in Nat
  BY DEF AloneInv, MergeInv, StatesTypeOK, AskTyped
<1>4. ASSUME Calls(u) PROVE \A v \in Users \ {u} : waiting[v] = 0
  <2>1. \A v \in Users \ {u} : ~Calls(v)
    BY <1>4, SingleCaller DEF AloneInv
  <2>2. QED
    BY <2>1 DEF AloneInv, Alone
<1>5. CASE sendRequest(u)
  <2>1. waiting[u] = 0 /\ called[u] < Len(program.calls[u]) /\ out' = out /\ answers' = answers
        /\ asked' = asked + 1
    BY <1>5 DEF sendRequest
  <2>2. Calls(u)
    BY <1>3, <2>1 DEF Calls
  <2>3. \A v \in Users : waiting[v] = 0
    BY <1>4, <2>1, <2>2
  <2>4. requests = <<>> /\ MergeIdle /\ out = <<>>
    BY <2>3 DEF AloneInv, Alone
  <2>5. Called'
    BY UserStepCalled DEF AloneInv
  <2>6. waiting' = [waiting EXCEPT ![u] = asked + 1]
    <3>1. waiting'[u] # Registering
      BY <2>5 DEF Called
    <3>2. waiting' = [waiting EXCEPT ![u] = Registering] \/ waiting' = [waiting EXCEPT ![u] = asked + 1]
      BY <1>5 DEF sendRequest
    <3>3. QED
      BY <1>3, <3>1, <3>2
  <2>7. Len(requests') <= 1
    <3>1. PICK r : requests' = Append(requests, r)
      BY <1>5 DEF sendRequest
    <3>2. requests' = <<r>>
      BY <2>4, <3>1
    <3>3. QED
      BY <3>2
  <2>8. /\ waiting'[u] = asked' /\ asked' # 0
        /\ \A v \in Users \ {u} : waiting'[v] = 0
    BY <1>3, <2>1, <2>3, <2>6
  <2>9. \A v \in Users : waiting'[v] # 0 => waiting'[v] = asked'
    BY <2>8
  <2>10. \A v \in Users : ~Calls(v) => waiting'[v] = 0
    BY <2>2, <2>8
  <2>11. ~(\A v \in Users : waiting'[v] = 0)
    BY <2>8
  <2>12. \A a \in answers' : a[1] = a[2]
    BY <2>1 DEF AloneInv, Alone
  <2>13. QED
    BY <1>2, <2>1, <2>4, <2>7, <2>9, <2>10, <2>11, <2>12 DEF Alone
<1>6. CASE addCallback(u)
  BY <1>6 DEF addCallback, AloneInv, Called
<1>7. CASE getState(u)
  <2>1. /\ waiting[u] > 0 /\ out # <<>> /\ out' = <<>>
        /\ answers' = answers \cup {<<waiting[u], Head(out)>>}
        /\ waiting' = [waiting EXCEPT ![u] = 0]
        /\ requests' = requests /\ asked' = asked
    BY <1>7 DEF getState
  <2>2. waiting[u] # 0
    BY <2>1
  <2>3. waiting[u] = asked /\ Calls(u) /\ Head(out) = asked /\ requests = <<>> /\ MergeIdle
    BY <2>1, <2>2 DEF AloneInv, Alone
  <2>4. \A v \in Users : waiting'[v] = 0
    BY <1>3, <1>4, <2>1, <2>3
  <2> DEFINE new == <<waiting[u], Head(out)>>
  <2>5. new[1] = new[2]
    BY <2>3
  <2>6. \A a \in answers' : a[1] = a[2]
    BY <2>1, <2>5 DEF AloneInv, Alone
  <2>7. requests' = <<>> /\ MergeIdle' /\ Len(requests') <= 1
    BY <1>2, <2>1, <2>3
  <2>8. QED
    BY <2>1, <2>4, <2>6, <2>7 DEF Alone
<1> QED
  BY <1>5, <1>6, <1>7 DEF UserStep

LEMMA MergeStepAlone ==
    ASSUME AloneInv, Merge
    PROVE  Alone'
<1>1. UNCHANGED <<program, waiting, asked, answers>>
  BY DEF Merge, loop, takeRequest, takeState, sendState, userVars
<1>2. /\ \A v \in Users : ~Calls(v)' => waiting'[v] = 0
      /\ \A v \in Users : waiting'[v] # 0 => waiting'[v] = asked'
      /\ \A a \in answers' : a[1] = a[2]
  BY <1>1 DEF AloneInv, Alone, Calls
<1>3. requests \in Seq(Requests)
  BY DEF AloneInv, MergeInv, StatesTypeOK, AskTyped
<1>4. CASE loop
  <2>1. MergeIdle /\ MergeIdle' /\ UNCHANGED <<requests, out>>
    BY <1>4 DEF loop, MergeIdle, AloneInv, Called
  <2>2. QED
    BY <1>1, <1>2, <2>1 DEF AloneInv, Alone
<1>5. CASE takeRequest
  <2>1. requests # <<>> /\ requests' = Tail(requests) /\ out' = out
    BY <1>5 DEF takeRequest
  <2>2. /\ out = <<>> /\ Len(requests) <= 1
        /\ ~(\A u \in Users : waiting[u] = 0)
    BY <2>1 DEF AloneInv, Alone
  <2>3. requests' = <<>> /\ Len(requests') <= 1
    BY <1>3, <2>1, <2>2
  <2>4. QED
    BY <1>1, <1>2, <2>1, <2>2, <2>3 DEF Alone
<1>6. ASSUME NEW s \in Sides, takeState(s) PROVE Alone'
  <2>1. ~MergeIdle /\ ~MergeIdle' /\ UNCHANGED <<requests, out>>
    BY <1>6 DEF takeState, Sides, MergeIdle
  <2>2. QED
    BY <1>1, <1>2, <2>1 DEF AloneInv, Alone
<1>7. CASE sendState
  <2>1. /\ mergeAt = "send" /\ mergeAt' = "loop" /\ out' = <<merged[FirstSide]>>
        /\ requests' = requests
    BY <1>7 DEF sendState
  <2>2. merged[FirstSide] = current.request
    BY <2>1, FirstSideFacts DEF AloneInv, MergeInv, Merges
  <2>3. ~MergeIdle /\ MergeIdle'
    BY <2>1 DEF MergeIdle
  <2>4. /\ requests = <<>> /\ ~(\A u \in Users : waiting[u] = 0)
        /\ Len(requests) <= 1
    BY <2>3 DEF AloneInv, Alone
  <2>5. asked = current.request
    <3>1. asked = current.request + Len(requests) /\ current.request \in Nat
      BY DEF AloneInv, MergeInv, Numbered, StatesTypeOK, MergeTyped, Requests
    <3>2. QED
      BY <2>4, <3>1
  <2>6. Head(out') = asked'
    BY <1>1, <2>1, <2>2, <2>5
  <2>7. QED
    BY <1>1, <1>2, <2>1, <2>3, <2>4, <2>6 DEF Alone
<1> QED
  BY <1>4, <1>5, <1>6, <1>7 DEF Merge

LEMMA SideStepAlone ==
    ASSUME AloneInv, NEW s \in Sides, SideStep(s)
    PROVE  Alone'
BY DEF SideStep, Aggregation, newConfig, repeatState, updateStats, userVars, mergeVars,
   AloneInv, Alone, Calls, MergeIdle

----------------------------------------------------------------------------

LEMMA InitStates == ASSUME StatesAssumption PROVE StatesInit => StatesIInv
<1> SUFFICES ASSUME StatesInit PROVE StatesIInv
  OBVIOUS
<1> USE DEF StatesInit
<1>1. StatesTypeOK
  BY InitStatesTyped
<1>2. \A s \in Sides : SideFollows(s)
  BY DEF SideFollows, Ordered, UpTo, Only, NoConfig
<1>3. Merges /\ Numbered
  BY DEF Merges, Numbered, NoConfig, Sides
<1>4. Called
  BY DEF Called, NoConfig, Sides, Registering
<1>5. Given /\ Alone
  BY DEF Given, Alone, MergeIdle
<1> QED
  BY <1>1, <1>2, <1>3, <1>4, <1>5 DEF StatesIInv

LEMMA NextStates ==
    ASSUME StatesAssumption, StatesIInv, [StatesNext]_stateVars
    PROVE  StatesIInv'
<1>1. MergeInv /\ Sided
  BY DEF StatesIInv, MergeInv, Sided
<1>2. program' = program
  BY DEF StatesNext, stateVars, sendRequest, addCallback, getState, Merge, loop, takeRequest,
     takeState, sendState, Aggregation, newConfig, repeatState, updateStats, userVars
<1>3. (OnlyCalls' => OnlyCalls) /\ (Single' => Single)
  BY <1>2 DEF OnlyCalls, Single
<1>4. ASSUME NEW u \in Users, UserStep(u) PROVE StatesIInv'
  <2>1. StatesTypeOK' /\ Sided' /\ Merges' /\ Numbered'
    BY <1>1, <1>4, UserStepTyped, UserStepMerges DEF MergeInv
  <2>2. OnlyCalls => Called' /\ Given'
    BY <1>1, <1>4, UserStepCalled DEF StatesIInv
  <2>3. OnlyCalls /\ Single => Alone'
    BY <1>1, <1>4, UserStepAlone DEF StatesIInv, AloneInv
  <2>4. QED
    BY <1>3, <2>1, <2>2, <2>3 DEF StatesIInv, Sided
<1>5. CASE Merge
  <2>1. StatesTypeOK' /\ Sided' /\ Merges' /\ Numbered'
    BY <1>1, <1>5, MergeStepTyped, LoopMerges, TakeRequestMerges, TakeStateMerges, SendStateMerges
    DEF MergeInv, Merge
  <2>2. OnlyCalls => Called' /\ Given'
    BY <1>1, <1>5, MergeStepCalled DEF StatesIInv
  <2>3. OnlyCalls /\ Single => Alone'
    BY <1>1, <1>5, MergeStepAlone DEF StatesIInv, AloneInv
  <2>4. QED
    BY <1>3, <2>1, <2>2, <2>3 DEF StatesIInv, Sided
<1>6. ASSUME NEW s \in Sides, SideStep(s) PROVE StatesIInv'
  <2>1. StatesTypeOK' /\ Sided' /\ Merges' /\ Numbered'
    BY <1>1, <1>6, SideStepTyped, SideStepMerges DEF MergeInv, Sided
  <2>2. OnlyCalls => Called' /\ Given'
    BY <1>1, <1>6, SideStepCalled DEF StatesIInv
  <2>3. OnlyCalls /\ Single => Alone'
    BY <1>1, <1>6, SideStepAlone DEF StatesIInv, AloneInv
  <2>4. QED
    BY <1>3, <2>1, <2>2, <2>3 DEF StatesIInv, Sided
<1>7. CASE UNCHANGED stateVars
  BY <1>7 DEF stateVars, StatesIInv, StatesTypeOK, AskTyped, MergeTyped, SideTyped, SideFollows, Seeks,
     Merges, FirstSide, Numbered, OnlyCalls, Single, Called, Given, Alone, MergeIdle, Calls
<1> QED
  BY <1>4, <1>5, <1>6, <1>7 DEF StatesNext, UserStep, SideStep

LEMMA StatesInductive ==
    ASSUME StatesAssumption
    PROVE  StatesPromise => []StatesIInv
<1>1. StatesInit => StatesIInv
  BY InitStates
<1>2. StatesIInv /\ [StatesNext]_stateVars => StatesIInv'
  BY NextStates
<1> QED
  BY <1>1, <1>2, PTL DEF StatesPromise

\* The variables of the calls, the merge and the aggregations have their types.
THEOREM StatesTypeCorrect == StatesPromise => []StatesTypeOK
<1>1. StatesIInv => StatesTypeOK
  BY DEF StatesIInv
<1> QED
  BY <1>1, StatesAssumption, StatesInductive, PTL

\* A state that is handed to somebody is the one that was asked for: of the call
\* (PipelineStateApi.cpp:18-21), and of both sides (PipelineStateMerge.cpp:49-79).
THEOREM StatesAnswersAgree == StatesPromise => []AnswersAgree
<1>1. StatesIInv => AnswersAgree
  <2> SUFFICES ASSUME StatesIInv PROVE AnswersAgree
    OBVIOUS
  <2>1. AnswerIsMine
    BY DEF StatesIInv, AnswerIsMine, Given, Alone
  <2>2. MergedStatesAgree
    BY DEF StatesIInv, Merges, MergedStatesAgree, FirstSide, Sides
  <2>3. QED
    BY <2>1, <2>2 DEF AnswersAgree
<1> QED
  BY <1>1, StatesAssumption, StatesInductive, PTL

----------------------------------------------------------------------------
(* PipelineGraph.                                                          *)

BridgeNames == {PortName[p] : p \in Ports} \cup {QueueName[o] : o \in Outs}
Bridges == [dir : {"out", "in"}, port : Ports, open : BOOLEAN, stream : Nodes \X BridgeNames]

LinkSources == Outs \cup {XIn(b) : b \in 1 .. Len(bridges)}
LinkSinks == Ins \cup {XOut(b) : b \in 1 .. Len(bridges)}

\* The bridge a build() has made for a port leads the right way.
Bridging ==
    /\ bridges \in Seq(Bridges)
    /\ bridgeOf \in [Ports -> Nat]
    /\ \A p \in Ports : bridgeOf[p] # 0 =>
          /\ bridgeOf[p] \in 1 .. Len(bridges)
          /\ bridges[bridgeOf[p]].dir = IF p \in Outs THEN "out" ELSE "in"

\* The ends of bridges are linked on their own side.
Linking ==
    /\ conns \subseteq LinkSources \X LinkSinks
    /\ qconns \subseteq LinkSources \X Queues
    /\ \A c \in conns : c[1] \notin Outs \/ c[2] \notin Ins => (OnHost(c[1]) <=> OnHost(c[2]))
    /\ \A c \in qconns : c[1] \notin Outs => OnHost(c[1])

\* What build() has yet to bridge is in its loop.
Remaining ==
    /\ pc \in {"user", "connections", "queues"}
    /\ pc = "connections" => todo \subseteq conns /\ \A c \in conns : Crossing(c) => c \in todo
    /\ pc = "queues" =>
          /\ \A c \in conns : ~Crossing(c)
          /\ todo \subseteq qconns
          /\ \A c \in todo : c[1] \in Outs /\ ~OnHost(c[1])
          /\ \A c \in qconns : Crossing(c) => c \in todo

\* The names a build() has given are those of all bridges there are.
Naming ==
    /\ pc # "user" => ~built
    /\ ~failed =>
          /\ OpenStreamsDiffer
          /\ pc = "user" /\ ~built => bridges = <<>>
          /\ pc # "user" => \A b \in 1 .. Len(bridges) : bridges[b].stream \in names

GraphIInv == Bridging /\ Linking /\ Remaining /\ Naming

\* No bridge is taken away or changed.
BridgesKept ==
    /\ bridges \in Seq(Bridges) /\ bridges' \in Seq(Bridges)
    /\ Len(bridges) <= Len(bridges')
    /\ \A b \in 1 .. Len(bridges) : bridges'[b] = bridges[b]

LEMMA PortsAreNoEnds ==
    ASSUME GraphAssumption, NEW b \in Nat
    PROVE  /\ XIn(b) \notin Ports /\ XOut(b) \notin Ports
           /\ XIn(b) \notin Queues /\ XOut(b) \notin Queues
           /\ XIn(b)[1] = "xin" /\ XOut(b)[1] = "xout" /\ XIn(b)[2] = b /\ XOut(b)[2] = b
BY DEF GraphAssumption, XIn, XOut, Ports

LEMMA EndsOnHost ==
    ASSUME GraphAssumption, NEW b \in Nat
    PROVE  /\ OnHost(XIn(b)) <=> bridges[b].dir = "out"
           /\ OnHost(XOut(b)) <=> bridges[b].dir = "in"
           /\ OnHost(XIn(b))' <=> bridges'[b].dir = "out"
           /\ OnHost(XOut(b))' <=> bridges'[b].dir = "in"
BY PortsAreNoEnds DEF OnHost

LEMMA PortsOnHost ==
    ASSUME NEW p \in Ports
    PROVE  /\ OnHost(p) <=> Owner[p] \in HostNodes
           /\ OnHost(p)' <=> Owner[p] \in HostNodes
BY DEF OnHost

LEMMA OnHostKept ==
    ASSUME GraphAssumption, BridgesKept
    PROVE  /\ \A s \in LinkSources \cup LinkSinks : OnHost(s)' <=> OnHost(s)
           /\ LinkSources \subseteq LinkSources' /\ LinkSinks \subseteq LinkSinks'
<1>1. /\ Len(bridges) \in Nat /\ Len(bridges') \in Nat /\ Len(bridges) <= Len(bridges')
      /\ \A b \in 1 .. Len(bridges) : bridges'[b] = bridges[b]
  BY DEF BridgesKept
<1>2. \A b \in 1 .. Len(bridges) : b \in Nat /\ b \in 1 .. Len(bridges')
  BY <1>1
<1>3. ASSUME NEW s \in LinkSources \cup LinkSinks PROVE OnHost(s)' <=> OnHost(s)
  <2>1. CASE s \in Outs \cup Ins
    BY <2>1, PortsOnHost DEF Ports
  <2>2. ASSUME NEW b \in 1 .. Len(bridges), s = XIn(b) \/ s = XOut(b) PROVE OnHost(s)' <=> OnHost(s)
    BY <1>1, <1>2, <2>2, EndsOnHost
  <2>3. QED
    BY <2>1, <2>2 DEF LinkSources, LinkSinks
<1>4. LinkSources \subseteq LinkSources' /\ LinkSinks \subseteq LinkSinks'
  BY <1>2 DEF LinkSources, LinkSinks
<1> QED
  BY <1>3, <1>4

LEMMA SinksAreNoQueues ==
    ASSUME GraphAssumption, bridges \in Seq(Bridges)
    PROVE  \A x \in LinkSinks : x \notin Queues
<1>1. \A b \in 1 .. Len(bridges) : b \in Nat
  OBVIOUS
<1> QED
  BY <1>1, PortsAreNoEnds DEF LinkSinks, GraphAssumption

LEMMA Differ == \A A, B \in BOOLEAN : (A # B) <=> ~(A <=> B)
OBVIOUS

\* A connection crosses, if its ends are on different sides.
LEMMA CrossingConnection ==
    ASSUME GraphAssumption, Bridging, Linking
    PROVE  /\ \A c \in conns : Crossing(c) <=> InPipeline(c[1]) /\ ~(OnHost(c[1]) <=> OnHost(c[2]))
           /\ \A c \in qconns : Crossing(c) <=> InPipeline(c[1]) /\ ~OnHost(c[1])
<1>1. \A c \in conns : c[2] \notin Queues
  BY SinksAreNoQueues DEF Bridging, Linking
<1>2. \A c \in qconns : c[2] \in Queues
  BY DEF Linking
<1>3. ASSUME NEW s PROVE OnHost(s) \in BOOLEAN
  <2>1. CASE s \in Ports
    BY <2>1 DEF OnHost
  <2>2. CASE s \notin Ports /\ s[1] = "xin"
    BY <2>2 DEF OnHost
  <2>3. CASE s \notin Ports /\ s[1] # "xin"
    BY <2>3 DEF OnHost
  <2>4. QED
    BY <2>1, <2>2, <2>3
<1>4. ASSUME NEW c \in conns
      PROVE  Crossing(c) <=> InPipeline(c[1]) /\ ~(OnHost(c[1]) <=> OnHost(c[2]))
  <2>1. c[2] \notin Queues
    BY <1>1
  <2>2. (OnHost(c[1]) # (c[2] \in Queues \/ OnHost(c[2]))) <=> ~(OnHost(c[1]) <=> OnHost(c[2]))
    BY <1>3, <2>1, Differ
  <2>3. QED
    BY <2>2 DEF Crossing
<1>5. ASSUME NEW c \in qconns PROVE Crossing(c) <=> InPipeline(c[1]) /\ ~OnHost(c[1])
  <2>1. c[2] \in Queues
    BY <1>2
  <2>2. (OnHost(c[1]) # (c[2] \in Queues \/ OnHost(c[2]))) <=> ~OnHost(c[1])
    BY <1>3, <2>1, Differ
  <2>3. QED
    BY <2>2 DEF Crossing
<1> QED
  BY <1>4, <1>5

LEMMA CrossingConnectionNext ==
    ASSUME GraphAssumption, Bridging', Linking'
    PROVE  /\ \A c \in conns' : Crossing(c)' <=> InPipeline(c[1])' /\ ~(OnHost(c[1])' <=> OnHost(c[2])')
           /\ \A c \in qconns' : Crossing(c)' <=> InPipeline(c[1])' /\ ~OnHost(c[1])'
<1>1. \A c \in conns' : c[2] \notin Queues
  <2>1. \A b \in 1 .. Len(bridges') : b \in Nat
    BY DEF Bridging
  <2>2. \A x \in LinkSinks' : x \notin Queues
    BY <2>1, PortsAreNoEnds DEF LinkSinks, GraphAssumption
  <2>3. QED
    BY <2>2 DEF Linking
<1>2. \A c \in qconns' : c[2] \in Queues
  BY DEF Linking
<1>3. ASSUME NEW s PROVE OnHost(s)' \in BOOLEAN
  <2>1. CASE s \in Ports
    BY <2>1 DEF OnHost
  <2>2. CASE s \notin Ports /\ s[1] = "xin"
    BY <2>2 DEF OnHost
  <2>3. CASE s \notin Ports /\ s[1] # "xin"
    BY <2>3 DEF OnHost
  <2>4. QED
    BY <2>1, <2>2, <2>3
<1>4. ASSUME NEW c \in conns'
      PROVE  Crossing(c)' <=> InPipeline(c[1])' /\ ~(OnHost(c[1])' <=> OnHost(c[2])')
  <2>1. c[2] \notin Queues
    BY <1>1
  <2>2. (OnHost(c[1])' # (c[2] \in Queues \/ OnHost(c[2])')) <=> ~(OnHost(c[1])' <=> OnHost(c[2])')
    BY <1>3, <2>1, Differ
  <2>3. QED
    BY <2>2 DEF Crossing
<1>5. ASSUME NEW c \in qconns' PROVE Crossing(c)' <=> InPipeline(c[1])' /\ ~OnHost(c[1])'
  <2>1. c[2] \in Queues
    BY <1>2
  <2>2. (OnHost(c[1])' # (c[2] \in Queues \/ OnHost(c[2])')) <=> ~OnHost(c[1])'
    BY <1>3, <2>1, Differ
  <2>3. QED
    BY <2>2 DEF Crossing
<1> QED
  BY <1>4, <1>5

\* The user changes connections between his own ports only, and no bridge.
UserChange ==
    /\ pc = "user" /\ UNCHANGED <<bridges, built, local, failed>>
    /\ conns' \subseteq conns \cup Outs \X Ins /\ qconns' \subseteq qconns \cup Outs \X Queues

LEMMA UserKeepsGraph ==
    ASSUME GraphAssumption, GraphIInv, UserChange
    PROVE  GraphIInv'
<1> USE DEF UserChange
<1>1. BridgesKept
  BY DEF GraphIInv, Bridging, BridgesKept
<1>2. \A s \in LinkSources \cup LinkSinks : OnHost(s)' <=> OnHost(s)
  BY <1>1, OnHostKept
<1>3. Bridging' /\ Naming'
  BY DEF GraphIInv, Bridging, Naming, OpenStreamsDiffer, local
<1>4. LinkSources' = LinkSources /\ LinkSinks' = LinkSinks
  BY DEF LinkSources, LinkSinks
<1>5. Linking'
  <2>1. conns' \subseteq LinkSources' \X LinkSinks'
    BY <1>4 DEF GraphIInv, Linking, LinkSources, LinkSinks
  <2>2. qconns' \subseteq LinkSources' \X Queues
    BY <1>4 DEF GraphIInv, Linking, LinkSources
  <2>3. ASSUME NEW c \in conns', c[1] \notin Outs \/ c[2] \notin Ins
        PROVE  OnHost(c[1])' <=> OnHost(c[2])'
    <3>1. c \in conns
      BY <2>3
    <3>2. c[1] \in LinkSources /\ c[2] \in LinkSinks /\ (OnHost(c[1]) <=> OnHost(c[2]))
      BY <2>3, <3>1 DEF GraphIInv, Linking
    <3>3. QED
      BY <1>2, <3>2
  <2>4. ASSUME NEW c \in qconns', c[1] \notin Outs PROVE OnHost(c[1])'
    <3>1. c \in qconns
      BY <2>4
    <3>2. c[1] \in LinkSources /\ OnHost(c[1])
      BY <2>4, <3>1 DEF GraphIInv, Linking
    <3>3. QED
      BY <1>2, <3>2
  <2>5. QED
    BY <2>1, <2>2, <2>3, <2>4 DEF Linking
<1>6. Remaining'
  BY DEF Remaining, local
<1> QED
  BY <1>3, <1>5, <1>6 DEF GraphIInv

LEMMA UserStepGraph ==
    ASSUME GraphAssumption, GraphIInv,
           \/ \E n \in Nodes : addNode(n) \/ remove(n)
           \/ \E o \in Outs, i \in Ins : link(o, i) \/ unlink(o, i)
           \/ \E o \in Outs, q \in Queues : createOutputQueue(o, q)
    PROVE  GraphIInv'
<1>1. UserChange
  <2> USE DEF UserChange
  <2>1. ASSUME NEW n \in Nodes, addNode(n) \/ remove(n) PROVE UserChange
    BY <2>1 DEF addNode, remove, UserCalls, links
  <2>2. ASSUME NEW o \in Outs, NEW i \in Ins, link(o, i) \/ unlink(o, i)
        PROVE  UserChange
    BY <2>2 DEF link, unlink, UserCalls, BecomeLinks, Linked, Unlinked, Records
  <2>3. ASSUME NEW o \in Outs, NEW q \in Queues, createOutputQueue(o, q)
        PROVE  UserChange
    BY <2>3 DEF createOutputQueue, UserCalls
  <2>4. QED
    BY <2>1, <2>2, <2>3
<1> QED
  BY <1>1, UserKeepsGraph

----------------------------------------------------------------------------
(* build. *)

LEMMA NewBridgeKept ==
    ASSUME GraphAssumption, bridges \in Seq(Bridges), NEW dir \in {"out", "in"}, NEW p \in Ports,
           NEW name \in BridgeNames, NEW ok \in BOOLEAN, bridges' = NewBridge(dir, p, name, ok)
    PROVE  /\ BridgesKept /\ Len(bridges) \in Nat
           /\ Len(bridges') = Len(bridges) + 1 /\ NextBridge = Len(bridges) + 1
           /\ bridges'[Len(bridges) + 1].dir = dir /\ bridges'[Len(bridges) + 1].open = ok
           /\ bridges'[Len(bridges) + 1].stream = <<Owner[p], name>>
           /\ \A b \in 1 .. Len(bridges') : b \in 1 .. Len(bridges) \/ b = Len(bridges) + 1
<1> DEFINE b == [dir |-> dir, port |-> p, open |-> ok, stream |-> <<Owner[p], name>>]
<1>1. Owner[p] \in Nodes
  BY DEF GraphAssumption, Ports
<1>2. b \in Bridges
  BY <1>1 DEF Bridges
<1>3. bridges' = Append(bridges, b) /\ b.dir = dir /\ b.open = ok /\ b.stream = <<Owner[p], name>>
  BY DEF NewBridge
<1> HIDE DEF b
<1>4. /\ bridges' \in Seq(Bridges) /\ Len(bridges) \in Nat /\ Len(bridges') = Len(bridges) + 1
      /\ bridges'[Len(bridges) + 1] = b
      /\ \A i \in 1 .. Len(bridges) : bridges'[i] = bridges[i]
  BY <1>2, <1>3
<1> QED
  BY <1>3, <1>4 DEF BridgesKept, NextBridge

\* The bridge that is made or found.
LEMMA BridgedKept ==
    ASSUME GraphAssumption, Bridging, NEW dir \in {"out", "in"}, NEW p \in Ports,
           dir = IF p \in Outs THEN "out" ELSE "in",
           NEW name \in BridgeNames, NEW fresh \in BOOLEAN, Bridged(dir, p, name, fresh)
    PROVE  /\ Bridging' /\ BridgesKept
           /\ \E b \in 1 .. Len(bridges') : /\ b = IF fresh THEN NextBridge ELSE bridgeOf[p]
                                            /\ b \in Nat /\ bridges'[b].dir = dir
<1>1. CASE fresh
  <2>1. /\ bridges' = NewBridge(dir, p, name, TRUE)
        /\ bridgeOf' = [bridgeOf EXCEPT ![p] = NextBridge]
    BY <1>1 DEF Bridged
  <2>2. /\ BridgesKept /\ Len(bridges) \in Nat
        /\ Len(bridges') = Len(bridges) + 1 /\ NextBridge = Len(bridges) + 1
        /\ bridges'[Len(bridges) + 1].dir = dir
    BY <2>1, NewBridgeKept DEF Bridging
  <2>3. NextBridge \in 1 .. Len(bridges') /\ NextBridge \in Nat
    BY <2>2
  <2>4. bridgeOf' \in [Ports -> Nat]
    BY <2>1, <2>3 DEF Bridging
  <2>5. ASSUME NEW r \in Ports, bridgeOf'[r] # 0
        PROVE  /\ bridgeOf'[r] \in 1 .. Len(bridges')
               /\ bridges'[bridgeOf'[r]].dir = IF r \in Outs THEN "out" ELSE "in"
    <3>1. CASE r = p
      <4>1. bridgeOf'[r] = Len(bridges) + 1
        BY <2>1, <2>2, <3>1 DEF Bridging
      <4>2. QED
        BY <2>2, <2>3, <3>1, <4>1
    <3>2. CASE r # p
      <4>1. bridgeOf'[r] = bridgeOf[r]
        BY <2>1, <3>2 DEF Bridging
      <4>2. /\ bridgeOf[r] \in 1 .. Len(bridges)
            /\ bridges[bridgeOf[r]].dir = IF r \in Outs THEN "out" ELSE "in"
        BY <2>5, <4>1 DEF Bridging
      <4>3. bridgeOf[r] \in 1 .. Len(bridges') /\ bridges'[bridgeOf[r]] = bridges[bridgeOf[r]]
        BY <2>2, <4>2 DEF BridgesKept
      <4>4. QED
        BY <4>1, <4>2, <4>3
    <3>3. QED
      BY <3>1, <3>2
  <2>6. Bridging'
    BY <2>2, <2>4, <2>5 DEF Bridging, BridgesKept
  <2>7. QED
    BY <1>1, <2>2, <2>3, <2>6
<1>2. CASE ~fresh
  <2>1. UNCHANGED <<bridges, bridgeOf>> /\ bridgeOf[p] # 0
    BY <1>2 DEF Bridged
  <2>2. Bridging' /\ BridgesKept
    BY <2>1 DEF Bridging, BridgesKept
  <2>3. bridgeOf[p] \in 1 .. Len(bridges') /\ bridgeOf[p] \in Nat /\ bridges'[bridgeOf[p]].dir = dir
    BY <2>1 DEF Bridging
  <2>4. QED
    BY <1>2, <2>2, <2>3
<1> QED
  BY <1>1, <1>2

\* Its name is new, or it is one of the bridges of this build.
LEMMA BridgedNames ==
    ASSUME GraphAssumption, Bridging, NEW dir \in {"out", "in"}, NEW p \in Ports,
           NEW name \in BridgeNames, NEW fresh \in BOOLEAN, Bridged(dir, p, name, fresh),
           pc # "user", pc' # "user", built' = built, failed' = failed, Naming
    PROVE  Naming'
<1> SUFFICES ASSUME ~failed PROVE Naming'
  BY DEF Naming
<1>1. /\ OpenStreamsDiffer
      /\ \A b \in 1 .. Len(bridges) : bridges[b].stream \in names
  BY DEF Naming
<1>2. CASE fresh
  <2> DEFINE n == Len(bridges) + 1
  <2>1. /\ bridges' = NewBridge(dir, p, name, TRUE)
        /\ names' = names \cup {<<Owner[p], name>>} /\ <<Owner[p], name>> \notin names
    BY <1>2 DEF Bridged
  <2>2. /\ BridgesKept /\ Len(bridges) \in Nat /\ bridges'[n].stream = <<Owner[p], name>>
        /\ \A b \in 1 .. Len(bridges') : b \in 1 .. Len(bridges) \/ b = n
    BY <2>1, NewBridgeKept DEF Bridging
  <2> HIDE DEF n
  <2>3. \A b \in 1 .. Len(bridges) : bridges'[b] = bridges[b]
    BY <2>2 DEF BridgesKept
  <2>4. \A b \in 1 .. Len(bridges') : bridges'[b].stream \in names'
    BY <1>1, <2>1, <2>2, <2>3
  <2>5. \A b \in 1 .. Len(bridges) : bridges'[b].stream # bridges'[n].stream
    BY <1>1, <2>1, <2>2, <2>3
  <2>6. OpenStreamsDiffer'
    <3>1. ASSUME NEW b \in 1 .. Len(bridges'), NEW c \in 1 .. Len(bridges'), b # c,
                 bridges'[b].open, bridges'[c].open
          PROVE  bridges'[b].stream # bridges'[c].stream
      <4>1. CASE b = n \/ c = n
        BY <2>2, <2>5, <3>1, <4>1
      <4>2. CASE b # n /\ c # n
        <5>1. b \in 1 .. Len(bridges) /\ c \in 1 .. Len(bridges)
          BY <2>2, <4>2
        <5>2. QED
          BY <1>1, <2>3, <3>1, <5>1 DEF OpenStreamsDiffer
      <4>3. QED
        BY <4>1, <4>2
    <3>2. QED
      BY <3>1 DEF OpenStreamsDiffer
  <2>7. QED
    BY <2>4, <2>6 DEF Naming
<1>3. CASE ~fresh
  <2>1. UNCHANGED <<bridges, names>>
    BY <1>3 DEF Bridged
  <2>2. QED
    BY <1>1, <2>1 DEF Naming, OpenStreamsDiffer
<1> QED
  BY <1>2, <1>3

\* The links that remain or end at a bridge are in order, if the added ones are.
LEMMA LinkingKept ==
    ASSUME GraphAssumption, Linking, BridgesKept, NEW new, conns' \subseteq conns \cup new,
           NEW newQ, qconns' \subseteq qconns \cup newQ,
           \A c \in new : /\ c \in LinkSources' \X LinkSinks'
                          /\ OnHost(c[1])' <=> OnHost(c[2])',
           \A c \in newQ : c \in LinkSources' \X Queues /\ OnHost(c[1])'
    PROVE  Linking'
<1>1. /\ \A s \in LinkSources \cup LinkSinks : OnHost(s)' <=> OnHost(s)
      /\ LinkSources \subseteq LinkSources' /\ LinkSinks \subseteq LinkSinks'
  BY OnHostKept
<1>2. /\ conns' \subseteq LinkSources' \X LinkSinks'
      /\ qconns' \subseteq LinkSources' \X Queues
  BY <1>1 DEF Linking
<1>3. ASSUME NEW c \in conns', c[1] \notin Outs \/ c[2] \notin Ins
      PROVE  OnHost(c[1])' <=> OnHost(c[2])'
  <2>1. CASE c \in conns
    <3>1. c[1] \in LinkSources /\ c[2] \in LinkSinks /\ (OnHost(c[1]) <=> OnHost(c[2]))
      BY <1>3, <2>1 DEF Linking
    <3>2. QED
      BY <1>1, <3>1
  <2>2. CASE c \in new
    BY <2>2
  <2>3. QED
    BY <2>1, <2>2
<1>4. ASSUME NEW c \in qconns', c[1] \notin Outs PROVE OnHost(c[1])'
  <2>1. CASE c \in qconns
    <3>1. c[1] \in LinkSources /\ OnHost(c[1])
      BY <1>4, <2>1 DEF Linking
    <3>2. QED
      BY <1>1, <3>1
  <2>2. CASE c \in newQ
    BY <2>2
  <2>3. QED
    BY <2>1, <2>2
<1> QED
  BY <1>2, <1>3, <1>4 DEF Linking

LEMMA BridgeEnds ==
    ASSUME bridges' \in Seq(Bridges), NEW b \in 1 .. Len(bridges')
    PROVE  XIn(b) \in LinkSources' /\ XOut(b) \in LinkSinks' /\ b \in Nat
BY DEF LinkSources, LinkSinks

\* One turn of the first loop: c is bridged and leaves the loop.
LEMMA ConnectionVisited ==
    ASSUME GraphAssumption, GraphIInv, pc = "connections", NEW c \in todo,
           UNCHANGED <<graph, qconns, built, pc, failed>>, todo' = todo \ {c},
           BridgesKept, Bridging', Naming', NEW new, conns' = (conns \ {c}) \cup new,
           \A d \in new : /\ d \in LinkSources' \X LinkSinks'
                          /\ OnHost(d[1])' <=> OnHost(d[2])'
    PROVE  GraphIInv'
<1>1. Linking'
  <2>1. conns' \subseteq conns \cup new /\ qconns' \subseteq qconns \cup {}
    OBVIOUS
  <2>2. QED
    BY <2>1, LinkingKept DEF GraphIInv
<1>2. /\ \A s \in LinkSources \cup LinkSinks : OnHost(s)' <=> OnHost(s)
  BY OnHostKept
<1>3. todo \subseteq conns /\ \A d \in conns : Crossing(d) => d \in todo
  BY DEF GraphIInv, Remaining
<1>4. todo' \subseteq conns'
  BY <1>3
<1>5. \A s : InPipeline(s)' <=> InPipeline(s)
  BY DEF InPipeline, getAllNodes, Below, graph
<1>6. ASSUME NEW d \in conns', Crossing(d)' PROVE d \in todo'
  <2>1. InPipeline(d[1]) /\ ~(OnHost(d[1])' <=> OnHost(d[2])')
    BY <1>1, <1>5, <1>6, CrossingConnectionNext
  <2>2. d \in conns /\ d # c
    BY <2>1
  <2>3. d[1] \in LinkSources /\ d[2] \in LinkSinks
    BY <2>2 DEF GraphIInv, Linking
  <2>4. ~(OnHost(d[1]) <=> OnHost(d[2]))
    BY <1>2, <2>1, <2>3
  <2>5. Crossing(d)
    BY <2>1, <2>2, <2>4, CrossingConnection DEF GraphIInv
  <2>6. QED
    BY <1>3, <2>2, <2>5
<1>7. Remaining'
  BY <1>4, <1>6 DEF Remaining
<1> QED
  BY <1>1, <1>7 DEF GraphIInv

LEMMA BuildFailsGraph ==
    ASSUME GraphAssumption, GraphIInv, NEW dir \in {"out", "in"}, NEW p \in Ports,
           NEW name \in BridgeNames, BuildFails(dir, p, name)
    PROVE  GraphIInv'
<1>1. /\ bridges' = NewBridge(dir, p, name, FALSE) /\ pc' = "user" /\ failed' = TRUE
      /\ bridgeOf' = [x \in Ports |-> 0]
      /\ UNCHANGED <<conns, qconns>>
  BY DEF BuildFails, links
<1>2. BridgesKept
  BY <1>1, NewBridgeKept DEF GraphIInv, Bridging
<1>3. Linking'
  <2>1. conns' \subseteq conns \cup {} /\ qconns' \subseteq qconns \cup {}
    BY <1>1
  <2>2. QED
    BY <1>2, <2>1, LinkingKept DEF GraphIInv
<1>4. Bridging'
  BY <1>1, <1>2 DEF Bridging, BridgesKept
<1> QED
  BY <1>1, <1>3, <1>4 DEF GraphIInv, Remaining, Naming

LEMMA PortOfSource ==
    ASSUME GraphAssumption, GraphIInv, NEW c \in conns, ~(OnHost(c[1]) <=> OnHost(c[2]))
    PROVE  c = <<c[1], c[2]>> /\ c[1] \in Outs /\ c[2] \in Ins /\ c[1] \in Ports /\ c[2] \in Ports
BY DEF GraphIInv, Linking, Ports

LEMMA VisitConnectionGraph ==
    ASSUME GraphAssumption, GraphIInv, VisitConnection
    PROVE  GraphIInv'
<1>1. pc = "connections"
  BY DEF VisitConnection
<1>2. PICK c \in todo :
          \/ /\ ~OnHost(c[1]) /\ OnHost(c[2])
             /\ \/ BuildFails("out", c[1], PortName[c[1]])
                \/ /\ BridgeOut(c[1], c[2])
                   /\ todo' = todo \ {c}
                   /\ UNCHANGED <<graph, qconns, built, pc, failed, ops>>
          \/ /\ OnHost(c[1]) /\ ~OnHost(c[2])
             /\ \/ BuildFails("in", c[2], PortName[c[2]])
                \/ /\ BridgeIn(c[1], c[2])
                   /\ todo' = todo \ {c}
                   /\ UNCHANGED <<graph, qconns, built, pc, failed, ops>>
          \/ /\ OnHost(c[1]) = OnHost(c[2])
             /\ todo' = todo \ {c}
             /\ UNCHANGED <<graph, links, bridges, built, pc, bridgeOf, names,
                            failed, ops>>
  BY DEF VisitConnection
<1>3. c \in conns
  BY <1>1 DEF GraphIInv, Remaining
<1>4. ASSUME ~(OnHost(c[1]) <=> OnHost(c[2]))
      PROVE  /\ c = <<c[1], c[2]>> /\ c[1] \in Outs /\ c[2] \in Ins
             /\ c[1] \in Ports /\ c[2] \in Ports /\ c[2] \notin Outs
             /\ PortName[c[1]] \in BridgeNames /\ PortName[c[2]] \in BridgeNames
  BY <1>3, <1>4, PortOfSource DEF BridgeNames, GraphAssumption
<1>5. CASE ~OnHost(c[1]) /\ OnHost(c[2]) /\ BuildFails("out", c[1], PortName[c[1]])
  BY <1>4, <1>5, BuildFailsGraph
<1>6. CASE OnHost(c[1]) /\ ~OnHost(c[2]) /\ BuildFails("in", c[2], PortName[c[2]])
  BY <1>4, <1>6, BuildFailsGraph
<1>7. CASE /\ ~OnHost(c[1]) /\ OnHost(c[2]) /\ BridgeOut(c[1], c[2])
           /\ todo' = todo \ {c} /\ UNCHANGED <<graph, qconns, built, pc, failed>>
  <2>1. PICK fresh \in BOOLEAN :
            /\ Bridged("out", c[1], PortName[c[1]], fresh)
            /\ LET b == IF fresh THEN NextBridge ELSE bridgeOf[c[1]]
                   l == IF fresh THEN Linked(Records, c[1], XOut(b)) ELSE Records
               IN  BecomeLinks(Linked(Unlinked(l, c[1], c[2]), XIn(b), c[2]))
    BY <1>7 DEF BridgeOut
  <2>2. Bridging' /\ BridgesKept /\ Naming'
    BY <1>1, <1>4, <1>7, <2>1, BridgedKept, BridgedNames DEF GraphIInv
  <2>3. PICK b \in 1 .. Len(bridges') : /\ b = IF fresh THEN NextBridge ELSE bridgeOf[c[1]]
                                        /\ b \in Nat /\ bridges'[b].dir = "out"
    BY <1>4, <1>7, <2>1, BridgedKept DEF GraphIInv
  <2>4. XIn(b) \in LinkSources' /\ XOut(b) \in LinkSinks' /\ c[1] \in LinkSources' /\ c[2] \in LinkSinks'
    BY <1>4, <1>7, <2>2, <2>3, BridgeEnds DEF BridgesKept, LinkSources, LinkSinks
  <2>5. OnHost(XIn(b))' /\ ~OnHost(XOut(b))' /\ ~OnHost(c[1])' /\ OnHost(c[2])'
    BY <1>4, <1>7, <2>3, EndsOnHost, PortsOnHost
  <2> DEFINE new == (IF fresh THEN {<<c[1], XOut(b)>>} ELSE {}) \cup {<<XIn(b), c[2]>>}
  <2>6. conns' = (conns \ {c}) \cup new
    <3>1. XOut(b) # c[2]
      BY <1>4, <1>7, <2>3, PortsAreNoEnds
    <3>2. <<c[1], XOut(b)>> # <<c[1], c[2]>>
      BY <3>1
    <3>3. conns' = (((IF fresh THEN conns \cup {<<c[1], XOut(b)>>} ELSE conns) \ {<<c[1], c[2]>>})
                     \cup {<<XIn(b), c[2]>>})
      BY <2>1, <2>3 DEF BecomeLinks, Linked, Unlinked, Records
    <3>4. c = <<c[1], c[2]>>
      BY <1>4, <1>7
    <3>5. QED
      BY <3>2, <3>3, <3>4
  <2>7. \A d \in new : d \in LinkSources' \X LinkSinks' /\ (OnHost(d[1])' <=> OnHost(d[2])')
    BY <2>4, <2>5
  <2> HIDE DEF new
  <2>8. QED
    BY <1>1, <1>7, <2>2, <2>6, <2>7, ConnectionVisited
<1>8. CASE /\ OnHost(c[1]) /\ ~OnHost(c[2]) /\ BridgeIn(c[1], c[2])
           /\ todo' = todo \ {c} /\ UNCHANGED <<graph, qconns, built, pc, failed>>
  <2>1. PICK fresh \in BOOLEAN :
            /\ Bridged("in", c[2], PortName[c[2]], fresh)
            /\ LET b == IF fresh THEN NextBridge ELSE bridgeOf[c[2]]
                   l == IF fresh THEN Linked(Records, XIn(b), c[2]) ELSE Records
               IN  BecomeLinks(Linked(Unlinked(l, c[1], c[2]), c[1], XOut(b)))
    BY <1>8 DEF BridgeIn
  <2>2. Bridging' /\ BridgesKept /\ Naming'
    BY <1>1, <1>4, <1>8, <2>1, BridgedKept, BridgedNames DEF GraphIInv
  <2>3. PICK b \in 1 .. Len(bridges') : /\ b = IF fresh THEN NextBridge ELSE bridgeOf[c[2]]
                                        /\ b \in Nat /\ bridges'[b].dir = "in"
    BY <1>4, <1>8, <2>1, BridgedKept DEF GraphIInv
  <2>4. XIn(b) \in LinkSources' /\ XOut(b) \in LinkSinks' /\ c[1] \in LinkSources' /\ c[2] \in LinkSinks'
    BY <1>4, <1>8, <2>2, <2>3, BridgeEnds DEF BridgesKept, LinkSources, LinkSinks
  <2>5. ~OnHost(XIn(b))' /\ OnHost(XOut(b))' /\ OnHost(c[1])' /\ ~OnHost(c[2])'
    BY <1>4, <1>8, <2>3, EndsOnHost, PortsOnHost
  <2> DEFINE new == (IF fresh THEN {<<XIn(b), c[2]>>} ELSE {}) \cup {<<c[1], XOut(b)>>}
  <2>6. conns' = (conns \ {c}) \cup new
    <3>1. XIn(b) # c[1]
      BY <1>4, <1>8, <2>3, PortsAreNoEnds
    <3>2. <<XIn(b), c[2]>> # <<c[1], c[2]>>
      BY <3>1
    <3>3. conns' = (((IF fresh THEN conns \cup {<<XIn(b), c[2]>>} ELSE conns) \ {<<c[1], c[2]>>})
                     \cup {<<c[1], XOut(b)>>})
      BY <2>1, <2>3 DEF BecomeLinks, Linked, Unlinked, Records
    <3>4. c = <<c[1], c[2]>>
      BY <1>4, <1>8
    <3>5. QED
      BY <3>2, <3>3, <3>4
  <2>7. \A d \in new : d \in LinkSources' \X LinkSinks' /\ (OnHost(d[1])' <=> OnHost(d[2])')
    BY <2>4, <2>5
  <2> HIDE DEF new
  <2>8. QED
    BY <1>1, <1>8, <2>2, <2>6, <2>7, ConnectionVisited
<1>9. CASE /\ OnHost(c[1]) = OnHost(c[2]) /\ todo' = todo \ {c}
           /\ UNCHANGED <<graph, links, bridges, built, pc, bridgeOf, names, failed>>
  <2>1. ~Crossing(c)
    BY <1>3, <1>9, CrossingConnection DEF GraphIInv
  <2>2. Linking' /\ Bridging' /\ Naming'
    BY <1>9 DEF GraphIInv, Linking, Bridging, Naming, OpenStreamsDiffer, links, OnHost, LinkSources,
       LinkSinks
  <2>3. \A d : Crossing(d)' <=> Crossing(d)
    BY <1>9 DEF Crossing, OnHost, InPipeline, getAllNodes, Below, graph
  <2>4. Remaining'
    BY <1>1, <1>9, <2>1, <2>3 DEF GraphIInv, Remaining, links
  <2>5. QED
    BY <2>2, <2>4 DEF GraphIInv
<1> QED
  BY <1>2, <1>5, <1>6, <1>7, <1>8, <1>9

LEMMA VisitQueueGraph ==
    ASSUME GraphAssumption, GraphIInv, VisitQueue
    PROVE  GraphIInv'
<1>1. pc = "queues"
  BY DEF VisitQueue
<1>2. PICK c \in todo :
          \/ BuildFails("out", c[1], QueueName[c[1]])
          \/ /\ BridgeQueue(c[1], c[2])
             /\ todo' = todo \ {c}
             /\ UNCHANGED <<graph, built, pc, failed, ops>>
  BY DEF VisitQueue
<1>3. /\ c \in qconns /\ c[1] \in Outs /\ ~OnHost(c[1]) /\ c = <<c[1], c[2]>> /\ c[2] \in Queues
      /\ todo \subseteq qconns
  BY <1>1 DEF GraphIInv, Remaining, Linking
<1>4. c[1] \in Ports /\ QueueName[c[1]] \in BridgeNames
  BY <1>3 DEF Ports, BridgeNames
<1>5. CASE BuildFails("out", c[1], QueueName[c[1]])
  BY <1>4, <1>5, BuildFailsGraph
<1>6. CASE /\ BridgeQueue(c[1], c[2]) /\ todo' = todo \ {c}
           /\ UNCHANGED <<graph, built, pc, failed>>
  <2>1. PICK fresh \in BOOLEAN :
            /\ Bridged("out", c[1], QueueName[c[1]], fresh)
            /\ LET b == IF fresh THEN NextBridge ELSE bridgeOf[c[1]]
                   l == IF fresh THEN Linked(Records, c[1], XOut(b)) ELSE Records
               IN  /\ conns' = l.conns
                   /\ qconns' = (qconns \ {<<c[1], c[2]>>}) \cup {<<XIn(b), c[2]>>}
    BY <1>6 DEF BridgeQueue
  <2>2. Bridging' /\ BridgesKept /\ Naming'
    BY <1>1, <1>3, <1>4, <1>6, <2>1, BridgedKept, BridgedNames DEF GraphIInv
  <2>3. PICK b \in 1 .. Len(bridges') : /\ b = IF fresh THEN NextBridge ELSE bridgeOf[c[1]]
                                        /\ b \in Nat /\ bridges'[b].dir = "out"
    BY <1>3, <1>4, <2>1, BridgedKept DEF GraphIInv
  <2>4. XIn(b) \in LinkSources' /\ XOut(b) \in LinkSinks' /\ c[1] \in LinkSources'
    BY <1>3, <2>2, <2>3, BridgeEnds DEF BridgesKept, LinkSources
  <2>5. OnHost(XIn(b))' /\ ~OnHost(XOut(b))' /\ ~OnHost(c[1])'
    BY <1>3, <1>4, <2>3, EndsOnHost, PortsOnHost
  <2> DEFINE new == {<<c[1], XOut(b)>>}
             newQ == {<<XIn(b), c[2]>>}
  <2>6. conns' \subseteq conns \cup new
    BY <2>1, <2>3 DEF Linked, Records
  <2>7. qconns' = (qconns \ {c}) \cup newQ
    BY <1>3, <2>1, <2>3
  <2>8. /\ \A d \in new : d \in LinkSources' \X LinkSinks' /\ (OnHost(d[1])' <=> OnHost(d[2])')
        /\ \A d \in newQ : d \in LinkSources' \X Queues /\ OnHost(d[1])'
    BY <1>3, <2>4, <2>5
  <2> HIDE DEF new, newQ
  <2>9. Linking'
    <3>1. qconns' \subseteq qconns \cup newQ
      BY <2>7
    <3>2. QED
      BY <2>2, <2>6, <2>8, <3>1, LinkingKept DEF GraphIInv
  <2>10. \A s \in LinkSources \cup LinkSinks : OnHost(s)' <=> OnHost(s)
    BY <2>2, OnHostKept
  <2>11. \A s : InPipeline(s)' <=> InPipeline(s)
    BY <1>6 DEF InPipeline, getAllNodes, Below, graph
  <2>12. ASSUME NEW d \in conns' PROVE ~Crossing(d)'
    <3>1. CASE d \in new
      BY <2>2, <2>8, <2>9, <2>12, <3>1, CrossingConnectionNext
    <3>2. CASE d \in conns
      <4>1. ~Crossing(d) /\ d[1] \in LinkSources /\ d[2] \in LinkSinks
        BY <1>1, <3>2 DEF GraphIInv, Remaining, Linking
      <4>2. ~(InPipeline(d[1]) /\ ~(OnHost(d[1]) <=> OnHost(d[2])))
        BY <3>2, <4>1, CrossingConnection DEF GraphIInv
      <4>3. QED
        BY <2>2, <2>9, <2>10, <2>11, <2>12, <4>1, <4>2, CrossingConnectionNext
    <3>3. QED
      BY <2>6, <2>12, <3>1, <3>2
  <2>13. ASSUME NEW d \in qconns', Crossing(d)' PROVE d \in todo'
    <3>1. InPipeline(d[1]) /\ ~OnHost(d[1])'
      BY <2>2, <2>9, <2>11, <2>13, CrossingConnectionNext
    <3>2. d \in qconns /\ d # c
      BY <2>7, <2>8, <3>1
    <3>3. ~OnHost(d[1])
      BY <2>10, <3>1, <3>2 DEF GraphIInv, Linking
    <3>4. d \in todo
      BY <1>1, <3>1, <3>2, <3>3, CrossingConnection DEF GraphIInv, Remaining
    <3>5. QED
      BY <1>6, <3>2, <3>4
  <2>14. todo' \subseteq qconns' /\ \A d \in todo' : d[1] \in Outs /\ ~OnHost(d[1])'
    <3>1. todo' \subseteq qconns'
      BY <1>3, <1>6, <2>7
    <3>2. ASSUME NEW d \in todo' PROVE d[1] \in Outs /\ ~OnHost(d[1])'
      <4>1. d[1] \in Outs /\ ~OnHost(d[1])
        BY <1>1, <1>6, <3>2 DEF GraphIInv, Remaining
      <4>2. QED
        BY <2>10, <4>1 DEF LinkSources
    <3>3. QED
      BY <3>1, <3>2
  <2>15. Remaining'
    BY <1>1, <1>6, <2>12, <2>13, <2>14 DEF Remaining
  <2>16. QED
    BY <2>2, <2>9, <2>15 DEF GraphIInv
<1> QED
  BY <1>2, <1>5, <1>6

LEMMA BuildBeginsGraph ==
    ASSUME GraphAssumption, GraphIInv, BuildBegins
    PROVE  GraphIInv'
<1>1. /\ pc = "user" /\ ~built /\ pc' = "connections"
      /\ todo' = {c \in conns : InPipeline(c[1])} /\ bridgeOf' = [p \in Ports |-> 0]
      /\ UNCHANGED <<graph, conns, qconns, bridges, built, failed>>
  BY DEF BuildBegins, links
<1>2. Bridging' /\ Linking'
  BY <1>1 DEF GraphIInv, Bridging, Linking, OnHost, LinkSources, LinkSinks
<1>3. \A d : Crossing(d)' <=> Crossing(d)
  BY <1>1 DEF Crossing, OnHost, InPipeline, getAllNodes, Below, graph
<1>4. Remaining'
  BY <1>1, <1>3 DEF Remaining, Crossing
<1>5. Naming'
  <2>1. ~failed => bridges = <<>>
    BY <1>1 DEF GraphIInv, Naming
  <2>2. ~failed => \A b \in 1 .. Len(bridges') : FALSE
    BY <1>1, <2>1
  <2>3. QED
    BY <1>1, <2>2 DEF Naming, OpenStreamsDiffer
<1> QED
  BY <1>2, <1>4, <1>5 DEF GraphIInv

LEMMA ConnectionsVisitedGraph ==
    ASSUME GraphAssumption, GraphIInv, ConnectionsVisited
    PROVE  GraphIInv'
<1>1. /\ pc = "connections" /\ todo = {} /\ pc' = "queues"
      /\ todo' = {c \in qconns : c[1] \in Outs /\ ~OnHost(c[1]) /\ InPipeline(c[1])}
      /\ UNCHANGED <<graph, conns, qconns, bridges, bridgeOf, names, built, failed>>
  BY DEF ConnectionsVisited, links
<1>2. Bridging' /\ Linking' /\ Naming'
  BY <1>1 DEF GraphIInv, Bridging, Linking, Naming, OpenStreamsDiffer, OnHost, LinkSources, LinkSinks
<1>3. \A d : (Crossing(d)' <=> Crossing(d)) /\ (OnHost(d)' <=> OnHost(d))
  BY <1>1 DEF Crossing, OnHost, InPipeline, getAllNodes, Below, graph
<1>4. \A c \in conns : ~Crossing(c)
  BY <1>1 DEF GraphIInv, Remaining
<1>5. ASSUME NEW c \in qconns, Crossing(c) PROVE c \in todo'
  <2>1. InPipeline(c[1]) /\ ~OnHost(c[1])
    BY <1>5, CrossingConnection DEF GraphIInv
  <2>2. c[1] \in Outs
    BY <2>1 DEF GraphIInv, Linking
  <2>3. QED
    BY <1>1, <2>1, <2>2
<1>6. /\ todo' \subseteq qconns' /\ \A c \in todo' : c[1] \in Outs /\ ~OnHost(c[1])'
  BY <1>1, <1>3
<1>7. Remaining'
  BY <1>1, <1>3, <1>4, <1>5, <1>6 DEF Remaining
<1> QED
  BY <1>2, <1>7 DEF GraphIInv

LEMMA BuildEndsGraph ==
    ASSUME GraphAssumption, GraphIInv, BuildEnds
    PROVE  GraphIInv'
<1>1. /\ pc' = "user" /\ built' = TRUE /\ bridgeOf' = [p \in Ports |-> 0]
      /\ UNCHANGED <<conns, qconns, bridges, failed>>
  BY DEF BuildEnds, links
<1>2. Bridging' /\ Linking'
  BY <1>1 DEF GraphIInv, Bridging, Linking, OnHost, LinkSources, LinkSinks
<1>3. Naming' /\ Remaining'
  BY <1>1 DEF GraphIInv, Naming, Remaining, OpenStreamsDiffer
<1> QED
  BY <1>2, <1>3 DEF GraphIInv

LEMMA InitGraph == Init => GraphIInv
<1> SUFFICES ASSUME Init PROVE GraphIInv
  OBVIOUS
<1> USE DEF Init
<1>1. Bridging /\ Linking
  BY DEF Bridging, Linking
<1>2. Len(bridges) = 0
  OBVIOUS
<1>3. Naming
  BY <1>2 DEF Naming, OpenStreamsDiffer
<1> QED
  BY <1>1, <1>3 DEF GraphIInv, Remaining

LEMMA NextGraph ==
    ASSUME GraphAssumption, GraphIInv, [Next]_vars
    PROVE  GraphIInv'
<1>1. CASE build
  BY <1>1, BuildBeginsGraph, VisitConnectionGraph, ConnectionsVisitedGraph, VisitQueueGraph,
     BuildEndsGraph DEF build
<1>2. CASE UNCHANGED vars
  BY <1>2 DEF vars, graph, links, local, GraphIInv, Bridging, Linking, Remaining, Naming,
     OpenStreamsDiffer, LinkSources, LinkSinks, Crossing, OnHost, InPipeline, getAllNodes, Below
<1> QED
  BY <1>1, <1>2, UserStepGraph DEF Next

LEMMA GraphInductive == Spec => []GraphIInv
BY GraphAssumption, InitGraph, NextGraph, PTL DEF Spec

\* Two bridges that are open never share a stream, unless a build() threw
\* (uniqueStreamNames, Pipeline.cpp:1058-1152).
THEOREM GraphStreamsDiffer == Spec => []StreamsDifferUnlessRetried
<1>1. GraphIInv => StreamsDifferUnlessRetried
  BY DEF GraphIInv, Naming, StreamsDifferUnlessRetried
<1> QED
  BY <1>1, GraphInductive, PTL

\* When build() is done, no connection of the pipeline leads from a host node to
\* a device node or back, and no queue hangs on a device output.
THEOREM GraphBuildBridgesAll == Spec => BuildBridgesAll
<1>1. ASSUME GraphIInv, [Next]_vars, ~built, built' PROVE ~ \E c \in conns \cup qconns : Crossing(c)
  <2>1. BuildEnds
    BY <1>1 DEF Next, vars, build, addNode, remove, link, unlink, createOutputQueue, BuildBegins,
       VisitConnection, BuildFails, ConnectionsVisited, VisitQueue
  <2>2. pc = "queues" /\ todo = {}
    BY <2>1 DEF BuildEnds
  <2>3. QED
    BY <1>1, <2>2 DEF GraphIInv, Remaining
<1>2. GraphIInv /\ [Next]_vars => [~built /\ built' => ~ \E c \in conns \cup qconns : Crossing(c)]_vars
  BY <1>1
<1> QED
  BY <1>2, GraphInductive, PTL DEF Spec, BuildBridgesAll

=============================================================================

---------------------------- MODULE DeviceProofs ----------------------------
(***************************************************************************)
(* Remote procedure calls, for any number of threads and calls: the types, *)
(* that a call's response is shifted by exactly the calls given up before, *)
(* and that until one gives up every call is handed its own response.      *)
(*                                                                         *)
(* The queue of telemetry events, for any sizes of queue and batch: that   *)
(* no event vanishes, and that they are posted in order.  What Without     *)
(* returns is shown by induction, as the smallest counterexample; files    *)
(* are numbered as their events are, so that a sequence of them is known   *)
(* by its elements.                                                        *)
(***************************************************************************)
EXTENDS RpcClient, TelemetryQueue, SequenceTheorems, WellFoundedInduction, TLAPS

\* rpcMutex is held from before the write until after the read.
Owned == \A c \in Callers : pc[c] \in {"write", "read"} <=> rpcMutex = c

\* The request a reading thread waits for was the last one.
Latest == \A c \in Callers : pc[c] = "read" => mine[c] = sent

\* What is unread are the latest requests, in order.
InOrder ==
    /\ Len(requests) + Len(replies) <= sent
    /\ \A i \in 1..Len(requests) : requests[i] = sent - Len(requests) + i
    /\ \A i \in 1..Len(replies) :
          replies[i] = sent - Len(requests) - Len(replies) + i

\* The inductive invariant.
IInv == TypeOK /\ Owned /\ Latest /\ InOrder /\ ResponsesAccounted

LEMMA InitIInv == Init => IInv
BY RpcAssumption, SMT DEF Init, IInv, TypeOK, Owned, Latest, InOrder, ResponsesAccounted

\* A transmission: the stream stays typed, and in order with the new request
\* as its last.
LEMMA TransmitInOrder ==
    ASSUME TypeOK, InOrder, Transmit, UNCHANGED replies
    PROVE  /\ sent' \in Nat /\ sent' = sent + 1
           /\ requests' \in Seq(1..sent')
           /\ replies' \in Seq(1..sent')
           /\ Len(requests') = Len(requests) + 1
           /\ InOrder'
<1> DEFINE n == sent + 1
<1>1. /\ sent \in Nat /\ sent' = n /\ n \in Nat /\ n \in 1..n
      /\ requests \in Seq(1..n) /\ replies' \in Seq(1..n)
  <2>1. 1..sent \subseteq 1..n /\ sent \in Nat
    BY DEF TypeOK
  <2>2. requests \in Seq(1..n) /\ replies \in Seq(1..n)
    BY <2>1, SeqMonotonic DEF TypeOK
  <2> QED
    BY <2>1, <2>2 DEF Transmit
<1> HIDE DEF n
<1>2. /\ requests' = Append(requests, n)
      /\ requests' \in Seq(1..n)
      /\ Len(requests') = Len(requests) + 1
      /\ \A i \in 1..Len(requests) : requests'[i] = requests[i]
      /\ requests'[Len(requests) + 1] = n
  BY <1>1, AppendProperties DEF Transmit, n
<1>3. Len(requests) \in Nat /\ Len(replies) \in Nat /\ replies' = replies
  BY DEF TypeOK
<1>4. Len(requests') + Len(replies') <= sent'
  BY <1>1, <1>2, <1>3 DEF InOrder, n
<1>5. ASSUME NEW i \in 1..Len(requests')
      PROVE  requests'[i] = sent' - Len(requests') + i
  <2>1. CASE i = Len(requests) + 1
    BY <1>1, <1>2, <1>3, <2>1
  <2>2. CASE i \in 1..Len(requests)
    BY <1>1, <1>2, <1>3, <2>2 DEF InOrder, n
  <2> QED
    BY <1>2, <1>3, <2>1, <2>2
<1>6. ASSUME NEW i \in 1..Len(replies')
      PROVE  replies'[i] = sent' - Len(requests') - Len(replies') + i
  BY <1>1, <1>2, <1>3 DEF InOrder, n
<1>7. InOrder'
  BY <1>4, <1>5, <1>6 DEF InOrder
<1> QED
  BY <1>1, <1>2, <1>7 DEF n

\* At most one thread reads, and while it does a thread at "write" is none.
LEMMA OneReads ==
    ASSUME Owned, NEW c \in Callers, pc[c] \in {"write", "read"}
    PROVE  \A d \in Callers : pc[d] \in {"write", "read"} => d = c
BY DEF Owned

LEMMA NextIInv == IInv /\ [Next]_vars => IInv'
<1> SUFFICES ASSUME IInv, [Next]_vars PROVE IInv'
  OBVIOUS
<1> USE RpcAssumption
<1>1. ASSUME NEW c \in Callers, rpcCall(c) PROVE IInv'
  BY <1>1, SMT DEF rpcCall, IInv, TypeOK, Owned, Latest, InOrder, ResponsesAccounted, stream, history
<1>2. ASSUME NEW c \in Callers, lock(c) PROVE IInv'
  BY <1>2, SMT DEF lock, IInv, TypeOK, Owned, Latest, InOrder, ResponsesAccounted, stream, history
<1>3. ASSUME NEW c \in Callers, write(c) PROVE IInv'
  <2>1. /\ sent' \in Nat /\ sent' = sent + 1
        /\ requests' \in Seq(1..sent') /\ replies' \in Seq(1..sent')
        /\ Len(requests') = Len(requests) + 1
        /\ InOrder'
    BY <1>3, TransmitInOrder DEF write, IInv
  <2>2. \A d \in Callers : pc[d] \in {"write", "read"} => d = c
    BY <1>3, OneReads DEF write, IInv
  <2>3. TypeOK'
    BY <1>3, <2>1, SMT DEF write, IInv, TypeOK, history
  <2>4. Owned' /\ Latest'
    BY <1>3, <2>1, <2>2, SMT DEF write, IInv, TypeOK, Owned, Latest
  <2>5. ResponsesAccounted'
    BY <1>3, <2>1, <2>2, SMT DEF write, IInv, TypeOK, ResponsesAccounted, history
  <2> QED
    BY <2>1, <2>3, <2>4, <2>5 DEF IInv
<1>4. ASSUME NEW c \in Callers, writeTimesOut(c) PROVE IInv'
  <2>1. \A d \in Callers : pc[d] \in {"write", "read"} => d = c
    BY <1>4, OneReads DEF writeTimesOut, IInv
  <2>2. UNCHANGED <<timed, mine, calls, replies, link, writeTimed, lag>> /\ Return(c)
    BY <1>4 DEF writeTimesOut
  <2>3. CASE Transmit /\ abandoned' = abandoned + 1
    <3>1. /\ sent' \in Nat /\ sent' = sent + 1
          /\ requests' \in Seq(1..sent') /\ replies' \in Seq(1..sent')
          /\ Len(requests') = Len(requests) + 1
          /\ InOrder'
      BY <1>4, <2>3, TransmitInOrder DEF writeTimesOut, IInv
    <3>2. TypeOK'
      BY <2>2, <2>3, <3>1, SMT DEF Return, IInv, TypeOK
    <3>3. Owned' /\ Latest'
      BY <1>4, <2>1, <3>1, SMT DEF writeTimesOut, Return, IInv, TypeOK, Owned, Latest
    <3>4. ResponsesAccounted'
      BY <1>4, <2>1, <2>3, <3>1, SMT DEF writeTimesOut, Return, IInv, TypeOK, ResponsesAccounted
    <3> QED
      BY <3>1, <3>2, <3>3, <3>4 DEF IInv
  <2>4. CASE UNCHANGED <<sent, requests, abandoned>>
    <3>1. TypeOK' /\ InOrder'
      BY <2>2, <2>4, SMT DEF Return, IInv, TypeOK, InOrder
    <3>2. Owned' /\ Latest' /\ ResponsesAccounted'
      BY <1>4, <2>1, <2>4, SMT DEF writeTimesOut, Return, IInv, TypeOK, Owned, Latest, ResponsesAccounted
    <3> QED
      BY <3>1, <3>2 DEF IInv
  <2> QED
    BY <1>4, <2>3, <2>4 DEF writeTimesOut
<1>5. ASSUME NEW c \in Callers, read(c) PROVE IInv'
  <2>1. \A d \in Callers : pc[d] \in {"write", "read"} => d = c
    BY <1>5, OneReads DEF read, IInv
  <2>2. /\ replies' \in Seq(1..sent) /\ Head(replies) \in 1..sent
        /\ Len(replies) \in Nat \ {0}
        /\ Len(replies') = Len(replies) - 1
        /\ \A i \in 1..Len(replies') : replies'[i] = replies[i + 1]
    BY <1>5, HeadTailProperties DEF read, IInv, TypeOK
  <2>3. TypeOK'
    BY <1>5, <2>2, SMT DEF read, Return, IInv, TypeOK
  <2>4. InOrder'
    BY <1>5, <2>2, SMT DEF read, IInv, TypeOK, InOrder
  <2>5. Owned' /\ Latest'
    BY <1>5, <2>1, SMT DEF read, Return, IInv, TypeOK, Owned, Latest
  <2>6. ResponsesAccounted'
    BY <1>5, <2>1, <2>2, SMT DEF read, Return, IInv, TypeOK, ResponsesAccounted
  <2> QED
    BY <2>3, <2>4, <2>5, <2>6 DEF IInv
<1>6. ASSUME NEW c \in Callers, readTimesOut(c) PROVE IInv'
  <2>1. \A d \in Callers : pc[d] \in {"write", "read"} => d = c
    BY <1>6, OneReads DEF readTimesOut, IInv
  <2>2. Len(requests) \in Nat /\ Len(replies) \in Nat
    BY DEF IInv, TypeOK
  <2>3. abandoned + 1 <= sent
    BY <1>6, <2>2, SMT DEF readTimesOut, IInv, TypeOK, InOrder, ResponsesAccounted
  <2>4. TypeOK' /\ InOrder'
    BY <1>6, <2>3, SMT DEF readTimesOut, Return, IInv, TypeOK, InOrder, stream
  <2>5. Owned' /\ Latest'
    BY <1>6, <2>1, SMT DEF readTimesOut, Return, IInv, TypeOK, Owned, Latest, stream
  <2>6. ResponsesAccounted'
    BY <1>6, <2>1, <2>2, SMT DEF readTimesOut, Return, IInv, TypeOK, ResponsesAccounted, stream
  <2> QED
    BY <2>4, <2>5, <2>6 DEF IInv
<1>7. ASSUME NEW c \in Callers, throws(c) PROVE IInv'
  BY <1>7, SMT DEF throws, Return, IInv, TypeOK, Owned, Latest, InOrder, ResponsesAccounted, stream, history
<1>8. CASE answer
  <2>1. /\ requests' \in Seq(1..sent) /\ Head(requests) \in 1..sent
        /\ Head(requests) = requests[1]
        /\ Len(requests) \in Nat \ {0}
        /\ Len(requests') = Len(requests) - 1
        /\ \A i \in 1..Len(requests') : requests'[i] = requests[i + 1]
    BY <1>8, HeadTailProperties DEF answer, IInv, TypeOK
  <2>2. /\ replies' \in Seq(1..sent)
        /\ Len(replies) \in Nat
        /\ Len(replies') = Len(replies) + 1
        /\ \A i \in 1..Len(replies) : replies'[i] = replies[i]
        /\ replies'[Len(replies) + 1] = requests[1]
    BY <1>8, <2>1, AppendProperties DEF answer, IInv, TypeOK
  <2>3. TypeOK'
    BY <1>8, <2>1, <2>2, SMT DEF answer, IInv, TypeOK, history
  <2>4. InOrder'
    <3>1. Len(requests') + Len(replies') <= sent' /\ sent \in Nat /\ sent' = sent
      BY <1>8, <2>1, <2>2 DEF answer, IInv, TypeOK, InOrder
    <3>2. ASSUME NEW i \in 1..Len(requests')
          PROVE  requests'[i] = sent' - Len(requests') + i
      BY <2>1, <3>1 DEF IInv, InOrder
    <3>3. ASSUME NEW i \in 1..Len(replies')
          PROVE  replies'[i] = sent' - Len(requests') - Len(replies') + i
      <4>1. CASE i = Len(replies) + 1
        BY <2>1, <2>2, <3>1, <4>1 DEF IInv, InOrder
      <4>2. CASE i \in 1..Len(replies)
        BY <2>1, <2>2, <3>1, <4>2 DEF IInv, InOrder
      <4> QED
        BY <2>2, <4>1, <4>2
    <3> QED
      BY <3>1, <3>2, <3>3 DEF InOrder
  <2>5. Owned' /\ Latest'
    BY <1>8 DEF answer, IInv, Owned, Latest, history
  <2>6. ResponsesAccounted'
    BY <1>8, <2>1, <2>2 DEF answer, IInv, ResponsesAccounted, history
  <2> QED
    BY <2>3, <2>4, <2>5, <2>6 DEF IInv
<1>9. CASE closeConnection
  <2>1. TypeOK' /\ Owned' /\ Latest'
    BY <1>9 DEF closeConnection, IInv, TypeOK, Owned, Latest, stream, history
  <2>2. InOrder'
    BY <1>9 DEF closeConnection, IInv, InOrder, stream
  <2>3. ResponsesAccounted'
    BY <1>9 DEF closeConnection, ResponsesAccounted
  <2> QED
    BY <2>1, <2>2, <2>3 DEF IInv
<1>10. CASE stall
  BY <1>10 DEF stall, IInv, TypeOK, Owned, Latest, InOrder, ResponsesAccounted, stream, history
<1>11. CASE UNCHANGED vars
  BY <1>11, SMT DEF vars, IInv, TypeOK, Owned, Latest, InOrder, ResponsesAccounted, stream, history
<1> QED
  BY <1>1, <1>2, <1>3, <1>4, <1>5, <1>6, <1>7, <1>8, <1>9, <1>10, <1>11 DEF Next, Step

\* Every reachable state satisfies the inductive invariant.
THEOREM RpcInvariance == Spec => []IInv
<1>1. Init => IInv
  BY InitIInv
<1>2. IInv /\ [Next]_vars => IInv'
  BY NextIInv
<1> QED
  BY <1>1, <1>2, PTL DEF Spec

\* The state of the RPC client is of its type.
THEOREM RpcTypeCorrect == Spec => []TypeOK
<1>1. IInv => TypeOK
  BY DEF IInv
<1> QED
  BY <1>1, RpcInvariance, PTL

\* Each response on the stream or to come is that of an abandoned call or of
\* the one call that is reading: nothing is answered twice or unasked.
THEOREM RpcResponsesAccounted == Spec => []ResponsesAccounted
<1>1. IInv => ResponsesAccounted
  BY DEF IInv
<1> QED
  BY <1>1, RpcInvariance, PTL

\* The response that is read is as old as there are abandoned calls.
LEMMA ReadLag ==
    ASSUME IInv, NEW c \in Callers, read(c)
    PROVE  lag'[c] = abandoned
<1>1. /\ Len(requests) \in Nat /\ Len(replies) \in Nat \ {0}
      /\ Head(replies) = replies[1]
      /\ sent \in Nat /\ abandoned \in Nat
  BY HeadTailProperties DEF read, IInv, TypeOK
<1>2. Head(replies) = sent - Len(requests) - Len(replies) + 1
  BY <1>1 DEF IInv, InOrder
<1>3. Len(requests) + Len(replies) = abandoned + 1
  BY <1>1 DEF read, IInv, ResponsesAccounted
<1>4. mine[c] = sent
  BY DEF read, IInv, Latest
<1>5. lag'[c] = mine[c] - Head(replies)
  BY DEF read, IInv, TypeOK
<1> QED
  BY <1>1, <1>2, <1>3, <1>4, <1>5

\* A call is handed the response to the call made as many calls before it as
\* were given up until then.
THEOREM RpcLateByAbandoned == Spec => LateByAbandoned
<1> DEFINE Late == \A c \in Callers :
               pc[c] = "read" /\ pc'[c] = "idle" /\ Len(replies') < Len(replies)
                   => lag'[c] = abandoned
<1>1. IInv /\ [Next]_vars => [Late]_vars
  <2> SUFFICES ASSUME IInv, Next, NEW c \in Callers,
                      pc[c] = "read", pc'[c] = "idle",
                      Len(replies') < Len(replies)
               PROVE  lag'[c] = abandoned
    OBVIOUS
  <2>1. Len(replies) \in Nat /\ replies' # replies
    BY DEF IInv, TypeOK
  <2>2. ~answer
    BY <2>1 DEF answer, IInv, TypeOK
  <2>3. ASSUME NEW d \in Callers, read(d) PROVE lag'[c] = abandoned
    <3>1. d = c
      BY <2>3, OneReads DEF read, IInv
    <3> QED
      BY <2>3, <3>1, ReadLag
  <2>4. ASSUME NEW d \in Callers PROVE ~rpcCall(d)
    BY <2>1 DEF rpcCall, stream
  <2>5. ASSUME NEW d \in Callers, Step(d) PROVE read(d)
    BY <2>1, <2>5 DEF Step, lock, write, writeTimesOut, readTimesOut, throws, stream
  <2>6. ~closeConnection /\ ~stall
    BY <2>1 DEF closeConnection, stall, stream
  <2> QED
    BY <2>2, <2>3, <2>4, <2>5, <2>6 DEF Next
<1> QED
  BY <1>1, RpcInvariance, PTL DEF Spec, LateByAbandoned

\* The promise on rpcMutex is kept until the first call gives up, and for
\* every number of threads: with no abandoned call a response is no later than
\* its own request.
THEOREM RpcMatchUntilAbandoned == Spec => []MatchUntilAbandoned
<1> DEFINE J == IInv /\ MatchUntilAbandoned
<1>1. Init => J
  BY InitIInv DEF Init, MatchUntilAbandoned, ResponsesMatch
<1>2. J /\ [Next]_vars => J'
  <2> SUFFICES ASSUME J, [Next]_vars PROVE J'
    OBVIOUS
  <2>1. IInv'
    BY NextIInv
  <2>2. ASSUME NEW c \in Callers, read(c) PROVE J'
    <3>1. lag'[c] = abandoned
      BY <2>2, ReadLag
    <3> QED
      BY <2>1, <2>2, <3>1 DEF read, MatchUntilAbandoned, ResponsesMatch
  <2>3. ASSUME NEW c \in Callers, writeTimesOut(c) \/ readTimesOut(c) PROVE J'
    <3>1. abandoned \in Nat
      BY DEF IInv, TypeOK
    <3> QED
      BY <2>1, <2>3, <3>1 DEF writeTimesOut, readTimesOut, MatchUntilAbandoned, ResponsesMatch
  <2>4. ASSUME NEW c \in Callers, rpcCall(c) \/ lock(c) \/ write(c) \/ throws(c) PROVE J'
    BY <2>1, <2>4 DEF rpcCall, lock, write, throws, history, MatchUntilAbandoned, ResponsesMatch
  <2>5. CASE answer \/ stall \/ closeConnection \/ UNCHANGED vars
    BY <2>1, <2>5 DEF answer, stall, closeConnection, vars, history, MatchUntilAbandoned, ResponsesMatch
  <2> QED
    BY <2>2, <2>3, <2>4, <2>5 DEF Next, Step
<1>3. J => MatchUntilAbandoned
  OBVIOUS
<1> QED
  BY <1>1, <1>2, <1>3, PTL DEF Spec

----------------------------------------------------------------------------
(* The queue of telemetry events.                                          *)

Increasing(s) == \A i, j \in DOMAIN s : i < j => s[i] < s[j]

\* The types of the queue and its worker.
QueueTyped ==
    /\ made \in Nat
    /\ queuedFiles \in Seq(1 .. made) /\ batchFiles \in Seq(1 .. made)
    /\ events \in Seq(1 .. made)
    /\ settled \subseteq 1 .. made /\ onDisk \subseteq 1 .. made
    /\ invalidFiles \subseteq 1 .. made /\ deletableFiles \subseteq 1 .. made
    /\ lastPost \in (0 .. made) \X {"final", "retry"}
    /\ worker \in {"wait", "take", "read", "post", "finish", "ended", "cleaned"}
    /\ {stopRequested, flushRequested, due, paused, final, shouldRetry} \subseteq BOOLEAN
    /\ reading \in Nat \ {0} /\ index \in Nat \ {0}
    /\ Len(queuedFiles) <= maxQueueSize

\* Files are kept in the order of their events.
QueueOrdered == Increasing(queuedFiles) /\ Increasing(batchFiles) /\ Increasing(events)

\* Outside of a flush its variables are as at its start.
Unflushed ==
    worker \notin {"read", "post", "finish"} =>
        /\ batchFiles = <<>> /\ events = <<>> /\ invalidFiles = {} /\ deletableFiles = {}
        /\ index = 1 /\ reading = 1 /\ shouldRetry = FALSE

\* What was read of a batch is an event or an invalid file.
BatchRead ==
    worker = "read" =>
        /\ index = 1 /\ deletableFiles = {} /\ shouldRetry = FALSE
        /\ reading <= Len(batchFiles) + 1
        /\ LET seen == {batchFiles[j] : j \in 1 .. reading - 1} IN
            /\ invalidFiles \subseteq seen
            /\ ToSet(events) = seen \ invalidFiles

\* The events that are posted are those of the files next to them, and those
\* before index were answered for good.
BatchPosted ==
    worker \in {"post", "finish"} =>
        /\ events = batchFiles
        /\ index <= Len(events) + 1
        /\ deletableFiles = {events[j] : j \in 1 .. index - 1}
        /\ deletableFiles \subseteq settled
        /\ worker = "post" => index <= Len(events) /\ shouldRetry = FALSE
        /\ worker = "finish" => shouldRetry \/ index = Len(events) + 1

\* No file came before one of the batch into the queue.
BatchIsFront ==
    \A f \in ToSet(queuedFiles), b \in ToSet(batchFiles) :
        f <= b => f \in ToSet(batchFiles)

\* What is still to be posted comes after the last post, or is tried again.
MayFollow(f) == lastPost[1] < f \/ lastPost = <<f, "retry">>
ToBePosted ==
    /\ \A f \in ToSet(queuedFiles) : MayFollow(f) \/ f \in deletableFiles
    /\ worker = "read" => \A f \in ToSet(batchFiles) : MayFollow(f)
    /\ worker = "post" => \A j \in index .. Len(events) : MayFollow(events[j])

\* The inductive invariant.
QueueIInv ==
    /\ QueueTyped /\ QueueOrdered /\ Unflushed /\ BatchRead /\ BatchPosted
    /\ BatchIsFront /\ ToBePosted /\ EventsAreKept

LEMMA LeastNumber ==
    ASSUME NEW T, T \subseteq Nat, T # {}
    PROVE  \E n \in T : \A m \in T : n <= m
<1> DEFINE R == OpToRel(<, Nat)
<1>1. IsWellFoundedOn(R, Nat)
  BY NatLessThanWellFounded
<1>2. \A x, y \in Nat : x < y => <<x, y>> \in R
  BY DEF OpToRel
<1> HIDE DEF R
<1>3. PICK n \in T : \A m \in T : ~(<<m, n>> \in R)
  BY <1>1, WFMin
<1>4. n \in Nat /\ \A m \in T : m \in Nat /\ ~(m < n)
  BY <1>2, <1>3
<1> QED
  BY <1>3, <1>4

\* One entry of the function that Without computes, from the one before.
LeftAfter(s, gone, f, i) ==
    IF i = 0 THEN <<>>
    ELSE IF s[i] \in gone THEN f[i - 1] ELSE Append(f[i - 1], s[i])

LEMMA LeftExists ==
    ASSUME NEW s, NEW gone, NEW n \in Nat
    PROVE  \E f : f = [i \in 0 .. n |-> LeftAfter(s, gone, f, i)]
<1> DEFINE Defined(m) == \E f : f = [i \in 0 .. m |-> LeftAfter(s, gone, f, i)]
           T == {m \in Nat : ~Defined(m)}
<1>1. Defined(0)
  <2> DEFINE f == [i \in {0} |-> <<>>]
  <2>1. f = [i \in 0 .. 0 |-> LeftAfter(s, gone, f, i)]
    BY DEF LeftAfter
  <2> QED
    BY <2>1
<1>2. ASSUME NEW m \in Nat, Defined(m)
      PROVE  Defined(m + 1)
  <2>1. PICK f : f = [i \in 0 .. m |-> LeftAfter(s, gone, f, i)]
    BY <1>2
  <2> DEFINE g == [i \in 0 .. m + 1 |->
                     IF i <= m THEN f[i] ELSE LeftAfter(s, gone, f, m + 1)]
  <2>2. ASSUME NEW i \in 0 .. m + 1
        PROVE  g[i] = LeftAfter(s, gone, g, i)
    <3>1. CASE i = 0
      <4>1. f[0] = LeftAfter(s, gone, f, 0)
        BY <2>1
      <4> QED
        BY <3>1, <4>1 DEF LeftAfter
    <3>2. CASE i # 0
      <4>1. i - 1 \in 0 .. m /\ g[i - 1] = f[i - 1]
        BY <3>2
      <4>2. g[i] = LeftAfter(s, gone, f, i)
        <5>1. CASE i <= m
          <6>1. f[i] = LeftAfter(s, gone, f, i)
            BY <2>1, <5>1
          <6> QED
            BY <5>1, <6>1
        <5>2. CASE i = m + 1
          BY <5>2
        <5> QED
          BY <5>1, <5>2
      <4> QED
        BY <3>2, <4>1, <4>2 DEF LeftAfter
    <3> QED
      BY <3>1, <3>2
  <2>3. g = [i \in 0 .. m + 1 |-> LeftAfter(s, gone, g, i)]
    <3> DEFINE h == [i \in 0 .. m + 1 |-> LeftAfter(s, gone, g, i)]
    <3>1. \A i \in 0 .. m + 1 : g[i] = h[i]
      BY <2>2
    <3>2. g = h
      BY <3>1
    <3> QED
      BY <3>2
  <2> QED
    BY <2>3
<1>3. T = {}
  <2> SUFFICES ASSUME T # {} PROVE FALSE
    OBVIOUS
  <2>1. PICK m \in T : \A k \in T : m <= k
    BY LeastNumber
  <2>2. m # 0
    BY <1>1
  <2>3. m - 1 \in Nat /\ m - 1 \notin T
    BY <2>1, <2>2
  <2>4. Defined(m - 1 + 1)
    BY <1>2, <2>3
  <2> QED
    BY <2>1, <2>4
<1> QED
  BY <1>3

LEMMA LeftSteps ==
    ASSUME NEW s, NEW gone, Len(s) \in Nat
    PROVE  \E f : /\ Without(s, gone) = f[Len(s)]
                  /\ \A i \in 0 .. Len(s) : f[i] = LeftAfter(s, gone, f, i)
<1> DEFINE f == CHOOSE g : g = [i \in 0 .. Len(s) |-> LeftAfter(s, gone, g, i)]
<1>1. f = [i \in 0 .. Len(s) |-> LeftAfter(s, gone, f, i)]
  <2>1. \E g : g = [i \in 0 .. Len(s) |-> LeftAfter(s, gone, g, i)]
    BY LeftExists
  <2> QED
    BY <2>1
<1>2. Without(s, gone) = f[Len(s)]
  BY DEF Without, LeftAfter
<1> HIDE DEF f
<1> QED
  BY <1>1, <1>2

LEMMA ToSetAppend ==
    ASSUME NEW S, NEW s \in Seq(S), NEW x \in S
    PROVE  ToSet(Append(s, x)) = ToSet(s) \cup {x}
<1>1. /\ Append(s, x) \in Seq(S) /\ Len(Append(s, x)) = Len(s) + 1
      /\ \A i \in 1 .. Len(s) : Append(s, x)[i] = s[i]
      /\ Append(s, x)[Len(s) + 1] = x
  BY AppendProperties
<1>2. DOMAIN s = 1 .. Len(s) /\ Len(s) \in Nat
      /\ DOMAIN Append(s, x) = 1 .. Len(s) + 1
  BY <1>1
<1> QED
  BY <1>1, <1>2 DEF ToSet

LEMMA IncreasingAppend ==
    ASSUME NEW S, S \subseteq Nat, NEW s \in Seq(S), NEW x \in S,
           Increasing(s), \A y \in ToSet(s) : y < x
    PROVE  Increasing(Append(s, x))
<1>1. /\ Append(s, x) \in Seq(S) /\ Len(Append(s, x)) = Len(s) + 1
      /\ \A i \in 1 .. Len(s) : Append(s, x)[i] = s[i]
      /\ Append(s, x)[Len(s) + 1] = x
  BY AppendProperties
<1>2. DOMAIN s = 1 .. Len(s) /\ Len(s) \in Nat
      /\ DOMAIN Append(s, x) = 1 .. Len(s) + 1
  BY <1>1
<1>3. \A i \in 1 .. Len(s) : s[i] < x
  BY <1>2 DEF ToSet
<1>4. \A i, j \in 1 .. Len(s) : i < j => s[i] < s[j]
  BY <1>2 DEF Increasing
<1> QED
  BY <1>1, <1>2, <1>3, <1>4 DEF Increasing

\* What Without returns: the rest of the files, in their order.
LEMMA WithoutIsRest ==
    ASSUME NEW S, S \subseteq Nat, NEW s \in Seq(S), NEW gone
    PROVE  /\ Without(s, gone) \in Seq(S)
           /\ ToSet(Without(s, gone)) = ToSet(s) \ gone
           /\ Len(Without(s, gone)) <= Len(s)
           /\ Increasing(s) => Increasing(Without(s, gone))
<1>1. Len(s) \in Nat /\ DOMAIN s = 1 .. Len(s) /\ \A i \in 1 .. Len(s) : s[i] \in S
  OBVIOUS
<1>2. PICK f : /\ Without(s, gone) = f[Len(s)]
               /\ \A i \in 0 .. Len(s) : f[i] = LeftAfter(s, gone, f, i)
  BY <1>1, LeftSteps
<1> DEFINE Upto(i) == {s[j] : j \in 1 .. i}
           Rest(i) == /\ f[i] \in Seq(S)
                      /\ ToSet(f[i]) = Upto(i) \ gone
                      /\ Len(f[i]) <= i
                      /\ Increasing(s) => Increasing(f[i])
           T == {i \in 0 .. Len(s) : ~Rest(i)}
<1>3. Rest(0)
  <2>1. f[0] = <<>>
    BY <1>1, <1>2 DEF LeftAfter
  <2>2. Upto(0) = {}
    OBVIOUS
  <2>3. ToSet(<<>>) = {} /\ <<>> \in Seq(S) /\ Len(<<>>) = 0 /\ Increasing(<<>>)
    BY DEF ToSet, Increasing
  <2> QED
    BY <2>1, <2>2, <2>3
<1>4. ASSUME NEW i \in 0 .. Len(s) - 1, Rest(i)
      PROVE  Rest(i + 1)
  <2>1. i + 1 \in 1 .. Len(s) /\ i + 1 # 0 /\ i + 1 - 1 = i /\ i + 1 \in 0 .. Len(s)
    BY <1>1
  <2> DEFINE x == s[i + 1]
  <2>2. x \in S
    BY <1>1, <2>1
  <2>3. Upto(i + 1) = Upto(i) \cup {x}
    BY <1>1, <2>1
  <2>4. f[i + 1] = IF x \in gone THEN f[i] ELSE Append(f[i], x)
    BY <1>2, <2>1 DEF LeftAfter
  <2>5. Len(f[i]) \in Nat /\ Len(f[i]) <= i + 1 /\ i \in Nat
    BY <1>1, <1>4
  <2>6. CASE x \in gone
    <3>1. f[i + 1] = f[i]
      BY <2>4, <2>6
    <3>2. Upto(i + 1) \ gone = Upto(i) \ gone
      BY <2>3, <2>6
    <3> HIDE DEF Upto, x
    <3> QED
      BY <1>4, <2>5, <3>1, <3>2
  <2>7. CASE x \notin gone
    <3>1. f[i + 1] = Append(f[i], x)
      BY <2>4, <2>7
    <3>2. Upto(i + 1) \ gone = (Upto(i) \ gone) \cup {x}
      BY <2>3, <2>7
    <3>3. ASSUME Increasing(s)
          PROVE  \A y \in ToSet(f[i]) : y < x
      <4>1. \A j \in 1 .. i : s[j] < s[i + 1]
        BY <1>1, <2>1, <3>3 DEF Increasing
      <4> QED
        BY <1>4, <4>1
    <3> HIDE DEF Upto, x
    <3>4. f[i + 1] \in Seq(S) /\ Len(f[i + 1]) = Len(f[i]) + 1
      BY <1>4, <2>2, <3>1, AppendProperties
    <3>5. ToSet(f[i + 1]) = Upto(i + 1) \ gone
      BY <1>4, <2>2, <3>1, <3>2, ToSetAppend
    <3>6. Increasing(s) => Increasing(f[i + 1])
      BY <1>4, <2>2, <3>1, <3>3, IncreasingAppend
    <3>7. Len(f[i + 1]) <= i + 1
      BY <1>4, <2>5, <3>4
    <3> QED
      BY <3>4, <3>5, <3>6, <3>7
  <2> QED
    BY <2>6, <2>7
<1> HIDE DEF Rest
<1>5. T = {}
  <2> SUFFICES ASSUME T # {} PROVE FALSE
    OBVIOUS
  <2>1. T \subseteq Nat
    BY <1>1
  <2>2. PICK i \in T : \A k \in T : i <= k
    BY <2>1, LeastNumber
  <2>3. i # 0 /\ i \in 0 .. Len(s) /\ ~Rest(i)
    BY <1>3, <2>2
  <2>4. i - 1 \in 0 .. Len(s) - 1 /\ i - 1 \notin T /\ i - 1 \in 0 .. Len(s)
    BY <1>1, <2>1, <2>2, <2>3
  <2>5. Rest(i - 1 + 1) /\ i - 1 + 1 = i
    BY <1>4, <2>3, <2>4
  <2> QED
    BY <2>3, <2>5
<1>6. Rest(Len(s))
  BY <1>1, <1>5
<1>7. Upto(Len(s)) = ToSet(s)
  BY <1>1 DEF ToSet
<1> QED
  BY <1>1, <1>2, <1>6, <1>7 DEF Rest

\* Of two increasing sequences with the same elements, the first is a prefix.
LEMMA IncreasingPrefix ==
    ASSUME NEW s \in Seq(Nat), NEW t \in Seq(Nat), Increasing(s), Increasing(t),
           ToSet(s) = ToSet(t)
    PROVE  Len(s) <= Len(t) /\ \A i \in 1 .. Len(s) : s[i] = t[i]
<1>1. /\ Len(s) \in Nat /\ DOMAIN s = 1 .. Len(s) /\ \A i \in 1 .. Len(s) : s[i] \in Nat
      /\ Len(t) \in Nat /\ DOMAIN t = 1 .. Len(t) /\ \A i \in 1 .. Len(t) : t[i] \in Nat
  OBVIOUS
<1>2. /\ \A i, j \in 1 .. Len(s) : i < j => s[i] < s[j]
      /\ \A i, j \in 1 .. Len(t) : i < j => t[i] < t[j]
  BY <1>1 DEF Increasing
<1>3. /\ \A i \in 1 .. Len(s) : \E j \in 1 .. Len(t) : s[i] = t[j]
      /\ \A j \in 1 .. Len(t) : \E i \in 1 .. Len(s) : s[i] = t[j]
  BY <1>1 DEF ToSet
<1> DEFINE T == {i \in 1 .. Len(s) : i > Len(t) \/ s[i] # t[i]}
<1>4. T = {}
  <2> SUFFICES ASSUME T # {} PROVE FALSE
    OBVIOUS
  <2>1. T \subseteq Nat
    BY <1>1
  <2>2. PICK i \in T : \A k \in T : i <= k
    BY <2>1, LeastNumber
  <2>3. i \in 1 .. Len(s) /\ (i > Len(t) \/ s[i] # t[i])
    BY <2>2
  <2>4. \A k \in 1 .. Len(s) : k < i => k <= Len(t) /\ s[k] = t[k]
    BY <1>1, <2>2, <2>3
  <2>5. PICK j \in 1 .. Len(t) : s[i] = t[j]
    BY <1>3, <2>3
  <2>6. j >= i
    <3> SUFFICES ASSUME j < i PROVE FALSE
      BY <1>1, <2>3, <2>5
    <3>1. j \in 1 .. Len(s) /\ s[j] = t[j]
      BY <1>1, <2>3, <2>4, <2>5
    <3>2. s[j] < s[i] /\ s[j] \in Nat
      BY <1>1, <1>2, <2>3, <3>1
    <3> QED
      BY <2>5, <3>1, <3>2
  <2>7. i \in 1 .. Len(t) /\ s[i] # t[i] /\ i < j
    BY <1>1, <2>3, <2>5, <2>6
  <2>8. t[i] < s[i]
    BY <1>2, <2>5, <2>7
  <2>9. PICK k \in 1 .. Len(s) : s[k] = t[i]
    BY <1>3, <2>7
  <2>10. k < i
    <3>1. ~(i < k)
      <4>1. SUFFICES ASSUME i < k PROVE FALSE
        OBVIOUS
      <4>2. s[i] < s[k] /\ s[i] \in Nat /\ s[k] \in Nat
        BY <1>1, <1>2, <2>3, <2>9, <4>1
      <4>3. s[k] < s[i]
        BY <2>8, <2>9
      <4> QED
        BY ONLY <4>2, <4>3
    <3>2. k # i
      BY <2>7, <2>9
    <3> QED
      BY <1>1, <2>3, <2>9, <3>1, <3>2
  <2>11. k \in 1 .. Len(t) /\ s[k] = t[k]
    BY <1>1, <2>4, <2>9, <2>10
  <2>12. t[k] < t[i] /\ t[k] \in Nat
    BY <1>1, <1>2, <2>7, <2>10, <2>11
  <2> QED
    BY <2>9, <2>11, <2>12
<1>5. \A i \in 1 .. Len(s) : i <= Len(t) /\ s[i] = t[i]
  BY <1>1, <1>4
<1>6. Len(s) <= Len(t)
  <2>1. CASE Len(s) = 0
    BY <1>1, <2>1
  <2>2. CASE Len(s) # 0
    <3>1. Len(s) \in 1 .. Len(s)
      BY <1>1, <2>2
    <3> QED
      BY <1>5, <3>1
  <2> QED
    BY <2>1, <2>2
<1> QED
  BY <1>5, <1>6

\* An increasing sequence is known by its elements.
LEMMA IncreasingUnique ==
    ASSUME NEW s \in Seq(Nat), NEW t \in Seq(Nat), Increasing(s), Increasing(t),
           ToSet(s) = ToSet(t)
    PROVE  s = t
<1>1. Len(s) <= Len(t) /\ \A i \in 1 .. Len(s) : s[i] = t[i]
  BY IncreasingPrefix
<1>2. Len(t) <= Len(s)
  BY IncreasingPrefix
<1>3. Len(s) = Len(t)
  BY <1>1, <1>2
<1> QED
  BY <1>1, <1>3, SeqEqual

LEMMA TailIsRest ==
    ASSUME NEW S, S \subseteq Nat, NEW s \in Seq(S), s # <<>>, Increasing(s)
    PROVE  /\ Tail(s) \in Seq(S) /\ Len(Tail(s)) = Len(s) - 1
           /\ Increasing(Tail(s))
           /\ Head(s) \in S
           /\ ToSet(Tail(s)) = ToSet(s) \ {Head(s)}
<1>1. /\ Tail(s) \in Seq(S) /\ Len(Tail(s)) = Len(s) - 1
      /\ \A i \in 1 .. Len(s) - 1 : Tail(s)[i] = s[i + 1]
      /\ Head(s) = s[1] /\ Head(s) \in S
  BY HeadTailProperties
<1>2. /\ Len(s) \in Nat \ {0} /\ DOMAIN s = 1 .. Len(s)
      /\ DOMAIN Tail(s) = 1 .. Len(s) - 1 /\ \A i \in 1 .. Len(s) : s[i] \in Nat
  <2>1. Len(s) \in Nat \ {0}
    BY EmptySeq
  <2>2. DOMAIN s = 1 .. Len(s) /\ \A i \in 1 .. Len(s) : s[i] \in Nat
    BY LenProperties, ElementOfSeq
  <2>3. DOMAIN Tail(s) = 1 .. Len(Tail(s))
    BY <1>1, LenProperties
  <2> QED
    BY <1>1, <2>1, <2>2, <2>3
<1>3. \A i, j \in 1 .. Len(s) : i < j => s[i] < s[j]
  BY <1>2 DEF Increasing
<1>4. Increasing(Tail(s))
  BY <1>1, <1>2, <1>3 DEF Increasing
<1>5. \A i \in 2 .. Len(s) : s[i] # s[1] /\ i - 1 \in 1 .. Len(s) - 1
                             /\ Tail(s)[i - 1] = s[i]
  <2> TAKE i \in 2 .. Len(s)
  <2>1. i - 1 \in 1 .. Len(s) - 1 /\ i - 1 + 1 = i /\ 1 \in 1 .. Len(s) /\ 1 < i
        /\ i \in 1 .. Len(s)
    BY <1>2
  <2>2. s[1] < s[i] /\ s[1] \in Nat /\ s[i] \in Nat
    BY <1>2, <1>3, <2>1
  <2>3. s[1] # s[i]
    BY <2>2
  <2> QED
    BY <1>1, <2>1, <2>3
<1>6. ASSUME NEW x PROVE x \in ToSet(Tail(s)) <=> x \in ToSet(s) \ {Head(s)}
  <2>1. ASSUME x \in ToSet(Tail(s)) PROVE x \in ToSet(s) \ {Head(s)}
    <3>1. PICK i \in 1 .. Len(s) - 1 : x = Tail(s)[i]
      BY <1>2, <2>1 DEF ToSet
    <3>2. i + 1 \in 2 .. Len(s) /\ i + 1 \in 1 .. Len(s) /\ x = s[i + 1]
      BY <1>1, <1>2, <3>1
    <3>3. x # s[1]
      BY <1>5, <3>2
    <3> QED
      BY <1>1, <1>2, <3>2, <3>3 DEF ToSet
  <2>2. ASSUME x \in ToSet(s) \ {Head(s)} PROVE x \in ToSet(Tail(s))
    <3>1. PICK i \in 1 .. Len(s) : x = s[i]
      BY <1>2, <2>2 DEF ToSet
    <3>2. i # 1
      BY <1>1, <2>2, <3>1
    <3>3. i \in 2 .. Len(s)
      BY <1>2, <3>1, <3>2
    <3> QED
      BY <1>2, <1>5, <3>1, <3>3 DEF ToSet
  <2> QED
    BY <2>1, <2>2
<1>7. ToSet(Tail(s)) = ToSet(s) \ {Head(s)}
  BY <1>6
<1> QED
  BY <1>1, <1>4, <1>7

\* The first n of an increasing sequence: no other element is smaller.
LEMMA FirstOfIncreasing ==
    ASSUME NEW S, S \subseteq Nat, NEW s \in Seq(S), NEW n \in 0 .. Len(s), Increasing(s)
    PROVE  /\ SubSeq(s, 1, n) \in Seq(S)
           /\ Increasing(SubSeq(s, 1, n))
           /\ ToSet(SubSeq(s, 1, n)) \subseteq ToSet(s)
           /\ \A f \in ToSet(s), b \in ToSet(SubSeq(s, 1, n)) :
                 f <= b => f \in ToSet(SubSeq(s, 1, n))
<1>1. /\ Len(s) \in Nat /\ DOMAIN s = 1 .. Len(s) /\ \A i \in 1 .. Len(s) : s[i] \in S
      /\ n \in Int /\ 1 .. n \subseteq 1 .. Len(s)
  OBVIOUS
<1>2. PICK p : p = SubSeq(s, 1, n)
  OBVIOUS
<1>3. /\ p \in Seq(S) /\ Len(p) = IF 1 <= n THEN n - 1 + 1 ELSE 0
      /\ \A i \in 1 .. n - 1 + 1 : p[i] = s[1 + i - 1]
  BY <1>1, <1>2, SubSeqProperties
<1>4. /\ Len(p) = n /\ DOMAIN p = 1 .. n
      /\ \A i \in 1 .. n : p[i] = s[i]
  BY <1>1, <1>3
<1>5. \A i, j \in 1 .. Len(s) : i < j => s[i] < s[j]
  BY <1>1 DEF Increasing
<1>6. Increasing(p)
  BY <1>1, <1>4, <1>5 DEF Increasing
<1>7. ToSet(p) \subseteq ToSet(s)
  BY <1>1, <1>4 DEF ToSet
<1>8. ASSUME NEW f \in ToSet(s), NEW b \in ToSet(p), f <= b
      PROVE  f \in ToSet(p)
  <2>1. PICK i \in 1 .. Len(s) : f = s[i]
    BY <1>1 DEF ToSet
  <2>2. PICK j \in 1 .. n : b = p[j]
    BY <1>4 DEF ToSet
  <2>3. j \in 1 .. Len(s) /\ b = s[j] /\ f \in Nat /\ b \in Nat
    BY <1>1, <1>4, <2>1, <2>2
  <2>4. ~(j < i)
    BY <1>5, <1>8, <2>1, <2>3
  <2>5. i \in 1 .. n
    BY <1>1, <2>1, <2>2, <2>4
  <2> QED
    BY <1>4, <2>1, <2>5 DEF ToSet
<1> QED
  BY <1>2, <1>3, <1>6, <1>7, <1>8

LEMMA MinOfTwo ==
    ASSUME NEW a \in Nat, NEW b \in Nat
    PROVE  Min({a, b}) \in {a, b} /\ Min({a, b}) <= a
<1>1. \E x \in {a, b} : \A y \in {a, b} : x <= y
  OBVIOUS
<1> QED
  BY <1>1 DEF Min

LEMMA InitQueueIInv == QueueInit => QueueIInv
<1> SUFFICES ASSUME QueueInit PROVE QueueIInv
  OBVIOUS
<1>1. ToSet(<<>>) = {} /\ \A S : <<>> \in Seq(S)
  BY DEF ToSet
<1>2. QueueTyped
  <2>1. maxQueueSize \in Nat /\ Len(<<>>) = 0 /\ \A S : {} \subseteq S
    BY QueueAssumption
  <2>2. made = 0 /\ lastPost = <<0, "final">> /\ 0 \in Nat /\ 0 \in 0 .. 0
    BY DEF QueueInit
  <2>3. lastPost \in (0 .. made) \X {"final", "retry"}
    BY <2>2
  <2>4. reading \in Nat \ {0} /\ index \in Nat \ {0} /\ Len(queuedFiles) <= maxQueueSize
    BY <2>1 DEF QueueInit
  <2>5. {stopRequested, flushRequested, due, paused, final, shouldRetry} \subseteq BOOLEAN
    BY DEF QueueInit
  <2> QED
    BY <1>1, <2>1, <2>2, <2>3, <2>4, <2>5 DEF QueueInit, QueueTyped
<1>3. QueueOrdered
  BY DEF QueueInit, QueueOrdered, Increasing
<1>4. EventsAreKept
  BY <1>1 DEF QueueInit, EventsAreKept
<1> QED
  BY <1>1, <1>2, <1>3, <1>4 DEF QueueInit, QueueIInv, Unflushed, BatchRead, BatchPosted,
                                BatchIsFront, ToBePosted

\* What a step says of the posts.
PostFollows == lastPost' = lastPost \/ MayFollow(lastPost'[1])

\* A step that leaves the files, the flush and the history alone.
LEMMA StillKeeps ==
    ASSUME QueueIInv, UNCHANGED <<queuedFiles, onDisk, flush, record>>,
           worker' = worker \/ {worker, worker'} \subseteq {"wait", "take"},
           {stopRequested', flushRequested', due', paused', final'} \subseteq BOOLEAN
    PROVE  QueueIInv'
<1>1. /\ UNCHANGED <<queuedFiles, onDisk, batchFiles, reading, invalidFiles, events, index>>
      /\ UNCHANGED <<deletableFiles, shouldRetry, made, lastPost, settled>>
  BY DEF flush, record
<1>2. QueueTyped'
  BY <1>1 DEF QueueIInv, QueueTyped
<1>3. QueueOrdered'
  BY <1>1 DEF QueueIInv, QueueOrdered
<1>4. Unflushed'
  BY <1>1 DEF QueueIInv, Unflushed
<1>5. BatchRead'
  BY <1>1 DEF QueueIInv, BatchRead
<1>6. BatchPosted'
  BY <1>1 DEF QueueIInv, BatchPosted
<1>7. BatchIsFront'
  BY <1>1 DEF QueueIInv, BatchIsFront
<1>8. \A f : MayFollow(f)' <=> MayFollow(f)
  BY <1>1 DEF MayFollow
<1>9. ToBePosted'
  BY <1>1, <1>8 DEF QueueIInv, ToBePosted
<1>10. EventsAreKept'
  BY <1>1 DEF QueueIInv, EventsAreKept
<1> QED
  BY <1>2, <1>3, <1>4, <1>5, <1>6, <1>7, <1>9, <1>10 DEF QueueIInv

\* A full queue gives up its oldest file, and has room then.
LEMMA RoomMade ==
    ASSUME QueueIInv
    PROVE  /\ MakeRoom[1] \in Seq(1 .. made) /\ Increasing(MakeRoom[1])
           /\ ToSet(MakeRoom[1]) = ToSet(queuedFiles) \ MakeRoom[2]
           /\ Len(MakeRoom[1]) < maxQueueSize
           /\ MakeRoom[2] \subseteq 1 .. made
<1>1. /\ queuedFiles \in Seq(1 .. made) /\ Len(queuedFiles) \in Nat
      /\ Len(queuedFiles) <= maxQueueSize /\ 1 .. made \subseteq Nat
  BY DEF QueueIInv, QueueTyped
<1>2. Increasing(queuedFiles)
  BY DEF QueueIInv, QueueOrdered
<1>3. maxQueueSize \in Nat \ {0}
  BY QueueAssumption
<1>4. CASE Len(queuedFiles) < maxQueueSize
  <2>1. MakeRoom[1] = queuedFiles /\ MakeRoom[2] = {}
    BY <1>4 DEF MakeRoom
  <2> QED
    BY <1>1, <1>2, <1>4, <2>1
<1>5. CASE ~(Len(queuedFiles) < maxQueueSize)
  <2>1. MakeRoom[1] = Tail(queuedFiles) /\ MakeRoom[2] = {Head(queuedFiles)}
    BY <1>5 DEF MakeRoom
  <2>2. queuedFiles # <<>>
    BY <1>1, <1>3, <1>5
  <2>3. /\ Tail(queuedFiles) \in Seq(1 .. made)
        /\ Len(Tail(queuedFiles)) = Len(queuedFiles) - 1
        /\ Increasing(Tail(queuedFiles)) /\ Head(queuedFiles) \in 1 .. made
        /\ ToSet(Tail(queuedFiles)) = ToSet(queuedFiles) \ {Head(queuedFiles)}
    BY <1>1, <1>2, <2>2, TailIsRest
  <2>4. Len(Tail(queuedFiles)) < maxQueueSize
    BY <1>1, <1>3, <2>3
  <2> QED
    BY <2>1, <2>3, <2>4
<1> QED
  BY <1>4, <1>5

LEMMA ElementsIn ==
    ASSUME NEW S, NEW s \in Seq(S)
    PROVE  ToSet(s) \subseteq S
<1>1. DOMAIN s = 1 .. Len(s) /\ \A i \in 1 .. Len(s) : s[i] \in S
  BY LenProperties, ElementOfSeq
<1> QED
  BY <1>1 DEF ToSet

LEMMA EventKeeps ==
    ASSUME QueueIInv, event
    PROVE  QueueIInv' /\ PostFollows
<1> DEFINE n == made + 1
<1>1. /\ made' = n /\ made \in Nat /\ n \in Nat /\ n \in 1 .. n
      /\ 1 .. made \subseteq 1 .. n /\ 0 .. made \subseteq 0 .. n
      /\ 1 .. n \subseteq (1 .. made) \cup {n}
      /\ worker # "cleaned" /\ UNCHANGED <<stopRequested, clock, worker, final, flush, lastPost>>
      /\ 1 .. n \subseteq Nat /\ \A f \in 1 .. made : f < n
  BY DEF event, QueueIInv, QueueTyped
<1>2. PICK kept, lost : kept = MakeRoom[1] /\ lost = MakeRoom[2]
  OBVIOUS
<1>3. \/ /\ queuedFiles' = Append(kept, n)
         /\ onDisk' = (onDisk \ lost) \cup {n}
         /\ settled' = settled \cup lost
         /\ flushRequested' = (flushRequested \/ Len(queuedFiles') >= flushAt)
      \/ /\ queuedFiles' = kept
         /\ onDisk' = onDisk \ lost
         /\ settled' = settled \cup lost \cup {n}
         /\ UNCHANGED flushRequested
  BY <1>1, <1>2 DEF event
<1>4. /\ UNCHANGED <<stopRequested, due, paused, worker, final, batchFiles, reading>>
      /\ UNCHANGED <<invalidFiles, events, index, deletableFiles, shouldRetry, lastPost>>
  BY <1>1 DEF clock, flush
<1> HIDE DEF n
<1>5. /\ kept \in Seq(1 .. made) /\ Increasing(kept)
      /\ ToSet(kept) = ToSet(queuedFiles) \ lost
      /\ Len(kept) < maxQueueSize /\ lost \subseteq 1 .. made
  BY <1>2, RoomMade
<1>6. /\ kept \in Seq(1 .. n) /\ Append(kept, n) \in Seq(1 .. n)
      /\ Len(Append(kept, n)) = Len(kept) + 1 /\ Len(kept) \in Nat
      /\ ToSet(Append(kept, n)) = ToSet(kept) \cup {n}
  <2>1. kept \in Seq(1 .. n)
    BY <1>1, <1>5, SeqMonotonic
  <2> QED
    BY <1>1, <2>1, ToSetAppend, AppendProperties
<1>7. Increasing(Append(kept, n))
  <2>1. ToSet(kept) \subseteq 1 .. made
    BY <1>5, ElementsIn
  <2>2. \A y \in ToSet(kept) : y < n
    BY <1>1, <2>1
  <2> QED
    BY <1>1, <1>5, <1>6, <2>2, IncreasingAppend
<1>8. ToSet(queuedFiles') \subseteq ToSet(queuedFiles) \cup {n}
  BY <1>3, <1>5, <1>6
<1>9. QueueTyped'
  <2>1. queuedFiles' \in Seq(1 .. n)
    BY <1>3, <1>6
  <2>2. batchFiles' \in Seq(1 .. n) /\ events' \in Seq(1 .. n)
    BY <1>1, <1>4, SeqMonotonic DEF QueueIInv, QueueTyped
  <2>3. settled' \subseteq 1 .. n /\ onDisk' \subseteq 1 .. n
    BY <1>1, <1>3, <1>5 DEF QueueIInv, QueueTyped
  <2>4. invalidFiles' \subseteq 1 .. n /\ deletableFiles' \subseteq 1 .. n
    BY <1>1, <1>4 DEF QueueIInv, QueueTyped
  <2>5. lastPost' \in (0 .. n) \X {"final", "retry"}
    BY <1>1, <1>4 DEF QueueIInv, QueueTyped
  <2>6. {stopRequested', flushRequested', due', paused', final', shouldRetry'} \subseteq BOOLEAN
    BY <1>3, <1>4 DEF QueueIInv, QueueTyped
  <2>7. /\ worker' \in {"wait", "take", "read", "post", "finish", "ended", "cleaned"}
        /\ reading' \in Nat \ {0} /\ index' \in Nat \ {0}
    BY <1>4 DEF QueueIInv, QueueTyped
  <2>8. Len(queuedFiles') <= maxQueueSize
    <3>1. maxQueueSize \in Nat
      BY QueueAssumption
    <3>2. Len(queuedFiles') \in {Len(kept), Len(kept) + 1}
      BY <1>3, <1>6
    <3> QED
      BY <1>5, <1>6, <3>1, <3>2
  <2> QED
    BY <1>1, <2>1, <2>2, <2>3, <2>4, <2>5, <2>6, <2>7, <2>8 DEF QueueTyped
<1>10. QueueOrdered'
  <2>1. Increasing(queuedFiles')
    BY <1>3, <1>5, <1>7
  <2>2. Increasing(batchFiles') /\ Increasing(events')
    BY <1>4 DEF QueueIInv, QueueOrdered
  <2> QED
    BY <2>1, <2>2 DEF QueueOrdered
<1>11. Unflushed'
  BY <1>4 DEF QueueIInv, Unflushed
<1>12. BatchRead'
  BY <1>4 DEF QueueIInv, BatchRead
<1>13. BatchPosted'
  <2>1. settled \subseteq settled'
    BY <1>3
  <2> QED
    BY <1>4, <2>1 DEF QueueIInv, BatchPosted
<1>14. BatchIsFront'
  <2> SUFFICES ASSUME NEW f \in ToSet(queuedFiles'), NEW b \in ToSet(batchFiles), f <= b
               PROVE  f \in ToSet(batchFiles)
    BY <1>4 DEF BatchIsFront
  <2>1. ToSet(batchFiles) \subseteq 1 .. made
    BY ElementsIn DEF QueueIInv, QueueTyped
  <2>2. f # n
    BY <1>1, <2>1
  <2>3. f \in ToSet(queuedFiles)
    BY <1>8, <2>2
  <2> QED
    BY <2>3 DEF QueueIInv, BatchIsFront
<1>15. ToBePosted'
  <2>1. \A f : MayFollow(f)' <=> MayFollow(f)
    BY <1>4 DEF MayFollow
  <2>2. lastPost[1] \in 0 .. made
    BY DEF QueueIInv, QueueTyped
  <2>3. MayFollow(n)
    BY <1>1, <2>2 DEF MayFollow
  <2>4. \A f \in ToSet(queuedFiles') : MayFollow(f) \/ f \in deletableFiles
    BY <1>8, <2>3 DEF QueueIInv, ToBePosted
  <2> QED
    BY <1>4, <2>1, <2>4 DEF QueueIInv, ToBePosted
<1>16. EventsAreKept'
  <2>1. onDisk = ToSet(queuedFiles) /\ 1 .. made \subseteq ToSet(queuedFiles) \cup settled
    BY <1>1 DEF QueueIInv, EventsAreKept
  <2>2. onDisk' = ToSet(queuedFiles')
    BY <1>3, <1>5, <1>6, <2>1
  <2>3. 1 .. n \subseteq ToSet(queuedFiles') \cup settled'
    BY <1>1, <1>3, <1>5, <1>6, <2>1
  <2> QED
    BY <1>1, <2>2, <2>3 DEF EventsAreKept
<1> QED
  BY <1>4, <1>9, <1>10, <1>11, <1>12, <1>13, <1>14, <1>15, <1>16 DEF QueueIInv, PostFollows

\* The end of a flush, after the files of gone were deleted.
LEMMA LeaveKeeps ==
    ASSUME QueueIInv, LeaveFlush, NEW gone \in SUBSET (1 .. made),
           queuedFiles' = Without(queuedFiles, gone), onDisk' = onDisk \ gone,
           worker # "cleaned", settled \cup gone \subseteq settled', settled' \subseteq 1 .. made,
           deletableFiles \subseteq gone, paused' \in BOOLEAN,
           UNCHANGED <<stopRequested, flushRequested, due, final, made, lastPost>>
    PROVE  QueueIInv'
<1>1. /\ worker' \in {"ended", "wait"}
      /\ batchFiles' = <<>> /\ reading' = 1 /\ invalidFiles' = {} /\ events' = <<>>
      /\ index' = 1 /\ deletableFiles' = {} /\ shouldRetry' = FALSE
  BY DEF LeaveFlush
<1>2. made \in Nat /\ 1 .. made \subseteq Nat /\ queuedFiles \in Seq(1 .. made)
      /\ Len(queuedFiles) <= maxQueueSize /\ Len(queuedFiles) \in Nat /\ maxQueueSize \in Nat
  BY QueueAssumption DEF QueueIInv, QueueTyped
<1>3. /\ queuedFiles' \in Seq(1 .. made)
      /\ ToSet(queuedFiles') = ToSet(queuedFiles) \ gone
      /\ Len(queuedFiles') <= Len(queuedFiles)
      /\ Increasing(queuedFiles) => Increasing(queuedFiles')
  BY <1>2, WithoutIsRest
<1>4. ToSet(<<>>) = {} /\ \A S : <<>> \in Seq(S)
  BY DEF ToSet
<1>5. QueueTyped'
  <2>1. Len(queuedFiles') <= maxQueueSize
    <3>1. Len(queuedFiles') \in Nat
      BY <1>3
    <3> QED
      BY <1>2, <1>3, <3>1
  <2>2. {stopRequested', flushRequested', due', paused', final', shouldRetry'} \subseteq BOOLEAN
    BY <1>1 DEF QueueIInv, QueueTyped
  <2>3. onDisk' \subseteq 1 .. made /\ lastPost' \in (0 .. made) \X {"final", "retry"}
    BY DEF QueueIInv, QueueTyped
  <2> QED
    BY <1>1, <1>2, <1>3, <1>4, <2>1, <2>2, <2>3 DEF QueueTyped
<1>6. QueueOrdered'
  BY <1>1, <1>3 DEF QueueIInv, QueueOrdered, Increasing
<1>7. Unflushed' /\ BatchRead' /\ BatchPosted'
  BY <1>1 DEF Unflushed, BatchRead, BatchPosted
<1>8. BatchIsFront'
  BY <1>1, <1>4 DEF BatchIsFront
<1>9. ToBePosted'
  <2>1. \A f : MayFollow(f)' <=> MayFollow(f)
    BY DEF MayFollow
  <2>2. \A f \in ToSet(queuedFiles') : MayFollow(f)
    BY <1>3 DEF QueueIInv, ToBePosted
  <2> QED
    BY <1>1, <2>1, <2>2 DEF ToBePosted
<1>10. EventsAreKept'
  BY <1>1, <1>3 DEF QueueIInv, EventsAreKept
<1> QED
  BY <1>5, <1>6, <1>7, <1>8, <1>9, <1>10 DEF QueueIInv

LEMMA TakeKeeps ==
    ASSUME QueueIInv, takeBatch
    PROVE  QueueIInv'
<1>1. /\ worker = "take" /\ UNCHANGED <<queuedFiles, onDisk, stopRequested, flushRequested>>
      /\ UNCHANGED <<due, paused, final, made, lastPost, settled>>
  BY DEF takeBatch, requested, clock, record
<1>2. /\ batchFiles = <<>> /\ events = <<>> /\ invalidFiles = {} /\ deletableFiles = {}
      /\ index = 1 /\ reading = 1 /\ shouldRetry = FALSE
  BY <1>1 DEF QueueIInv, Unflushed
<1>3. /\ made \in Nat /\ 1 .. made \subseteq Nat /\ queuedFiles \in Seq(1 .. made)
      /\ Len(queuedFiles) \in Nat /\ maxBatchSize \in Nat
  BY QueueAssumption DEF QueueIInv, QueueTyped
<1>4. ToSet(<<>>) = {} /\ \A S : <<>> \in Seq(S)
  BY DEF ToSet
<1>5. Increasing(queuedFiles) /\ Increasing(<<>>)
  BY DEF QueueIInv, QueueOrdered, Increasing
<1>6. \A f : MayFollow(f)' <=> MayFollow(f)
  BY <1>1 DEF MayFollow
<1>7. \A f \in ToSet(queuedFiles) : MayFollow(f)
  BY <1>2 DEF QueueIInv, ToBePosted
<1>8. EventsAreKept'
  <2>1. onDisk = ToSet(queuedFiles) /\ 1 .. made \subseteq ToSet(queuedFiles) \cup settled
    BY <1>1 DEF QueueIInv, EventsAreKept
  <2> QED
    BY <1>1, <2>1 DEF EventsAreKept
<1>9. {stopRequested', flushRequested', due', paused', final'} \subseteq BOOLEAN
  BY <1>1 DEF QueueIInv, QueueTyped
<1>10. CASE queuedFiles = <<>>
  <2>1. LeaveFlush
    BY <1>10 DEF takeBatch
  <2>2. /\ worker' \in {"ended", "wait"}
        /\ batchFiles' = <<>> /\ reading' = 1 /\ invalidFiles' = {} /\ events' = <<>>
        /\ index' = 1 /\ deletableFiles' = {} /\ shouldRetry' = FALSE
    BY <2>1 DEF LeaveFlush
  <2>3. QueueTyped'
    <3>1. {} \subseteq 1 .. made' /\ 1 \in Nat \ {0}
      OBVIOUS
    <3>2. {stopRequested', flushRequested', due', paused', final', shouldRetry'} \subseteq BOOLEAN
      BY <1>9, <2>2
    <3>3. /\ reading' \in Nat \ {0} /\ index' \in Nat \ {0}
          /\ invalidFiles' \subseteq 1 .. made' /\ deletableFiles' \subseteq 1 .. made'
      BY <2>2, <3>1
    <3>4. batchFiles' \in Seq(1 .. made') /\ events' \in Seq(1 .. made')
      BY <1>4, <2>2
    <3> QED
      BY <1>1, <2>2, <3>2, <3>3, <3>4 DEF QueueIInv, QueueTyped
  <2>4. QueueOrdered'
    BY <1>1, <1>5, <2>2 DEF QueueOrdered
  <2>5. Unflushed' /\ BatchRead' /\ BatchPosted'
    BY <2>2 DEF Unflushed, BatchRead, BatchPosted
  <2>6. BatchIsFront'
    BY <1>4, <2>2 DEF BatchIsFront
  <2>7. ToBePosted'
    BY <1>1, <1>6, <1>7, <2>2 DEF ToBePosted
  <2> QED
    BY <1>8, <2>3, <2>4, <2>5, <2>6, <2>7 DEF QueueIInv
<1>11. CASE queuedFiles # <<>>
  <2>1. /\ worker' = "read"
        /\ batchFiles' = SubSeq(queuedFiles, 1, Min({Len(queuedFiles), maxBatchSize}))
        /\ UNCHANGED <<reading, invalidFiles, events, index, deletableFiles, shouldRetry>>
    BY <1>11 DEF takeBatch
  <2>2. Min({Len(queuedFiles), maxBatchSize}) \in 0 .. Len(queuedFiles)
    BY <1>3, MinOfTwo
  <2>3. /\ batchFiles' \in Seq(1 .. made) /\ Increasing(batchFiles')
        /\ ToSet(batchFiles') \subseteq ToSet(queuedFiles)
        /\ \A f \in ToSet(queuedFiles), b \in ToSet(batchFiles') :
              f <= b => f \in ToSet(batchFiles')
    BY <1>3, <1>5, <2>1, <2>2, FirstOfIncreasing
  <2>4. QueueTyped'
    BY <1>1, <1>9, <2>1, <2>3 DEF QueueIInv, QueueTyped
  <2>5. QueueOrdered'
    BY <1>1, <1>2, <1>5, <2>1, <2>3 DEF QueueOrdered
  <2>6. Unflushed' /\ BatchPosted'
    BY <2>1 DEF Unflushed, BatchPosted
  <2>7. BatchRead'
    <3>1. Len(batchFiles') \in Nat
      BY <2>3
    <3>2. {batchFiles'[j] : j \in 1 .. reading' - 1} = {}
      BY <1>2, <2>1
    <3>3. reading' <= Len(batchFiles') + 1
      <4>1. reading' = 1
        BY <1>2, <2>1
      <4>2. PICK n \in Nat : n = Len(batchFiles')
        BY <3>1
      <4> QED
        BY <4>1, <4>2
    <3> QED
      BY <1>2, <1>4, <2>1, <3>2, <3>3 DEF BatchRead
  <2>8. BatchIsFront'
    BY <1>1, <2>3 DEF BatchIsFront
  <2>9. ToBePosted'
    <3>1. \A f \in ToSet(batchFiles') : MayFollow(f)
      BY <1>7, <2>3
    <3> QED
      BY <1>1, <1>6, <1>7, <2>1, <3>1 DEF ToBePosted
  <2> QED
    BY <1>8, <2>4, <2>5, <2>6, <2>7, <2>8, <2>9 DEF QueueIInv
<1> QED
  BY <1>10, <1>11

LEMMA ReadKeeps ==
    ASSUME QueueIInv, readFile
    PROVE  QueueIInv'
<1>1. /\ worker = "read" /\ worker' = "read" /\ reading <= Len(batchFiles)
      /\ reading' = reading + 1
      /\ UNCHANGED <<queuedFiles, onDisk, stopRequested, flushRequested, due, paused, final>>
      /\ UNCHANGED <<batchFiles, index, deletableFiles, shouldRetry, made, lastPost, settled>>
  BY DEF readFile, requested, clock, record
<1>2. PICK f : f = batchFiles[reading]
  OBVIOUS
<1>3. \/ events' = Append(events, f) /\ invalidFiles' = invalidFiles
      \/ invalidFiles' = invalidFiles \cup {f} /\ events' = events
  BY <1>2 DEF readFile
<1>4. /\ made \in Nat /\ 1 .. made \subseteq Nat /\ batchFiles \in Seq(1 .. made)
      /\ events \in Seq(1 .. made) /\ reading \in Nat \ {0} /\ invalidFiles \subseteq 1 .. made
  BY DEF QueueIInv, QueueTyped
<1>5. /\ Len(batchFiles) \in Nat /\ DOMAIN batchFiles = 1 .. Len(batchFiles)
      /\ reading \in 1 .. Len(batchFiles) /\ f \in 1 .. made /\ f \in Nat
  <2>1. Len(batchFiles) \in Nat /\ DOMAIN batchFiles = 1 .. Len(batchFiles)
    BY <1>4, LenProperties
  <2>2. reading \in 1 .. Len(batchFiles)
    BY <1>1, <1>4, <2>1
  <2>3. f \in 1 .. made
    BY <1>2, <1>4, <2>2, ElementOfSeq
  <2> QED
    BY <1>4, <2>1, <2>2, <2>3
<1>6. PICK seen : seen = {batchFiles[j] : j \in 1 .. reading - 1}
  OBVIOUS
<1>7. /\ index = 1 /\ deletableFiles = {} /\ shouldRetry = FALSE
      /\ invalidFiles \subseteq seen
      /\ ToSet(events) = seen \ invalidFiles
  BY <1>1, <1>6 DEF QueueIInv, BatchRead
<1>8. {batchFiles[j] : j \in 1 .. reading' - 1} = seen \cup {f}
  BY <1>1, <1>2, <1>5, <1>6
<1>9. \A g \in seen : g < f
  <2>1. \A i, j \in 1 .. Len(batchFiles) : i < j => batchFiles[i] < batchFiles[j]
    BY <1>5 DEF QueueIInv, QueueOrdered, Increasing
  <2> QED
    BY <1>2, <1>5, <1>6, <2>1
<1>10. f \notin seen /\ f \notin invalidFiles
  BY <1>5, <1>7, <1>9
<1>11. /\ Append(events, f) \in Seq(1 .. made) /\ Increasing(Append(events, f))
       /\ ToSet(Append(events, f)) = ToSet(events) \cup {f}
  <2>1. Increasing(events) /\ \A y \in ToSet(events) : y < f
    BY <1>7, <1>9 DEF QueueIInv, QueueOrdered
  <2>2. Append(events, f) \in Seq(1 .. made)
    BY <1>4, <1>5, AppendProperties
  <2>3. ToSet(Append(events, f)) = ToSet(events) \cup {f}
    BY <1>4, <1>5, ToSetAppend
  <2>4. Increasing(Append(events, f))
    BY <1>4, <1>5, <2>1, IncreasingAppend
  <2> QED
    BY <2>2, <2>3, <2>4
<1>12. QueueTyped'
  <2>1. events' \in Seq(1 .. made) /\ invalidFiles' \subseteq 1 .. made
    BY <1>3, <1>4, <1>5, <1>11
  <2>2. reading' \in Nat \ {0}
    BY <1>1, <1>4
  <2> QED
    BY <1>1, <2>1, <2>2 DEF QueueIInv, QueueTyped
<1>13. QueueOrdered'
  <2>1. Increasing(events')
    BY <1>3, <1>11 DEF QueueIInv, QueueOrdered
  <2> QED
    BY <1>1, <2>1 DEF QueueIInv, QueueOrdered
<1>14. Unflushed' /\ BatchPosted'
  BY <1>1 DEF Unflushed, BatchPosted
<1>15. BatchRead'
  <2>1. reading' <= Len(batchFiles') + 1
    BY <1>1, <1>5
  <2>2. PICK now : now = {batchFiles'[j] : j \in 1 .. reading' - 1}
    OBVIOUS
  <2>3. now = seen \cup {f}
    BY <1>1, <1>8, <2>2
  <2>4. invalidFiles' \subseteq now /\ ToSet(events') = now \ invalidFiles'
    BY <1>3, <1>7, <1>10, <1>11, <2>3
  <2> QED
    BY <1>1, <1>7, <2>1, <2>2, <2>4 DEF BatchRead
<1>16. BatchIsFront'
  BY <1>1 DEF QueueIInv, BatchIsFront
<1>17. ToBePosted'
  <2>1. \A g : MayFollow(g)' <=> MayFollow(g)
    BY <1>1 DEF MayFollow
  <2> QED
    BY <1>1, <2>1 DEF QueueIInv, ToBePosted
<1>18. EventsAreKept'
  BY <1>1 DEF QueueIInv, EventsAreKept
<1> QED
  BY <1>12, <1>13, <1>14, <1>15, <1>16, <1>17, <1>18 DEF QueueIInv

LEMMA RemoveInvalidKeeps ==
    ASSUME QueueIInv, removeInvalid
    PROVE  QueueIInv'
<1>1. /\ worker = "read" /\ reading > Len(batchFiles)
      /\ queuedFiles' = Without(queuedFiles, invalidFiles)
      /\ onDisk' = onDisk \ invalidFiles
      /\ settled' = settled \cup invalidFiles
      /\ UNCHANGED <<stopRequested, flushRequested, due, paused, final, made, lastPost>>
  BY DEF removeInvalid, deleteFilesLocked, requested, clock
<1>2. /\ made \in Nat /\ 1 .. made \subseteq Nat /\ queuedFiles \in Seq(1 .. made)
      /\ batchFiles \in Seq(1 .. made) /\ events \in Seq(1 .. made)
      /\ reading \in Nat \ {0} /\ invalidFiles \subseteq 1 .. made
      /\ settled \subseteq 1 .. made
      /\ Len(queuedFiles) <= maxQueueSize /\ Len(queuedFiles) \in Nat /\ maxQueueSize \in Nat
  BY QueueAssumption DEF QueueIInv, QueueTyped
<1>3. /\ index = 1 /\ deletableFiles = {} /\ shouldRetry = FALSE
      /\ reading <= Len(batchFiles) + 1
      /\ ToSet(events) = {batchFiles[j] : j \in 1 .. reading - 1} \ invalidFiles
  BY <1>1 DEF QueueIInv, BatchRead
<1>4. ToSet(events) = ToSet(batchFiles) \ invalidFiles
  <2>1. Len(batchFiles) \in Nat /\ DOMAIN batchFiles = 1 .. Len(batchFiles)
    BY <1>2, LenProperties
  <2>2. reading - 1 = Len(batchFiles)
    BY <1>1, <1>2, <1>3, <2>1
  <2> QED
    BY <1>3, <2>1, <2>2 DEF ToSet
<1>5. settled \cup invalidFiles \subseteq settled' /\ settled' \subseteq 1 .. made
  BY <1>1, <1>2
<1>6. CASE events = <<>>
  <2>1. LeaveFlush
    BY <1>6 DEF removeInvalid
  <2>2. paused' \in BOOLEAN /\ worker # "cleaned" /\ deletableFiles \subseteq invalidFiles
    BY <1>1, <1>3 DEF QueueIInv, QueueTyped
  <2> QED
    BY <1>1, <1>2, <1>5, <2>1, <2>2, LeaveKeeps
<1>7. CASE events # <<>>
  <2>1. /\ worker' = "post" /\ batchFiles' = Without(batchFiles, invalidFiles)
        /\ UNCHANGED <<reading, invalidFiles, events, index, deletableFiles, shouldRetry>>
    BY <1>7 DEF removeInvalid, Remaining
  <2>2. Increasing(queuedFiles) /\ Increasing(batchFiles) /\ Increasing(events)
    BY DEF QueueIInv, QueueOrdered
  <2>3. /\ queuedFiles' \in Seq(1 .. made) /\ Increasing(queuedFiles')
        /\ ToSet(queuedFiles') = ToSet(queuedFiles) \ invalidFiles
        /\ Len(queuedFiles') <= Len(queuedFiles) /\ Len(queuedFiles') \in Nat
    <3>1. PICK rest : rest = Without(queuedFiles, invalidFiles)
      OBVIOUS
    <3>2. /\ rest \in Seq(1 .. made) /\ Increasing(rest)
          /\ ToSet(rest) = ToSet(queuedFiles) \ invalidFiles
          /\ Len(rest) <= Len(queuedFiles)
      BY <1>2, <2>2, <3>1, WithoutIsRest
    <3>3. Len(rest) \in Nat
      BY <3>2, LenProperties
    <3> QED
      BY <1>1, <3>1, <3>2, <3>3
  <2>4. /\ batchFiles' \in Seq(1 .. made) /\ Increasing(batchFiles')
        /\ ToSet(batchFiles') = ToSet(batchFiles) \ invalidFiles
    BY <1>2, <2>1, <2>2, WithoutIsRest
  <2>5. events = batchFiles'
    <3>1. events \in Seq(Nat) /\ batchFiles' \in Seq(Nat)
      BY <1>2, <2>4, SeqMonotonic
    <3>2. ToSet(events) = ToSet(batchFiles')
      BY <1>4, <2>4
    <3> QED
      BY <2>2, <2>4, <3>1, <3>2, IncreasingUnique
  <2>6. Len(events) \in Nat \ {0}
    BY <1>2, <1>7, EmptySeq
  <2>7. QueueTyped'
    <3>1. Len(queuedFiles') <= maxQueueSize
      BY <1>2, <2>3
    <3>2. onDisk' \subseteq 1 .. made
      BY <1>1 DEF QueueIInv, QueueTyped
    <3>3. lastPost' \in (0 .. made) \X {"final", "retry"} /\ made' = made
      BY <1>1 DEF QueueIInv, QueueTyped
    <3>4. {stopRequested', flushRequested', due', paused', final', shouldRetry'} \subseteq BOOLEAN
      BY <1>1, <2>1 DEF QueueIInv, QueueTyped
    <3>5. /\ events' \in Seq(1 .. made) /\ invalidFiles' \subseteq 1 .. made
          /\ deletableFiles' \subseteq 1 .. made
          /\ reading' \in Nat \ {0} /\ index' \in Nat \ {0}
      BY <2>1 DEF QueueIInv, QueueTyped
    <3>6. worker' \in {"wait", "take", "read", "post", "finish", "ended", "cleaned"}
      BY <2>1
    <3> QED
      BY <1>2, <1>5, <2>3, <2>4, <3>1, <3>2, <3>3, <3>4, <3>5, <3>6 DEF QueueTyped
  <2>8. QueueOrdered'
    BY <2>1, <2>2, <2>3, <2>4 DEF QueueOrdered
  <2>9. Unflushed' /\ BatchRead'
    BY <2>1 DEF Unflushed, BatchRead
  <2>10. BatchPosted'
    <3>1. events' = batchFiles'
      BY <2>1, <2>5
    <3>2. index' = 1 /\ index' <= Len(events') /\ index' <= Len(events') + 1
      BY <1>3, <2>1, <2>6
    <3>3. deletableFiles' = {} /\ {events'[j] : j \in 1 .. index' - 1} = {}
      BY <1>3, <2>1
    <3> QED
      BY <1>3, <2>1, <3>1, <3>2, <3>3 DEF BatchPosted
  <2>11. BatchIsFront'
    <3>1. ASSUME NEW f \in ToSet(queuedFiles'), NEW b \in ToSet(batchFiles'), f <= b
          PROVE  f \in ToSet(batchFiles')
      <4>1. f \in ToSet(queuedFiles) /\ b \in ToSet(batchFiles) /\ f \notin invalidFiles
        BY <2>3, <2>4, <3>1
      <4>2. f \in ToSet(batchFiles)
        BY <3>1, <4>1 DEF QueueIInv, BatchIsFront
      <4> QED
        BY <2>4, <4>1, <4>2
    <3> QED
      BY <3>1 DEF BatchIsFront
  <2>12. ToBePosted'
    <3>1. \A g : MayFollow(g)' <=> MayFollow(g)
      BY <1>1 DEF MayFollow
    <3>2. \A f \in ToSet(queuedFiles') : MayFollow(f)
      BY <1>3, <2>3 DEF QueueIInv, ToBePosted
    <3>3. \A j \in 1 .. Len(events) : MayFollow(events[j])
      <4>1. DOMAIN events = 1 .. Len(events)
        BY <1>2, LenProperties
      <4>2. \A j \in 1 .. Len(events) : events[j] \in ToSet(events)
        BY <4>1 DEF ToSet
      <4>3. \A g \in ToSet(batchFiles) : MayFollow(g)
        BY <1>1 DEF QueueIInv, ToBePosted
      <4> QED
        BY <1>4, <4>2, <4>3
    <3> QED
      BY <1>3, <2>1, <3>1, <3>2, <3>3 DEF ToBePosted
  <2>13. EventsAreKept'
    <3>1. onDisk = ToSet(queuedFiles) /\ 1 .. made \subseteq ToSet(queuedFiles) \cup settled
      BY <1>1 DEF QueueIInv, EventsAreKept
    <3> QED
      BY <1>1, <2>3, <3>1 DEF EventsAreKept
  <2> QED
    BY <2>7, <2>8, <2>9, <2>10, <2>11, <2>12, <2>13 DEF QueueIInv
<1> QED
  BY <1>6, <1>7

LEMMA PostKeeps ==
    ASSUME QueueIInv, NEW reply \in {"final", "retry"}, postEvent(reply)
    PROVE  QueueIInv' /\ PostFollows
<1>1. PICK f : f = events[index]
  OBVIOUS
<1>2. /\ worker = "post" /\ lastPost' = <<f, reply>>
      /\ UNCHANGED <<queuedFiles, onDisk, stopRequested, flushRequested, due, paused, final>>
      /\ UNCHANGED <<batchFiles, reading, invalidFiles, events, made>>
  BY <1>1 DEF postEvent, requested, clock
<1>3. /\ events = batchFiles /\ index <= Len(events) /\ shouldRetry = FALSE
      /\ deletableFiles = {events[j] : j \in 1 .. index - 1}
      /\ deletableFiles \subseteq settled
  BY <1>2 DEF QueueIInv, BatchPosted
<1>4. \/ /\ reply = "final"
         /\ deletableFiles' = deletableFiles \cup {f}
         /\ settled' = settled \cup {f}
         /\ index' = index + 1
         /\ worker' = IF index = Len(events) THEN "finish" ELSE "post"
         /\ shouldRetry' = FALSE
      \/ /\ reply = "retry"
         /\ shouldRetry' = TRUE /\ worker' = "finish"
         /\ UNCHANGED <<deletableFiles, settled, index>>
  BY <1>1, <1>2, <1>3 DEF postEvent
<1>5. /\ made \in Nat /\ events \in Seq(1 .. made) /\ index \in Nat \ {0}
      /\ settled \subseteq 1 .. made /\ deletableFiles \subseteq 1 .. made
      /\ lastPost \in (0 .. made) \X {"final", "retry"}
  BY DEF QueueIInv, QueueTyped
<1>6. /\ Len(events) \in Nat /\ DOMAIN events = 1 .. Len(events)
      /\ \A j \in 1 .. Len(events) : events[j] \in 1 .. made
  BY <1>5, LenProperties, ElementOfSeq
<1>7. index \in 1 .. Len(events) /\ f \in 1 .. made /\ f \in Nat
  BY <1>1, <1>3, <1>5, <1>6
<1>8. \A i, j \in 1 .. Len(events) : i < j => events[i] < events[j]
  BY <1>6 DEF QueueIInv, QueueOrdered, Increasing
<1>9. \A j \in index .. Len(events) : MayFollow(events[j])
  BY <1>2 DEF QueueIInv, ToBePosted
<1>10. PostFollows
  <2>1. MayFollow(f)
    BY <1>1, <1>7, <1>9
  <2> QED
    BY <1>2, <2>1 DEF PostFollows
<1>11. \A g : MayFollow(g)' <=> f < g \/ (g = f /\ reply = "retry")
  BY <1>2 DEF MayFollow
\* A file of the queue that is not behind f is in the batch, before f.
<1>12. ASSUME NEW g \in ToSet(queuedFiles)
       PROVE  f < g \/ g = f \/ g \in deletableFiles
  <2>1. g \in 1 .. made
    BY ElementsIn DEF QueueIInv, QueueTyped
  <2>2. SUFFICES ASSUME g < f PROVE g \in deletableFiles
    BY <1>7, <2>1
  <2>3. f \in ToSet(batchFiles)
    BY <1>1, <1>3, <1>6, <1>7 DEF ToSet
  <2>4. g \in ToSet(events)
    BY <1>3, <1>7, <2>1, <2>2, <2>3 DEF QueueIInv, BatchIsFront
  <2>5. PICK j \in 1 .. Len(events) : g = events[j]
    BY <1>6, <2>4 DEF ToSet
  <2>6. ~(index < j) /\ index # j
    BY <1>1, <1>7, <1>8, <2>1, <2>2, <2>5
  <2>7. j \in 1 .. index - 1
    BY <1>6, <1>7, <2>5, <2>6
  <2> QED
    BY <1>3, <2>5, <2>7
<1>13. QueueTyped'
  <2>1. settled' \subseteq 1 .. made /\ deletableFiles' \subseteq 1 .. made
    BY <1>4, <1>5, <1>7
  <2>2. index' \in Nat \ {0}
    BY <1>4, <1>5
  <2>3. lastPost' \in (0 .. made) \X {"final", "retry"}
    <3>1. f \in 0 .. made
      BY <1>7
    <3> QED
      BY <1>2, <3>1
  <2>4. {stopRequested', flushRequested', due', paused', final', shouldRetry'} \subseteq BOOLEAN
    BY <1>2, <1>4 DEF QueueIInv, QueueTyped
  <2>5. worker' \in {"wait", "take", "read", "post", "finish", "ended", "cleaned"}
    BY <1>4
  <2> QED
    BY <1>2, <2>1, <2>2, <2>3, <2>4, <2>5 DEF QueueIInv, QueueTyped
<1>14. QueueOrdered'
  BY <1>2 DEF QueueIInv, QueueOrdered
<1>15. worker' \in {"post", "finish"}
  BY <1>4
<1>16. Unflushed' /\ BatchRead'
  BY <1>15 DEF Unflushed, BatchRead
<1>17. BatchPosted'
  <2>1. CASE reply = "final"
    <3>1. /\ deletableFiles' = deletableFiles \cup {f} /\ settled' = settled \cup {f}
          /\ index' = index + 1 /\ shouldRetry' = FALSE
          /\ worker' = IF index = Len(events) THEN "finish" ELSE "post"
      BY <1>4, <2>1
    <3>2. {events[j] : j \in 1 .. index' - 1} = {events[j] : j \in 1 .. index - 1} \cup {f}
      BY <1>1, <1>7, <3>1
    <3>3. deletableFiles' = {events'[j] : j \in 1 .. index' - 1}
      BY <1>2, <1>3, <3>1, <3>2
    <3>4. deletableFiles' \subseteq settled'
      BY <1>3, <3>1
    <3>5. PICK n \in Nat : n = Len(events) /\ n = Len(events')
      BY <1>2, <1>6
    <3>6. index' <= n + 1
      BY <1>7, <3>1, <3>5
    <3>7. worker' = "post" => index' <= n
      BY <1>7, <3>1, <3>5
    <3>8. worker' = "finish" => index' = n + 1
      BY <1>7, <3>1, <3>5
    <3> QED
      BY <1>2, <1>3, <3>1, <3>3, <3>4, <3>5, <3>6, <3>7, <3>8 DEF BatchPosted
  <2>2. CASE reply = "retry"
    <3>1. /\ shouldRetry' = TRUE /\ worker' = "finish"
          /\ UNCHANGED <<deletableFiles, settled, index>>
      BY <1>4, <2>2
    <3>2. PICK n \in Nat : n = Len(events) /\ n = Len(events')
      BY <1>2, <1>6
    <3>3. index' <= n + 1
      BY <1>7, <3>1, <3>2
    <3> QED
      BY <1>2, <1>3, <3>1, <3>2, <3>3 DEF BatchPosted
  <2> QED
    BY <2>1, <2>2
<1>18. BatchIsFront'
  BY <1>2 DEF QueueIInv, BatchIsFront
<1>19. ToBePosted'
  <2>1. deletableFiles \subseteq deletableFiles' /\ (f \in deletableFiles' \/ reply = "retry")
    BY <1>4
  <2>2. \A g \in ToSet(queuedFiles') : MayFollow(g)' \/ g \in deletableFiles'
    BY <1>2, <1>11, <1>12, <2>1
  <2>3. ASSUME worker' = "post", NEW j \in index' .. Len(events')
        PROVE  lastPost'[1] < events'[j]
    <3>1. index' = index + 1 /\ events' = events
      BY <1>2, <1>4, <2>3
    <3>2. j \in 1 .. Len(events) /\ index < j
      BY <1>6, <1>7, <2>3, <3>1
    <3>3. f < events[j]
      BY <1>1, <1>7, <1>8, <3>2
    <3> QED
      BY <1>2, <3>1, <3>3
  <2> QED
    BY <1>15, <2>2, <2>3 DEF ToBePosted, MayFollow
<1>20. EventsAreKept'
  <2>1. settled \subseteq settled' /\ worker # "cleaned"
    BY <1>2, <1>4
  <2> QED
    BY <1>2, <2>1 DEF QueueIInv, EventsAreKept
<1> QED
  BY <1>10, <1>13, <1>14, <1>16, <1>17, <1>18, <1>19, <1>20 DEF QueueIInv

LEMMA FinishKeeps ==
    ASSUME QueueIInv, finish
    PROVE  QueueIInv'
<1>1. /\ worker = "finish" /\ LeaveFlush /\ paused' = shouldRetry
      /\ UNCHANGED <<stopRequested, flushRequested, due, final, made, lastPost, settled>>
  BY DEF finish, requested, record
<1>2. PICK gone : gone = IF shouldRetry THEN deletableFiles ELSE ToSet(batchFiles)
  OBVIOUS
<1>3. queuedFiles' = Without(queuedFiles, gone) /\ onDisk' = onDisk \ gone
  BY <1>2 DEF finish, deleteFilesLocked
<1>4. /\ events = batchFiles /\ deletableFiles = {events[j] : j \in 1 .. index - 1}
      /\ deletableFiles \subseteq settled
      /\ shouldRetry \/ index = Len(events) + 1
  BY <1>1 DEF QueueIInv, BatchPosted
<1>5. /\ events \in Seq(1 .. made) /\ settled \subseteq 1 .. made
      /\ shouldRetry \in BOOLEAN
  BY DEF QueueIInv, QueueTyped
<1>6. gone = deletableFiles
  <2>1. CASE shouldRetry = TRUE
    BY <1>2, <2>1
  <2>2. CASE shouldRetry = FALSE
    <3>1. Len(events) \in Nat /\ DOMAIN events = 1 .. Len(events)
      BY <1>5, LenProperties
    <3>2. index = Len(events) + 1
      BY <1>4, <2>2
    <3>3. index - 1 = Len(events)
      BY <3>1, <3>2
    <3>4. ToSet(events) = {events[j] : j \in 1 .. Len(events)}
      BY <3>1 DEF ToSet
    <3> QED
      BY <1>2, <1>4, <2>2, <3>3, <3>4
  <2> QED
    BY <1>5, <2>1, <2>2
<1>7. /\ gone \in SUBSET (1 .. made) /\ settled \cup gone \subseteq settled'
      /\ settled' \subseteq 1 .. made /\ deletableFiles \subseteq gone
  BY <1>1, <1>4, <1>5, <1>6
<1> QED
  BY <1>1, <1>3, <1>5, <1>7, LeaveKeeps

LEMMA CleanKeeps ==
    ASSUME QueueIInv, cleanupRunDirectory
    PROVE  QueueIInv'
<1>1. /\ worker = "ended" /\ worker' = "cleaned" /\ onDisk' = {}
      /\ UNCHANGED <<queuedFiles, stopRequested, flushRequested, due, paused, final>>
      /\ UNCHANGED <<batchFiles, reading, invalidFiles, events, index, deletableFiles>>
      /\ UNCHANGED <<shouldRetry, made, lastPost, settled>>
  BY DEF cleanupRunDirectory, requested, clock, flush, record
<1>2. QueueTyped'
  <2>1. onDisk' \subseteq 1 .. made
    BY <1>1
  <2> QED
    BY <1>1, <2>1 DEF QueueIInv, QueueTyped
<1>3. QueueOrdered'
  BY <1>1 DEF QueueIInv, QueueOrdered
<1>4. Unflushed' /\ BatchRead' /\ BatchPosted'
  BY <1>1 DEF QueueIInv, Unflushed, BatchRead, BatchPosted
<1>5. BatchIsFront'
  BY <1>1 DEF QueueIInv, BatchIsFront
<1>6. \A f : MayFollow(f)' <=> MayFollow(f)
  BY <1>1 DEF MayFollow
<1>7. ToBePosted'
  BY <1>1, <1>6 DEF QueueIInv, ToBePosted
<1>8. EventsAreKept'
  BY <1>1 DEF QueueIInv, EventsAreKept
<1> QED
  BY <1>2, <1>3, <1>4, <1>5, <1>7, <1>8 DEF QueueIInv

LEMMA QueueStep ==
    ASSUME QueueIInv, [QueueNext]_queueVars
    PROVE  QueueIInv' /\ PostFollows
<1> DEFINE Booleans == {stopRequested', flushRequested', due', paused', final'} \subseteq BOOLEAN
<1>1. CASE event
  BY <1>1, EventKeeps
<1>2. CASE interval \/ pauseOver \/ wakeUpToStop \/ wakeUp \/ requestStop \/ UNCHANGED queueVars
  <2>1. UNCHANGED <<queuedFiles, onDisk, flush, record>>
    BY <1>2 DEF interval, pauseOver, wakeUpToStop, wakeUp, requestStop, queueVars
  <2>2. worker' = worker \/ {worker, worker'} \subseteq {"wait", "take"}
    BY <1>2 DEF interval, pauseOver, wakeUpToStop, wakeUp, requestStop, queueVars
  <2>3. {stopRequested, flushRequested, due, paused, final} \subseteq BOOLEAN
    BY DEF QueueIInv, QueueTyped
  <2>4. Booleans
    BY <1>2, <2>3 DEF interval, pauseOver, wakeUpToStop, wakeUp, requestStop, queueVars,
                      requested, clock
  <2>5. PostFollows
    BY <2>1 DEF record, PostFollows
  <2> QED
    BY <2>1, <2>2, <2>4, <2>5, StillKeeps
<1>3. CASE takeBatch
  BY <1>3, TakeKeeps DEF takeBatch, record, PostFollows
<1>4. CASE readFile
  BY <1>4, ReadKeeps DEF readFile, record, PostFollows
<1>5. CASE removeInvalid
  BY <1>5, RemoveInvalidKeeps DEF removeInvalid, PostFollows
<1>6. CASE \E reply \in {"final", "retry"} : postEvent(reply)
  BY <1>6, PostKeeps
<1>7. CASE finish
  BY <1>7, FinishKeeps DEF finish, record, PostFollows
<1>8. CASE cleanupRunDirectory
  BY <1>8, CleanKeeps DEF cleanupRunDirectory, record, PostFollows
<1> QED
  BY <1>1, <1>2, <1>3, <1>4, <1>5, <1>6, <1>7, <1>8 DEF QueueNext, Worker

\* The types of the telemetry queue, which never holds more than maxQueueSize
\* files, and the order of its files (Telemetry.cpp:364-393, 508-535).
THEOREM QueueTypeCorrect == QueueSpec => [](QueueTyped /\ QueueOrdered)
<1>1. QueueInit => QueueIInv
  BY InitQueueIInv
<1>2. QueueIInv /\ [QueueNext]_queueVars => QueueIInv'
  BY QueueStep
<1>3. QueueIInv => QueueTyped /\ QueueOrdered
  BY DEF QueueIInv
<1> QED
  BY <1>1, <1>2, <1>3, PTL DEF QueueSpec

\* No telemetry event vanishes, although a batch is posted without the mutex
\* while events come and the oldest are dropped: each is queued and on disk, or
\* answered for good, or was given up (Telemetry.cpp:508-535, 641-771).
THEOREM QueueEventsAreKept == QueueSpec => []EventsAreKept
<1>1. QueueInit => QueueIInv
  BY InitQueueIInv
<1>2. QueueIInv /\ [QueueNext]_queueVars => QueueIInv'
  BY QueueStep
<1>3. QueueIInv => EventsAreKept
  BY DEF QueueIInv
<1> QED
  BY <1>1, <1>2, <1>3, PTL DEF QueueSpec

\* Events are posted in the order they were sent, and one is posted again only
\* if its answer asked for it (Telemetry.cpp:700-771).
THEOREM QueuePostedInOrder == QueueSpec => PostedInOrder
<1>1. QueueInit => QueueIInv
  BY InitQueueIInv
<1>2. QueueIInv /\ [QueueNext]_queueVars => QueueIInv'
  BY QueueStep
<1>3. QueueIInv /\ [QueueNext]_queueVars =>
         [\/ lastPost' = lastPost
          \/ lastPost[1] < lastPost'[1]
          \/ lastPost = <<lastPost'[1], "retry">>]_lastPost
  BY QueueStep DEF PostFollows, MayFollow
<1> QED
  BY <1>1, <1>2, <1>3, PTL DEF QueueSpec, PostedInOrder

=============================================================================

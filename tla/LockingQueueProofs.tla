------------------------ MODULE LockingQueueProofs ------------------------
(***************************************************************************)
(* What LockingQueue guarantees for any number of threads, any sizes and   *)
(* any number of messages.                                                 *)
(***************************************************************************)
EXTENDS LockingQueue, TLAPS, SequenceTheorems

(***************************************************************************)
(* Removing the k oldest messages splits the queue into two typed parts    *)
(* that make it up again (the eviction loop, front/pop, consumeAll).       *)
(***************************************************************************)
LEMMA Split ==
  ASSUME NEW S, NEW s \in Seq(S), NEW k \in 0 .. Len(s)
  PROVE  /\ SubSeq(s, 1, k) \in Seq(S)
         /\ SubSeq(s, k + 1, Len(s)) \in Seq(S)
         /\ Len(SubSeq(s, k + 1, Len(s))) = Len(s) - k
         /\ SubSeq(s, 1, k) \o SubSeq(s, k + 1, Len(s)) = s
  <1> DEFINE n == Len(s)
  <1>1. /\ n \in Nat /\ k \in Nat /\ k <= n
        /\ \A i \in 1 .. n : s[i] \in S
    BY LenProperties
  <1>2. SubSeq(s, 1, k) \in Seq(S)
    BY <1>1, SubSeqProperties
  <1>3. /\ SubSeq(s, k + 1, n) \in Seq(S)
        /\ Len(SubSeq(s, k + 1, n)) = n - k
    <2>1. /\ k + 1 \in Int /\ n \in Int
          /\ \A i \in k + 1 .. n : s[i] \in S
      BY <1>1
    <2>2. /\ SubSeq(s, k + 1, n) \in Seq(S)
          /\ Len(SubSeq(s, k + 1, n)) = IF k + 1 <= n THEN n - (k + 1) + 1 ELSE 0
      BY <2>1, SubSeqProperties
    <2> QED  BY <1>1, <2>2
  <1>4. SubSeq(s, 1, k) \o SubSeq(s, k + 1, n) = SubSeq(s, 1, n)
    <2>1. 1 \in 1 .. n + 1 /\ k \in 1 - 1 .. n /\ n \in k .. n
      BY <1>1
    <2> QED  BY <2>1, ConcatAdjacentSubSeq
  <1>5. SubSeq(s, 1, n) = s
    BY SubSeqFull
  <1> QED  BY <1>2, <1>3, <1>4, <1>5

(***************************************************************************)
(* Concatenation of message sequences is associative.                      *)
(***************************************************************************)
LEMMA Assoc ==
  ASSUME NEW r \in Seq(Msgs), NEW s \in Seq(Msgs), NEW t \in Seq(Msgs)
  PROVE  (r \o s) \o t = r \o (s \o t)
  BY ConcatAssociative

-----------------------------------------------------------------------------
(* The inductive invariant. *)

\* What a thread's place says about the operation it executes.
Coherent == \A t \in Threads :
    /\ pc[t] = "sleepPop" => op[t] \in PushOps \cup {"waitEmpty"}
    /\ pc[t] = "sleepPush" => op[t] \in PopOps \cup ConsumeOps
    /\ pc[t] = "woken" => op[t] # "none"
    /\ pc[t] \in {"idle", "notifyPop", "notifyPush"} => op[t] = "none"

\* No accepted message, and none another thread is about to push, equals m.
Fresh(t, m) == /\ \A i \in DOMAIN accepted : accepted[i] # m
               /\ \A u \in Threads \ {t} : op[u] \in PushOps => data[u] # m

\* A waiting push still owns a message of its own.
Pending == /\ \A i \in DOMAIN accepted : accepted[i] <= calls
           /\ \A t \in Threads : op[t] \in PushOps =>
                 data[t] \in 1 .. calls /\ Fresh(t, data[t])

IInv == /\ TypeOK
        /\ Coherent
        /\ Pending
        /\ FifoExactlyOnce
        /\ NoMissedPush
        /\ NoMissedPop
        /\ ClosedParksNobody

(***************************************************************************)
(* Storing a message nobody else has, after overwriting the k oldest ones, *)
(* keeps the types and the order, and lengthens the queue by 1 - k.        *)
(***************************************************************************)
LEMMA EnqueueKeepsOrder ==
  ASSUME TypeOK, FifoExactlyOnce, NEW k \in 0 .. Len(queue), NEW m \in Msgs,
         \A i \in DOMAIN accepted : accepted[i] # m,
         Enqueue(m, k)
  PROVE  /\ queue' \in Seq(Msgs) /\ accepted' \in Seq(Msgs)
         /\ left' \in Seq(Msgs) /\ dropped' \subseteq Msgs
         /\ FifoExactlyOnce'
         /\ Len(queue') = Len(queue) - k + 1 /\ queue' # << >>
         /\ \A i \in DOMAIN accepted' :
               accepted'[i] = m \/ \E j \in DOMAIN accepted : accepted'[i] = accepted[j]
  <1> DEFINE gone == SubSeq(queue, 1, k)
             kept == SubSeq(queue, k + 1, Len(queue))
  <1>0. /\ queue \in Seq(Msgs) /\ accepted \in Seq(Msgs) /\ left \in Seq(Msgs)
        /\ dropped \subseteq Msgs /\ Len(queue) \in Nat
    BY DEF TypeOK
  <1>1. /\ gone \in Seq(Msgs) /\ kept \in Seq(Msgs)
        /\ Len(kept) = Len(queue) - k /\ gone \o kept = queue
    BY <1>0, Split
  <1>2. /\ queue' = Append(kept, m) /\ accepted' = Append(accepted, m)
        /\ left' = left \o gone /\ dropped' = dropped \cup Drops(k)
    BY DEF Enqueue
  <1> HIDE DEF gone, kept
  <1>3. /\ queue' \in Seq(Msgs) /\ Len(queue') = Len(kept) + 1
        /\ accepted' \in Seq(Msgs) /\ left' \in Seq(Msgs)
    <2>1. queue' \in Seq(Msgs) /\ Len(queue') = Len(kept) + 1
      BY <1>1, <1>2, AppendProperties
    <2>2. accepted' \in Seq(Msgs)
      BY <1>0, <1>2, AppendProperties
    <2>3. left' \in Seq(Msgs)
      BY <1>0, <1>1, <1>2, ConcatProperties
    <2> QED  BY <2>1, <2>2, <2>3
  <1>4. dropped' \subseteq Msgs
    <2>1. \A i \in 1 .. Len(queue) : queue[i] \in Msgs
      BY <1>0, LenProperties
    <2>2. Drops(k) \subseteq Msgs
      BY <2>1, <1>0 DEF Drops
    <2> QED  BY <1>0, <1>2, <2>2
  <1>5. accepted' = left' \o queue'
    <2>1. accepted = (left \o gone) \o kept
      BY <1>0, <1>1, Assoc DEF FifoExactlyOnce
    <2>2. Append(accepted, m) = accepted \o <<m>> /\ Append(kept, m) = kept \o <<m>>
      BY <1>0, <1>1, AppendIsConcat
    <2>3. /\ left \o gone \in Seq(Msgs) /\ <<m>> \in Seq(Msgs)
      BY <1>0, <1>1
    <2>4. ((left \o gone) \o kept) \o <<m>> = (left \o gone) \o (kept \o <<m>>)
      BY <1>1, <2>3, Assoc
    <2> QED  BY <1>2, <2>1, <2>2, <2>4
  <1>6. /\ DOMAIN accepted = 1 .. Len(accepted) /\ Len(accepted) \in Nat
        /\ DOMAIN accepted' = 1 .. Len(accepted) + 1
        /\ \A i \in DOMAIN accepted : accepted'[i] = accepted[i]
        /\ accepted'[Len(accepted) + 1] = m
    BY <1>0, <1>2
  <1>7. \A i, j \in DOMAIN accepted' : accepted'[i] = accepted'[j] => i = j
    <2>1. \A i \in DOMAIN accepted' : i \in DOMAIN accepted \/ i = Len(accepted) + 1
      BY <1>6
    <2>2. \A i, j \in DOMAIN accepted : accepted[i] = accepted[j] => i = j
      BY DEF FifoExactlyOnce
    <2> QED  BY <1>6, <2>1, <2>2
  <1>8. \A i \in DOMAIN accepted' :
           accepted'[i] = m \/ \E j \in DOMAIN accepted : accepted'[i] = accepted[j]
    BY <1>6
  <1>9. queue' # << >>
    BY <1>0, <1>1, <1>3
  <1> QED
    BY <1>1, <1>3, <1>4, <1>5, <1>7, <1>8, <1>9 DEF FifoExactlyOnce

(***************************************************************************)
(* Handing out the k oldest messages keeps the types and the order.        *)
(***************************************************************************)
LEMMA DequeueKeepsOrder ==
  ASSUME TypeOK, FifoExactlyOnce, NEW k \in 0 .. Len(queue), Dequeue(k)
  PROVE  /\ queue' \in Seq(Msgs) /\ left' \in Seq(Msgs)
         /\ FifoExactlyOnce'
         /\ Len(queue') = Len(queue) - k
  <1>1. /\ queue \in Seq(Msgs) /\ left \in Seq(Msgs)
        /\ accepted = left \o queue
    BY DEF TypeOK, FifoExactlyOnce
  <1> DEFINE gone == SubSeq(queue, 1, k)
             kept == SubSeq(queue, k + 1, Len(queue))
  <1>2. /\ gone \in Seq(Msgs) /\ kept \in Seq(Msgs)
        /\ Len(kept) = Len(queue) - k /\ gone \o kept = queue
    BY <1>1, Split
  <1>3. queue' = kept /\ left' = left \o gone /\ accepted' = accepted
    BY DEF Dequeue
  <1> HIDE DEF gone, kept
  <1>4. left \o (gone \o kept) = (left \o gone) \o kept
    BY <1>1, <1>2, Assoc
  <1>5. accepted' = left' \o queue'
    BY <1>1, <1>2, <1>3, <1>4
  <1>6. left' \in Seq(Msgs)
    BY <1>1, <1>2, <1>3
  <1> QED  BY <1>2, <1>3, <1>5, <1>6 DEF FifoExactlyOnce

-----------------------------------------------------------------------------
(* One thread moves: its place, its operation and its message change. *)

\* Thread t, and only t, is now at place, executing o with message m.
Moved(t, place, o, m) ==
    /\ pc' \in [Threads -> Places]
    /\ op' \in [Threads -> Ops]
    /\ data' \in [Threads -> 0 .. MaxMsgs]
    /\ pc'[t] = place /\ op'[t] = o /\ data'[t] = m
    /\ \A u \in Threads \ {t} : pc'[u] = pc[u] /\ op'[u] = op[u] /\ data'[u] = data[u]

\* A place and an operation that go together.
Fits(place, o) == /\ place = "sleepPop" => o \in PushOps \cup {"waitEmpty"}
                  /\ place = "sleepPush" => o \in PopOps \cup ConsumeOps
                  /\ place = "woken" => o # "none"
                  /\ place \in {"idle", "notifyPop", "notifyPush"} => o = "none"

(***************************************************************************)
(* Moving one thread to a place that fits its operation keeps the thread   *)
(* state typed and coherent.                                               *)
(***************************************************************************)
LEMMA GotoMoves ==
  ASSUME TypeOK, Coherent, NEW t \in Threads, NEW place \in Places, NEW o \in Ops,
         NEW m \in 0 .. MaxMsgs, Fits(place, o), Goto(t, place, o, m)
  PROVE  Moved(t, place, o, m) /\ Coherent'
  <1>1. Moved(t, place, o, m)
    BY DEF TypeOK, Goto, Moved
  <1>2. ASSUME NEW u \in Threads
        PROVE  Fits(pc'[u], op'[u])
    <2>1. CASE u = t
      BY <1>1, <2>1 DEF Moved
    <2>2. CASE u # t
      <3>1. pc'[u] = pc[u] /\ op'[u] = op[u]
        BY <1>1, <2>2 DEF Moved
      <3> QED  BY <3>1 DEF Coherent, Fits
    <2> QED  BY <2>1, <2>2
  <1> QED  BY <1>1, <1>2 DEF Coherent, Fits

(***************************************************************************)
(* Waiting pushes keep messages of their own when t moves, whether t keeps *)
(* its message m for a later push or its message x was just accepted.      *)
(***************************************************************************)
LEMMA PendingKept ==
  ASSUME TypeOK, Pending, NEW t \in Threads, NEW place, NEW o \in Ops, NEW m, NEW x,
         Moved(t, place, o, m), calls' \in Nat, calls <= calls',
         o \in PushOps => m \in 1 .. calls' /\ Fresh(t, m),
         \A i \in DOMAIN accepted' :
            \/ \E j \in DOMAIN accepted : accepted'[i] = accepted[j]
            \/ /\ accepted'[i] = x /\ x \in 1 .. calls'
               /\ Fresh(t, x) /\ o \notin PushOps
  PROVE  Pending'
  <1>0. calls \in Nat /\ (\A j \in DOMAIN accepted : accepted[j] \in Nat)
    <2>1. accepted \in Seq(Msgs) /\ calls \in Nat /\ Msgs \subseteq Nat
      BY BoundAssumption DEF TypeOK, Msgs
    <2> QED  BY <2>1, LenProperties
  <1>1. \A i \in DOMAIN accepted' : accepted'[i] <= calls'
    BY <1>0 DEF Pending
  <1>2. ASSUME NEW u \in Threads, op'[u] \in PushOps
        PROVE  data'[u] \in 1 .. calls' /\ Fresh(u, data[u])'
    <2>1. CASE u = t
      <3>1. op'[t] = o /\ data'[t] = m /\ m \in 1 .. calls' /\ Fresh(t, m)
        BY <1>2, <2>1 DEF Moved
      <3>2. \A i \in DOMAIN accepted' : accepted'[i] # m
        BY <1>2, <2>1, <3>1 DEF Fresh
      <3>3. \A v \in Threads \ {t} : op'[v] \in PushOps => data'[v] # m
        BY <3>1 DEF Moved, Fresh
      <3> QED  BY <2>1, <3>1, <3>2, <3>3 DEF Fresh
    <2>2. CASE u # t
      <3>1. op'[u] = op[u] /\ data'[u] = data[u] /\ op[u] \in PushOps
        BY <1>2, <2>2 DEF Moved
      <3>2. data[u] \in 1 .. calls /\ Fresh(u, data[u])
        BY <3>1 DEF Pending
      <3>3. data'[u] \in 1 .. calls'
        BY <1>0, <3>1, <3>2
      <3>4. \A i \in DOMAIN accepted' : accepted'[i] # data[u]
        BY <2>2, <3>1, <3>2 DEF Fresh
      <3>5. ASSUME NEW v \in Threads \ {u}, op'[v] \in PushOps
            PROVE  data'[v] # data[u]
        <4>1. CASE v = t
          <5>1. op'[t] = o /\ data'[t] = m
            BY DEF Moved
          <5>2. Fresh(t, m)
            BY <3>5, <4>1, <5>1
          <5> QED  BY <2>2, <3>1, <4>1, <5>1, <5>2 DEF Fresh
        <4>2. CASE v # t
          <5>1. op'[v] = op[v] /\ data'[v] = data[v]
            BY <4>2 DEF Moved
          <5> QED  BY <3>2, <3>5, <5>1 DEF Fresh
        <4> QED  BY <4>1, <4>2
      <3> QED  BY <3>1, <3>3, <3>4, <3>5 DEF Fresh
    <2> QED  BY <2>1, <2>2
  <1> QED  BY <1>1, <1>2 DEF Pending

-----------------------------------------------------------------------------
(* The steps shared by several operations. *)

\* Thread t may execute o with message m: a push brings a message of its own.
Call(t, o, m) == /\ pc[t] \notin {"notifyPop", "notifyPush"}
                 /\ m \in 0 .. MaxMsgs
                 /\ calls' \in 0 .. MaxMsgs /\ calls <= calls'
                 /\ o \in PushOps => m \in 1 .. calls' /\ Fresh(t, m)

(***************************************************************************)
(* Parking on a condition variable keeps the invariant: the predicate was  *)
(* false under the guard, so nothing the thread waits for is already there.*)
(***************************************************************************)
LEMMA ParkStep ==
  ASSUME IInv, NEW t \in Threads, NEW o \in Ops \ {"none"}, NEW m,
         Call(t, o, m), Park(t, o, m)
  PROVE  IInv'
  <1> USE DEF IInv
  <1>1. /\ ~Ready(o) /\ Goto(t, Sleep(o), o, m)
        /\ UNCHANGED <<fields, history, silent>>
    BY DEF Park
  <1>2. Fits(Sleep(o), o) /\ Sleep(o) \in Places
    BY DEF Fits, Sleep, Places, Ops, PushOps, PopOps, ConsumeOps
  <1>3. Moved(t, Sleep(o), o, m) /\ Coherent'
    BY <1>1, <1>2, GotoMoves DEF Call
  <1>4. TypeOK'
    BY <1>1, <1>3 DEF TypeOK, Moved, Call, fields, history
  <1>5. Pending'
    <2>1. calls' \in Nat
      BY BoundAssumption DEF Call
    <2> QED  BY <1>1, <1>3, <2>1, PendingKept DEF Call, history
  <1>6. FifoExactlyOnce'
    BY <1>1 DEF FifoExactlyOnce, fields, history
  <1>7. /\ queue' = queue /\ maxSize' = maxSize /\ destructed' = destructed
        /\ silent' = silent
    BY <1>1 DEF fields
  <1>8. ~destructed
    BY <1>1 DEF Ready
  <1>9. \A u \in Threads : /\ pc[u] = "notifyPush" => pc'[u] = "notifyPush"
                           /\ pc[u] = "notifyPop" => pc'[u] = "notifyPop"
    BY <1>3 DEF Moved, Call
  <1>10. NoMissedPush'
    <2>1. CASE o \in PopOps \cup ConsumeOps
      BY <1>1, <1>7, <2>1 DEF NoMissedPush, Ready
    <2>2. CASE o \notin PopOps \cup ConsumeOps
      <3>1. \A u \in Threads : pc'[u] = "sleepPush" => pc[u] = "sleepPush"
        BY <1>2, <1>3, <2>2 DEF Moved, Fits
      <3> QED  BY <1>7, <1>9, <3>1 DEF NoMissedPush
    <2> QED  BY <2>1, <2>2
  <1>11. NoMissedPop'
    <2>1. \A u \in Threads : pc'[u] = "sleepPop" /\ Ready(op[u])'
                              => pc[u] = "sleepPop" /\ Ready(op[u])
      BY <1>1, <1>3, <1>7 DEF Moved, Ready
    <2> QED  BY <1>7, <1>9, <2>1 DEF NoMissedPop
  <1>12. ClosedParksNobody'
    BY <1>7, <1>8 DEF ClosedParksNobody
  <1> QED  BY <1>3, <1>4, <1>5, <1>6, <1>10, <1>11, <1>12

(***************************************************************************)
(* Leaving the queue without touching it keeps the invariant: the wait of  *)
(* a destructed queue, a wait that ran out, waitEmpty.                     *)
(***************************************************************************)
LEMMA ReturnStep ==
  ASSUME IInv, NEW t \in Threads, pc[t] \notin {"notifyPop", "notifyPush"},
         Return(t), calls' \in 0 .. MaxMsgs, calls <= calls',
         UNCHANGED <<fields, history, silent>>
  PROVE  IInv'
  <1> USE DEF IInv
  <1>1. Goto(t, "idle", "none", 0)
    BY DEF Return
  <1>2. Fits("idle", "none") /\ "idle" \in Places /\ "none" \in Ops /\ 0 \in 0 .. MaxMsgs
    BY BoundAssumption DEF Fits, Places, Ops
  <1>3. Moved(t, "idle", "none", 0) /\ Coherent'
    BY <1>1, <1>2, GotoMoves
  <1>4. TypeOK'
    BY <1>3 DEF TypeOK, Moved, fields, history
  <1>5. Pending'
    <2>1. calls' \in Nat /\ "none" \notin PushOps
      BY BoundAssumption DEF PushOps
    <2> QED  BY <1>2, <1>3, <2>1, PendingKept DEF history
  <1>6. FifoExactlyOnce'
    BY DEF FifoExactlyOnce, fields, history
  <1>7. /\ queue' = queue /\ maxSize' = maxSize /\ destructed' = destructed
        /\ silent' = silent
    BY DEF fields
  <1>8. \A u \in Threads : /\ pc[u] = "notifyPush" => pc'[u] = "notifyPush"
                           /\ pc[u] = "notifyPop" => pc'[u] = "notifyPop"
                           /\ pc'[u] = "sleepPush" => pc[u] = "sleepPush"
                           /\ pc'[u] = "sleepPop" => pc[u] = "sleepPop" /\ op'[u] = op[u]
    BY <1>3 DEF Moved
  <1>9. NoMissedPush'
    BY <1>7, <1>8 DEF NoMissedPush
  <1>10. NoMissedPop'
    BY <1>7, <1>8 DEF NoMissedPop, Ready
  <1>11. ClosedParksNobody'
    BY <1>7, <1>8 DEF ClosedParksNobody, Asleep
  <1> QED  BY <1>3, <1>4, <1>5, <1>6, <1>9, <1>10, <1>11

(***************************************************************************)
(* Storing a message keeps the invariant: the thread that stored it is     *)
(* about to notify signalPush, and neither the free room nor an empty      *)
(* queue can appear by storing one message over at most the excess.        *)
(***************************************************************************)
LEMMA EnqueueStep ==
  ASSUME IInv, NEW t \in Threads, NEW o \in PushOps, NEW m, Call(t, o, m),
         NEW k \in 0 .. Len(queue), k = 0 \/ Len(queue) - k + 1 >= maxSize,
         Enqueue(m, k), Goto(t, "notifyPush", "none", 0),
         UNCHANGED <<maxSize, blocking, destructed, silent>>
  PROVE  IInv'
  <1> USE DEF IInv
  <1>1. m \in 1 .. calls' /\ Fresh(t, m) /\ m \in Msgs /\ calls' \in Nat
    BY BoundAssumption DEF Call, Msgs
  <1>2. Fits("notifyPush", "none") /\ "notifyPush" \in Places /\ "none" \in Ops
        /\ 0 \in 0 .. MaxMsgs
    BY BoundAssumption DEF Fits, Places, Ops
  <1>3. Moved(t, "notifyPush", "none", 0) /\ Coherent'
    BY <1>2, GotoMoves
  <1>4. /\ queue' \in Seq(Msgs) /\ accepted' \in Seq(Msgs)
        /\ left' \in Seq(Msgs) /\ dropped' \subseteq Msgs
        /\ FifoExactlyOnce'
        /\ Len(queue') = Len(queue) - k + 1 /\ queue' # << >>
        /\ \A i \in DOMAIN accepted' :
              accepted'[i] = m \/ \E j \in DOMAIN accepted : accepted'[i] = accepted[j]
    BY <1>1, EnqueueKeepsOrder DEF Fresh
  <1>5. TypeOK'
    BY <1>3, <1>4 DEF TypeOK, Moved, Call
  <1>6. Pending'
    <2>1. "none" \notin PushOps
      BY DEF PushOps
    <2> QED  BY <1>1, <1>2, <1>3, <1>4, <2>1, PendingKept DEF Call
  <1>7. pc'[t] = "notifyPush"
    BY <1>3 DEF Moved
  <1>8. \A u \in Threads : /\ pc[u] = "notifyPop" => pc'[u] = "notifyPop"
                           /\ pc'[u] \in {"sleepPop", "sleepPush"}
                                => pc[u] = pc'[u] /\ op'[u] = op[u]
    BY <1>3 DEF Moved, Call
  <1>9. NoMissedPush'
    BY <1>7 DEF NoMissedPush
  <1>10. ASSUME NEW u \in Threads, pc'[u] = "sleepPop", Ready(op[u])'
         PROVE  pc[u] = "sleepPop" /\ Ready(op[u])
    <2>1. pc[u] = "sleepPop" /\ op'[u] = op[u]
      BY <1>8, <1>10
    <2>2. op[u] \in PushOps \cup {"waitEmpty"}
      BY <2>1 DEF Coherent
    <2>3. Len(queue) \in Nat /\ maxSize \in Nat
      BY SizesAssumption, LenProperties DEF TypeOK
    <2> QED
      BY <1>4, <1>10, <2>1, <2>2, <2>3 DEF Ready, PushOps, PopOps, ConsumeOps
  <1>11. NoMissedPop'
    BY <1>8, <1>10 DEF NoMissedPop
  <1>12. ClosedParksNobody'
    BY <1>8 DEF ClosedParksNobody, Asleep
  <1> QED  BY <1>3, <1>4, <1>5, <1>6, <1>9, <1>11, <1>12

(***************************************************************************)
(* Handing out messages keeps the invariant: the thread that made room is  *)
(* about to notify signalPop.                                              *)
(***************************************************************************)
LEMMA DequeueStep ==
  ASSUME IInv, NEW t \in Threads, pc[t] \notin {"notifyPop", "notifyPush"},
         NEW k \in 0 .. Len(queue), Dequeue(k), Goto(t, "notifyPop", "none", 0),
         calls' = calls, UNCHANGED <<maxSize, blocking, destructed, silent>>
  PROVE  IInv'
  <1> USE DEF IInv
  <1>1. /\ queue' \in Seq(Msgs) /\ left' \in Seq(Msgs)
        /\ FifoExactlyOnce' /\ Len(queue') = Len(queue) - k
    BY DequeueKeepsOrder
  <1>2. Fits("notifyPop", "none") /\ "notifyPop" \in Places /\ "none" \in Ops
        /\ 0 \in 0 .. MaxMsgs
    BY BoundAssumption DEF Fits, Places, Ops
  <1>3. Moved(t, "notifyPop", "none", 0) /\ Coherent'
    BY <1>2, GotoMoves
  <1>4. accepted' = accepted /\ dropped' = dropped
    BY DEF Dequeue
  <1>5. TypeOK'
    BY <1>1, <1>3, <1>4 DEF TypeOK, Moved
  <1>6. Pending'
    <2>1. "none" \notin PushOps /\ calls' \in Nat /\ calls <= calls'
      BY BoundAssumption DEF PushOps, TypeOK
    <2> QED  BY <1>2, <1>3, <1>4, <2>1, PendingKept
  <1>7. \A u \in Threads : /\ pc[u] = "notifyPush" => pc'[u] = "notifyPush"
                           /\ pc'[u] \in {"sleepPop", "sleepPush"} => pc[u] = pc'[u]
    BY <1>3 DEF Moved
  <1>8. NoMissedPop'
    BY <1>3 DEF NoMissedPop, Moved
  <1>9. NoMissedPush'
    <2>1. queue' # << >> => queue # << >>
      <3>1. Len(queue) \in Nat /\ (queue = << >> => Len(queue) = 0)
            /\ (queue' # << >> => Len(queue') # 0)
        BY <1>1, EmptySeq DEF TypeOK
      <3> QED  BY <1>1, <3>1
    <2> QED  BY <1>7, <2>1 DEF NoMissedPush
  <1>10. ClosedParksNobody'
    BY <1>7 DEF ClosedParksNobody, Asleep
  <1> QED  BY <1>1, <1>3, <1>5, <1>6, <1>8, <1>9, <1>10

(***************************************************************************)
(* Whatever an operation does once the predicate of its wait holds keeps   *)
(* the invariant.                                                          *)
(***************************************************************************)
LEMMA ProceedStep ==
  ASSUME IInv, NEW t \in Threads, NEW o \in Ops \ {"none"}, NEW m,
         Call(t, o, m), o \notin PushOps => calls' = calls, Proceed(t, o, m)
  PROVE  IInv'
  <1>0. queue \in Seq(Msgs) /\ Len(queue) \in Nat
    BY LenProperties DEF IInv, TypeOK
  <1>1. CASE destructed \/ o = "waitEmpty"
    <2>1. Return(t) /\ UNCHANGED <<queue, history>>
      BY <1>1, Zenon DEF Proceed, PushOps, PopOps, ConsumeOps
    <2>2. UNCHANGED <<fields, history, silent>>
      BY <2>1 DEF Proceed, fields
    <2> QED  BY <2>1, <2>2, ReturnStep DEF Call
  <1>2. CASE ~destructed /\ o \in PushOps
    <2>1. /\ Enqueue(m, 0) /\ Goto(t, "notifyPush", "none", 0)
          /\ UNCHANGED <<maxSize, blocking, destructed, silent>>
      BY <1>2 DEF Proceed, PushOps, PopOps, ConsumeOps
    <2> QED  BY <1>0, <1>2, <2>1, EnqueueStep
  <1>3. CASE ~destructed /\ o \in PopOps
    <2>1. /\ Dequeue(1) /\ Goto(t, "notifyPop", "none", 0)
          /\ UNCHANGED <<maxSize, blocking, destructed, silent>>
      BY <1>3 DEF Proceed, PushOps, PopOps, ConsumeOps
    <2>2. queue # << >> /\ o \notin PushOps
      BY <1>3 DEF Proceed, Ready, PushOps, PopOps, ConsumeOps
    <2>3. 1 \in 0 .. Len(queue)
      BY <1>0, <2>2, EmptySeq
    <2> QED  BY <2>1, <2>2, <2>3, DequeueStep DEF Call
  <1>4. CASE ~destructed /\ o \in ConsumeOps
    <2>1. /\ Dequeue(Len(queue)) /\ Goto(t, "notifyPop", "none", 0)
          /\ UNCHANGED <<maxSize, blocking, destructed, silent>>
      BY <1>4 DEF Proceed, PushOps, PopOps, ConsumeOps
    <2>2. Len(queue) \in 0 .. Len(queue) /\ o \notin PushOps
      BY <1>0, <1>4 DEF PushOps, ConsumeOps
    <2> QED  BY <2>1, <2>2, DequeueStep DEF Call
  <1> QED  BY <1>1, <1>2, <1>3, <1>4 DEF Ops

(***************************************************************************)
(* Waking sleepers changes places only, and only from asleep to woken.     *)
(***************************************************************************)
LEMMA WakeTyped ==
  ASSUME IInv, UNCHANGED <<fields, op, data, calls, history>>,
         pc' \in [Threads -> Places],
         \A u \in Threads : \/ pc'[u] = pc[u]
                            \/ pc'[u] = "woken" /\ Asleep(u)
                            \/ pc'[u] = "idle" /\ pc[u] \in {"notifyPop", "notifyPush"},
         silent' \in BOOLEAN
  PROVE  /\ TypeOK' /\ Coherent' /\ Pending' /\ FifoExactlyOnce' /\ ClosedParksNobody'
         /\ \A u \in Threads : pc'[u] \in {"sleepPop", "sleepPush"} => pc'[u] = pc[u]
  <1> USE DEF IInv
  <1>1. TypeOK'
    BY DEF TypeOK, fields, history
  <1>2. Coherent'
    <2> SUFFICES ASSUME NEW u \in Threads PROVE Fits(pc'[u], op'[u])
      BY DEF Coherent, Fits
    <2>1. op'[u] = op[u] /\ Fits(pc[u], op[u])
      BY DEF Coherent, Fits
    <2>2. "none" \notin PushOps \cup PopOps \cup ConsumeOps \cup {"waitEmpty"}
      BY DEF PushOps, PopOps, ConsumeOps
    <2> QED  BY <2>1, <2>2 DEF Fits, Asleep
  <1>3. Pending'
    BY DEF Pending, Fresh, history
  <1>4. FifoExactlyOnce'
    BY DEF FifoExactlyOnce, fields, history
  <1>5. \A u \in Threads : pc'[u] \in {"sleepPop", "sleepPush"} => pc'[u] = pc[u]
    OBVIOUS
  <1>6. ClosedParksNobody'
    BY <1>5 DEF ClosedParksNobody, Asleep, fields
  <1> QED  BY <1>1, <1>2, <1>3, <1>4, <1>5, <1>6

-----------------------------------------------------------------------------
(* Every action keeps the invariant. *)

(***************************************************************************)
(* The three branches of push and tryWaitAndPush keep the invariant.       *)
(***************************************************************************)
LEMMA PushKeeps == ASSUME IInv, NEW t \in Threads, Push(t) PROVE IInv'
  <1>0. /\ queue \in Seq(Msgs) /\ Len(queue) \in Nat /\ maxSize \in Nat
        /\ calls \in Nat /\ calls \in 0 .. MaxMsgs /\ accepted \in Seq(Msgs)
    BY LenProperties, SizesAssumption, BoundAssumption DEF IInv, TypeOK
  <1>1. /\ pc[t] = "idle" /\ calls' = calls + 1 /\ calls' \in 0 .. MaxMsgs
        /\ calls' \in Msgs /\ calls <= calls' /\ calls' \in 1 .. calls'
    <2>1. NewCall(t)
      BY DEF Push, PushIntoZero, PushOverwriting, PushBlocking
    <2> QED  BY <1>0, <2>1, BoundAssumption DEF NewCall, Msgs
  <1>2. Fresh(t, calls')
    <2>1. \A i \in DOMAIN accepted : accepted[i] <= calls /\ accepted[i] \in Nat
      <3>1. \A i \in DOMAIN accepted : accepted[i] \in Msgs
        BY <1>0, LenProperties
      <3> QED  BY <3>1, BoundAssumption DEF IInv, Pending, Msgs
    <2>2. \A u \in Threads : op[u] \in PushOps => data[u] \in 1 .. calls
      BY DEF IInv, Pending
    <2> QED  BY <1>0, <1>1, <2>1, <2>2 DEF Fresh
  <1>3. \A o \in PushOps : Call(t, o, calls') /\ o \in Ops \ {"none"}
    BY <1>1, <1>2 DEF Call, Ops, PushOps
  <1>4. CASE PushIntoZero(t)
    <2> USE DEF IInv
    <2>1. /\ queue' = << >> /\ left' = left \o queue
          /\ dropped' = dropped \cup Drops(Len(queue))
          /\ silent' = (silent \/ queue # << >>)
          /\ UNCHANGED <<maxSize, blocking, destructed, pc, op, data, accepted>>
      BY <1>4 DEF PushIntoZero
    <2>2. queue' \in Seq(Msgs) /\ left' \in Seq(Msgs) /\ left' = accepted
      <3>1. << >> \in Seq(Msgs)
        BY EmptySeq
      <3> QED  BY <1>0, <2>1, <3>1 DEF FifoExactlyOnce, TypeOK
    <2>3. dropped' \subseteq Msgs
      <3>1. \A i \in 1 .. Len(queue) : queue[i] \in Msgs
        BY <1>0, LenProperties
      <3> QED  BY <2>1, <3>1 DEF Drops, TypeOK
    <2>4. TypeOK'
      BY <1>1, <2>1, <2>2, <2>3 DEF TypeOK
    <2>5. Coherent' /\ NoMissedPush' /\ ClosedParksNobody'
      BY <2>1 DEF Coherent, NoMissedPush, ClosedParksNobody, Asleep
    <2>6. Pending'
      <3>1. \A i \in DOMAIN accepted : accepted[i] \in Msgs
        BY <1>0, LenProperties
      <3> QED  BY <1>0, <1>1, <2>1, <3>1, BoundAssumption DEF Pending, Fresh, Msgs
    <2>7. FifoExactlyOnce'
      <3>1. accepted' = left' \o queue'
        BY <1>0, <2>1, <2>2, ConcatEmptySeq
      <3> QED  BY <2>1, <3>1 DEF FifoExactlyOnce
    <2>8. NoMissedPop'
      <3>1. CASE queue # << >>
        BY <2>1, <3>1 DEF NoMissedPop
      <3>2. CASE queue = << >>
        BY <2>1, <3>2 DEF NoMissedPop, Ready
      <3> QED  BY <3>1, <3>2
    <2> QED  BY <2>4, <2>5, <2>6, <2>7, <2>8
  <1>5. CASE PushOverwriting(t)
    <2>1. /\ maxSize # 0 /\ Enqueue(calls', Excess) /\ Goto(t, "notifyPush", "none", 0)
          /\ UNCHANGED <<maxSize, blocking, destructed, silent>>
      BY <1>5 DEF PushOverwriting
    <2>2. Excess \in 0 .. Len(queue) /\ (Excess = 0 \/ Len(queue) - Excess + 1 >= maxSize)
      BY <1>0, <2>1 DEF Excess
    <2>3. "push" \in PushOps
      BY DEF PushOps
    <2> QED  BY <1>3, <2>1, <2>2, <2>3, EnqueueStep
  <1>6. CASE \E o \in PushOps : PushBlocking(t, o)
    <2>1. PICK o \in PushOps : Park(t, o, calls') \/ Proceed(t, o, calls')
      BY <1>6 DEF PushBlocking
    <2> QED  BY <1>3, <2>1, ParkStep, ProceedStep
  <1> QED  BY <1>4, <1>5, <1>6 DEF Push

(***************************************************************************)
(* waitAndPop, tryWaitAndPop, waitAndConsumeAll, waitEmpty, tryPop and     *)
(* consumeAll keep the invariant.                                          *)
(***************************************************************************)
LEMMA PopKeeps == ASSUME IInv, NEW t \in Threads, Pop(t) PROVE IInv'
  <1>0. /\ queue \in Seq(Msgs) /\ Len(queue) \in Nat
        /\ calls \in Nat /\ calls \in 0 .. MaxMsgs /\ 0 \in 0 .. MaxMsgs
    BY LenProperties, BoundAssumption DEF IInv, TypeOK
  <1>1. CASE ImmediatePop(t)
    <2>1. /\ queue # << >> /\ pc[t] = "idle" /\ Goto(t, "notifyPop", "none", 0)
          /\ UNCHANGED <<maxSize, blocking, destructed, calls, silent>>
      BY <1>1 DEF ImmediatePop
    <2>2. PICK k \in {1, Len(queue)} : Dequeue(k)
      BY <1>1 DEF ImmediatePop
    <2>3. k \in 0 .. Len(queue)
      BY <1>0, <2>1, <2>2, EmptySeq
    <2> QED  BY <2>1, <2>2, <2>3, DequeueStep
  <1>2. ASSUME NEW o \in PopOps \cup ConsumeOps \cup {"waitEmpty"}, WaitingCall(t, o)
        PROVE  IInv'
    <2>1. o \in Ops \ {"none"} /\ o \notin PushOps
      BY DEF Ops, PushOps, PopOps, ConsumeOps
    <2>2. Call(t, o, 0) /\ calls' = calls
      BY <1>0, <1>2, <2>1 DEF WaitingCall, Call
    <2>3. Park(t, o, 0) \/ Proceed(t, o, 0)
      BY <1>2 DEF WaitingCall
    <2> QED  BY <2>1, <2>2, <2>3, ParkStep, ProceedStep
  <1> QED  BY <1>1, <1>2 DEF Pop

(***************************************************************************)
(* Re-evaluating the predicate after a wake-up or after the time ran out   *)
(* keeps the invariant.                                                    *)
(***************************************************************************)
LEMMA WaitKeeps ==
  ASSUME IInv, NEW t \in Threads, Resume(t) \/ TimeOut(t) PROVE IInv'
  <1>0. /\ calls' = calls /\ calls \in Nat /\ calls \in 0 .. MaxMsgs
        /\ data[t] \in 0 .. MaxMsgs /\ op[t] \in Ops
        /\ pc[t] \in {"sleepPop", "sleepPush", "woken"}
    BY BoundAssumption DEF IInv, TypeOK, Resume, TimeOut
  <1>1. op[t] # "none"
    BY <1>0 DEF IInv, Coherent, PushOps, PopOps, ConsumeOps
  <1>2. Call(t, op[t], data[t])
    BY <1>0, <1>1 DEF Call, IInv, Pending
  <1>3. CASE Park(t, op[t], data[t])
    BY <1>0, <1>1, <1>2, <1>3, ParkStep
  <1>4. CASE Proceed(t, op[t], data[t])
    BY <1>0, <1>1, <1>2, <1>4, ProceedStep
  <1>5. CASE Return(t) /\ UNCHANGED <<fields, history, silent>>
    BY <1>0, <1>5, ReturnStep
  <1> QED  BY <1>3, <1>4, <1>5 DEF Resume, TimeOut

(***************************************************************************)
(* Notifications, spurious wake-ups and destruct() keep the invariant: a   *)
(* notify_all that is over has left nobody asleep on its variable.         *)
(***************************************************************************)
LEMMA WakeKeeps ==
  ASSUME IInv, NEW t \in Threads,
         NotifyPop(t) \/ NotifyPush(t) \/ SpuriousWakeup(t)
  PROVE  IInv'
  <1> USE DEF IInv
  <1>0. pc \in [Threads -> Places] /\ silent \in BOOLEAN
    BY DEF TypeOK
  <1>1. CASE NotifyPop(t)
    <2>1. /\ pc[t] = "notifyPop" /\ silent' = FALSE
          /\ UNCHANGED <<fields, op, data, calls, history>>
          /\ pc' = [Awaken("sleepPop") EXCEPT ![t] = "idle"]
      BY <1>1 DEF NotifyPop
    <2>2. /\ pc' \in [Threads -> Places] /\ pc'[t] = "idle"
          /\ \A u \in Threads \ {t} :
                pc'[u] = IF pc[u] = "sleepPop" THEN "woken" ELSE pc[u]
      BY <1>0, <2>1 DEF Awaken, Places
    <2>3. /\ TypeOK' /\ Coherent' /\ Pending' /\ FifoExactlyOnce' /\ ClosedParksNobody'
          /\ \A u \in Threads : pc'[u] \in {"sleepPop", "sleepPush"} => pc'[u] = pc[u]
      BY <2>1, <2>2, WakeTyped DEF Asleep
    <2>4. \A u \in Threads : pc'[u] # "sleepPop"
      BY <2>2
    <2>5. NoMissedPush'
      BY <2>1, <2>2, <2>3 DEF NoMissedPush, fields
    <2> QED  BY <2>3, <2>4, <2>5 DEF NoMissedPop
  <1>2. CASE NotifyPush(t)
    <2>1. /\ pc[t] = "notifyPush" /\ silent' = silent
          /\ UNCHANGED <<fields, op, data, calls, history>>
          /\ pc' = [Awaken("sleepPush") EXCEPT ![t] = "idle"]
      BY <1>2 DEF NotifyPush
    <2>2. /\ pc' \in [Threads -> Places] /\ pc'[t] = "idle"
          /\ \A u \in Threads \ {t} :
                pc'[u] = IF pc[u] = "sleepPush" THEN "woken" ELSE pc[u]
      BY <1>0, <2>1 DEF Awaken, Places
    <2>3. /\ TypeOK' /\ Coherent' /\ Pending' /\ FifoExactlyOnce' /\ ClosedParksNobody'
          /\ \A u \in Threads : pc'[u] \in {"sleepPop", "sleepPush"} => pc'[u] = pc[u]
      BY <1>0, <2>1, <2>2, WakeTyped DEF Asleep
    <2>4. \A u \in Threads : pc'[u] # "sleepPush"
      BY <2>2
    <2>5. NoMissedPop'
      BY <2>1, <2>2, <2>3 DEF NoMissedPop, Ready, fields
    <2> QED  BY <2>3, <2>4, <2>5 DEF NoMissedPush
  <1>3. CASE SpuriousWakeup(t)
    <2>1. /\ Asleep(t) /\ silent' = silent
          /\ UNCHANGED <<fields, op, data, calls, history>>
          /\ pc' = [pc EXCEPT ![t] = "woken"]
      BY <1>3 DEF SpuriousWakeup, Asleep
    <2>2. /\ pc' \in [Threads -> Places] /\ pc'[t] = "woken"
          /\ \A u \in Threads \ {t} : pc'[u] = pc[u]
      BY <1>0, <2>1 DEF Places
    <2>3. /\ TypeOK' /\ Coherent' /\ Pending' /\ FifoExactlyOnce' /\ ClosedParksNobody'
          /\ \A u \in Threads : pc'[u] \in {"sleepPop", "sleepPush"} => pc'[u] = pc[u]
      BY <1>0, <2>1, <2>2, WakeTyped DEF Asleep
    <2>4. \A u \in Threads : /\ pc[u] = "notifyPush" => pc'[u] = "notifyPush"
                             /\ pc[u] = "notifyPop" => pc'[u] = "notifyPop"
      BY <2>1, <2>2 DEF Asleep
    <2>5. NoMissedPop' /\ NoMissedPush'
      BY <2>1, <2>3, <2>4 DEF NoMissedPop, NoMissedPush, Ready, fields
    <2> QED  BY <2>3, <2>5
  <1> QED  BY <1>1, <1>2, <1>3

(***************************************************************************)
(* Reconfiguration and destruct() keep the invariant.                      *)
(***************************************************************************)
LEMMA ConfigureKeeps ==
  ASSUME IInv, setMaxSize \/ setBlocking \/ destruct PROVE IInv'
  <1> USE DEF IInv
  <1>1. CASE setMaxSize
    <2>1. PICK sz \in MaxSizes : maxSize' = sz /\ silent' = (silent \/ sz > maxSize)
      BY <1>1 DEF setMaxSize
    <2>2. UNCHANGED <<queue, blocking, destructed, pc, op, data, calls, history>>
      BY <1>1 DEF setMaxSize
    <2>3. Len(queue) \in Nat /\ maxSize \in Nat /\ sz \in Nat
      BY <2>1, SizesAssumption, LenProperties DEF TypeOK
    <2>4. TypeOK' /\ Coherent' /\ FifoExactlyOnce' /\ NoMissedPush' /\ ClosedParksNobody'
      BY <2>1, <2>2 DEF TypeOK, Coherent, FifoExactlyOnce, NoMissedPush,
                        ClosedParksNobody, Asleep, history
    <2>5. Pending'
      BY <2>2 DEF Pending, Fresh, history
    <2>6. NoMissedPop'
      <3>1. CASE sz > maxSize
        BY <2>1, <3>1 DEF NoMissedPop
      <3>2. CASE ~(sz > maxSize)
        <4>1. \A o : Ready(o)' => Ready(o)
          BY <2>1, <2>2, <2>3, <3>2 DEF Ready
        <4> QED  BY <2>1, <2>2, <4>1 DEF NoMissedPop, Ready
      <3> QED  BY <3>1, <3>2
    <2> QED  BY <2>4, <2>5, <2>6
  <1>2. CASE setBlocking
    <2>1. /\ blocking' \in BOOLEAN
          /\ UNCHANGED <<queue, maxSize, destructed, pc, op, data, calls, history, silent>>
      BY <1>2 DEF setBlocking
    <2>2. TypeOK'
      BY <2>1 DEF TypeOK, history
    <2>3. Coherent' /\ FifoExactlyOnce' /\ NoMissedPush' /\ ClosedParksNobody'
      BY <2>1 DEF Coherent, FifoExactlyOnce, NoMissedPush, ClosedParksNobody, Asleep, history
    <2>4. Pending' /\ NoMissedPop'
      BY <2>1 DEF Pending, Fresh, NoMissedPop, Ready, history
    <2> QED  BY <2>2, <2>3, <2>4
  <1>3. CASE destruct
    <2>1. /\ destructed' = TRUE /\ silent' = FALSE
          /\ pc' = [u \in Threads |-> IF pc[u] \in {"sleepPop", "sleepPush"}
                                      THEN "woken" ELSE pc[u]]
          /\ UNCHANGED <<queue, maxSize, blocking, op, data, calls, history>>
      BY <1>3 DEF destruct
    <2>2. /\ pc' \in [Threads -> Places]
          /\ \A u \in Threads : pc'[u] = IF pc[u] \in {"sleepPop", "sleepPush"}
                                         THEN "woken" ELSE pc[u]
      BY <2>1 DEF TypeOK, Places
    <2>3. \A u \in Threads : pc'[u] \notin {"sleepPop", "sleepPush"}
      BY <2>2
    <2>4. TypeOK' /\ FifoExactlyOnce'
      BY <2>1, <2>2 DEF TypeOK, FifoExactlyOnce, history
    <2>5. Coherent'
      BY <2>1, <2>2 DEF Coherent, PushOps, PopOps, ConsumeOps
    <2>6. Pending'
      BY <2>1 DEF Pending, Fresh, history
    <2> QED
      BY <2>3, <2>4, <2>5, <2>6 DEF NoMissedPush, NoMissedPop, ClosedParksNobody, Asleep
  <1> QED  BY <1>1, <1>2, <1>3

-----------------------------------------------------------------------------
(* The theorems. *)

(***************************************************************************)
(* A freshly constructed queue satisfies the invariant.                    *)
(***************************************************************************)
LEMMA InitEstablishes == ASSUME Init PROVE IInv
  <1>1. << >> \in Seq(Msgs) /\ Len(<< >>) = 0 /\ DOMAIN << >> = {}
    BY EmptySeq
  <1>2. TypeOK
    <2>1. "idle" \in Places /\ "none" \in Ops /\ 0 \in 0 .. MaxMsgs
      BY BoundAssumption DEF Places, Ops
    <2> QED  BY <1>1, <2>1 DEF Init, TypeOK
  <1>3. Coherent /\ NoMissedPush /\ NoMissedPop /\ ClosedParksNobody
    BY DEF Init, Coherent, NoMissedPush, NoMissedPop, ClosedParksNobody, Asleep
  <1>4. Pending
    BY <1>1 DEF Init, Pending, PushOps
  <1>5. FifoExactlyOnce
    <2>1. << >> \o << >> = << >>
      BY <1>1, ConcatEmptySeq
    <2> QED  BY <1>1, <2>1 DEF Init, FifoExactlyOnce
  <1> QED  BY <1>2, <1>3, <1>4, <1>5 DEF IInv

(***************************************************************************)
(* Every step of the queue, and every stuttering step, keeps the invariant.*)
(***************************************************************************)
LEMMA NextKeeps == ASSUME IInv, [Next]_vars PROVE IInv'
  <1>1. CASE UNCHANGED vars
    BY <1>1 DEF vars, IInv, TypeOK, Coherent, Pending, Fresh, FifoExactlyOnce,
                NoMissedPush, NoMissedPop, ClosedParksNobody, Asleep, Ready
  <1>2. CASE \E t \in Producers : Push(t)
    BY <1>2, PushKeeps DEF Threads
  <1>3. CASE \E t \in Consumers : Pop(t)
    BY <1>3, PopKeeps DEF Threads
  <1>4. CASE \E t \in Threads : Resume(t) \/ TimeOut(t)
    BY <1>4, WaitKeeps
  <1>5. CASE \E t \in Threads : NotifyPop(t) \/ NotifyPush(t) \/ SpuriousWakeup(t)
    BY <1>5, WakeKeeps
  <1>6. CASE setMaxSize \/ setBlocking \/ destruct
    BY <1>6, ConfigureKeeps
  <1> QED  BY <1>1, <1>2, <1>3, <1>4, <1>5, <1>6 DEF Next

(***************************************************************************)
(* The invariant holds in every reachable state.                           *)
(***************************************************************************)
THEOREM Invariance == Spec => []IInv
  <1>1. Init => IInv
    BY InitEstablishes
  <1>2. IInv /\ [Next]_vars => IInv'
    BY NextKeeps
  <1> QED  BY <1>1, <1>2, PTL DEF Spec

(***************************************************************************)
(* Type correctness, for any threads, sizes and number of messages.        *)
(***************************************************************************)
THEOREM TypeCorrect == Spec => []TypeOK
  <1>1. IInv => TypeOK
    BY DEF IInv
  <1> QED  BY <1>1, Invariance, PTL

(***************************************************************************)
(* Accepted messages leave once and in order (push, waitAndPop, tryPop,    *)
(* consumeAll, the overwriting push).                                      *)
(***************************************************************************)
THEOREM FifoCorrect == Spec => []FifoExactlyOnce
  <1>1. IInv => FifoExactlyOnce
    BY DEF IInv
  <1> QED  BY <1>1, Invariance, PTL

(***************************************************************************)
(* No notification is missed in either direction, and a destructed queue   *)
(* has nobody parked on it.                                                *)
(***************************************************************************)
THEOREM NoLostWakeup == Spec => []NobodySleepsOn
  <1>1. IInv => NobodySleepsOn
    BY DEF IInv, NobodySleepsOn
  <1> QED  BY <1>1, Invariance, PTL

(***************************************************************************)
(* The queue never grows beyond maxSize as it is at that moment, whatever  *)
(* happened while the producer was parked.                                 *)
(***************************************************************************)
THEOREM GrowthBounded == Spec => GrowsWithinMaxSize
  <1> DEFINE Bounded == Len(queue') > Len(queue) => Len(queue') <= maxSize
  <1>1. ASSUME IInv, [Next]_vars
        PROVE  [Bounded]_vars
    <2>0. queue \in Seq(Msgs) /\ Len(queue) \in Nat /\ maxSize \in Nat
      BY <1>1, LenProperties, SizesAssumption DEF IInv, TypeOK
    <2>1. \A k \in 0 .. Len(queue) : \A m :
             Enqueue(m, k) => Len(queue') = Len(queue) - k + 1
      BY <2>0, Split DEF Enqueue
    <2>2. \A k \in 0 .. Len(queue) : Dequeue(k) => Len(queue') = Len(queue) - k
      BY <2>0, Split DEF Dequeue
    <2>3. ASSUME NEW t, NEW o, NEW m, Park(t, o, m) \/ Proceed(t, o, m)
          PROVE  Bounded
      <3>1. CASE queue' = queue
        BY <3>1, <2>0
      <3>2. CASE ~destructed /\ o \in PushOps /\ Enqueue(m, 0) /\ Ready(o)
        <4>1. Len(queue) < maxSize
          BY <3>2 DEF Ready, PushOps, PopOps, ConsumeOps
        <4> QED  BY <2>0, <2>1, <3>2, <4>1
      <3>3. CASE Dequeue(1) /\ queue # << >>
        BY <2>0, <2>2, <3>3, EmptySeq
      <3>4. CASE Dequeue(Len(queue))
        BY <2>0, <2>2, <3>4
      <3> QED
        BY <2>3, <3>1, <3>2, <3>3, <3>4
           DEF Park, Proceed, Ready, fields, PushOps, PopOps, ConsumeOps
    <2>4. ASSUME NEW t, PushOverwriting(t)
          PROVE  Bounded
      <3>1. Enqueue(calls', Excess) /\ maxSize # 0
        BY <2>4 DEF PushOverwriting
      <3>2. Excess \in 0 .. Len(queue) /\ Len(queue) - Excess < maxSize
        BY <2>0, <3>1 DEF Excess
      <3> QED  BY <2>0, <2>1, <3>1, <3>2
    <2>5. ASSUME NEW t, PushIntoZero(t)
          PROVE  Bounded
      BY <2>0, <2>5, EmptySeq DEF PushIntoZero
    <2>6. ASSUME NEW t, ImmediatePop(t)
          PROVE  Bounded
      <3>1. PICK k \in {1, Len(queue)} : Dequeue(k) /\ queue # << >>
        BY <2>6 DEF ImmediatePop
      <3>2. k \in 0 .. Len(queue)
        BY <2>0, <3>1, EmptySeq
      <3> QED  BY <2>0, <2>2, <3>1, <3>2
    <2>7. CASE queue' = queue
      BY <2>0, <2>7
    <2> HIDE DEF Bounded
    <2>8. CASE \E t \in Producers : Push(t)
      BY <2>3, <2>4, <2>5, <2>8 DEF Push, PushBlocking
    <2>9. CASE \E t \in Consumers : Pop(t)
      BY <2>3, <2>6, <2>9 DEF Pop, WaitingCall
    <2>10. CASE \E t \in Threads : Resume(t) \/ TimeOut(t)
      BY <2>3, <2>7, <2>10 DEF Resume, TimeOut, fields
    <2>11. CASE \/ \E t \in Threads : NotifyPop(t) \/ NotifyPush(t) \/ SpuriousWakeup(t)
                \/ setMaxSize \/ setBlocking \/ destruct
      BY <2>7, <2>11 DEF NotifyPop, NotifyPush, SpuriousWakeup, setMaxSize,
                         setBlocking, destruct, fields
    <2> QED  BY <1>1, <2>8, <2>9, <2>10, <2>11 DEF Next
  <1> QED  BY <1>1, Invariance, PTL DEF Spec, GrowsWithinMaxSize

-----------------------------------------------------------------------------
(* The queue implements its contract. *)

(***************************************************************************)
(* Storing a fresh message where the code stores one is a Put of the       *)
(* contract.                                                               *)
(***************************************************************************)
LEMMA EnqueueIsPut ==
  ASSUME TypeOK, NEW k \in 0 .. Len(queue), NEW m \in Msgs, Enqueue(m, k),
         \A i \in DOMAIN accepted : accepted[i] # m,
         blocking => k = 0 /\ ~destructed, Len(queue) - k < maxSize,
         UNCHANGED <<maxSize, blocking, destructed>>
  PROVE  Contract!Next
  <1>1. Contract!Put(m)
    BY DEF Contract!Put, Contract!Rest, Enqueue, TypeOK
  <1> QED  BY <1>1 DEF Contract!Next

(***************************************************************************)
(* Handing out messages, front first, is a Take of the contract.           *)
(***************************************************************************)
LEMMA DequeueIsTake ==
  ASSUME NEW k \in 1 .. Len(queue), Dequeue(k),
         UNCHANGED <<maxSize, blocking, destructed>>
  PROVE  Contract!Next
  <1>1. Contract!Take
    BY DEF Contract!Take, Contract!Rest, Dequeue
  <1> QED  BY <1>1 DEF Contract!Next

(***************************************************************************)
(* What an operation does after its wait is a step of the contract or      *)
(* changes nothing the contract sees.  A push that was parked in blocking  *)
(* mode is covered too when the mode changed meanwhile.                    *)
(***************************************************************************)
LEMMA ProceedImplements ==
  ASSUME IInv, NEW t \in Threads, NEW o \in Ops \ {"none"}, NEW m, Call(t, o, m),
         Park(t, o, m) \/ Proceed(t, o, m)
  PROVE  [Contract!Next]_Contract!cvars
  <1>0. TypeOK /\ queue \in Seq(Msgs) /\ Len(queue) \in Nat
    BY LenProperties DEF IInv, TypeOK
  <1>1. CASE UNCHANGED <<queue, accepted>> /\ UNCHANGED <<maxSize, blocking, destructed>>
    BY <1>1 DEF Contract!cvars
  <1>2. CASE /\ ~destructed /\ o \in PushOps /\ Enqueue(m, 0) /\ Ready(o)
             /\ UNCHANGED <<maxSize, blocking, destructed>>
    <2>1. Len(queue) - 0 < maxSize /\ 0 \in 0 .. Len(queue)
      BY <1>0, <1>2 DEF Ready, PushOps, PopOps, ConsumeOps
    <2>2. m \in Msgs /\ \A i \in DOMAIN accepted : accepted[i] # m
      BY <1>2, BoundAssumption DEF Call, Fresh, Msgs
    <2> QED  BY <1>0, <1>2, <2>1, <2>2, EnqueueIsPut
  <1>3. CASE Dequeue(1) /\ queue # << >> /\ UNCHANGED <<maxSize, blocking, destructed>>
    <2>1. 1 \in 1 .. Len(queue)
      BY <1>0, <1>3, EmptySeq
    <2> QED  BY <1>3, <2>1, DequeueIsTake
  <1>4. CASE Dequeue(Len(queue)) /\ queue # << >> /\ UNCHANGED <<maxSize, blocking, destructed>>
    <2>1. Len(queue) \in 1 .. Len(queue)
      BY <1>0, <1>4, EmptySeq
    <2> QED  BY <1>4, <2>1, DequeueIsTake
  <1> QED
    BY <1>1, <1>2, <1>3, <1>4
       DEF Park, Proceed, Ready, fields, history, PushOps, PopOps, ConsumeOps

(***************************************************************************)
(* The queue, with its threads, condition variables and time-outs,         *)
(* implements the bounded FIFO of QueueContract.                           *)
(***************************************************************************)
THEOREM Refinement == Spec => ImplementsContract
  <1>1. Init => Contract!Init
    BY DEF Init, Contract!Init
  <1>2. ASSUME IInv, [Next]_vars
        PROVE  [Contract!Next]_Contract!cvars
    <2>0. /\ TypeOK /\ queue \in Seq(Msgs) /\ Len(queue) \in Nat /\ maxSize \in Nat
          /\ calls \in Nat /\ calls \in 0 .. MaxMsgs /\ 0 \in 0 .. MaxMsgs
          /\ accepted \in Seq(Msgs)
      BY <1>2, LenProperties, SizesAssumption, BoundAssumption DEF IInv, TypeOK
    <2>1. CASE UNCHANGED <<queue, maxSize, blocking, destructed, accepted>>
      BY <2>1 DEF Contract!cvars
    <2>2. ASSUME NEW t \in Threads, Push(t)
          PROVE  [Contract!Next]_Contract!cvars
      <3>1. /\ pc[t] = "idle" /\ calls' = calls + 1 /\ calls' \in 0 .. MaxMsgs
            /\ calls' \in Msgs
        <4>1. NewCall(t)
          BY <2>2 DEF Push, PushIntoZero, PushOverwriting, PushBlocking
        <4> QED  BY <2>0, <4>1, BoundAssumption DEF NewCall, Msgs
      <3>2. Fresh(t, calls')
        <4>1. \A i \in DOMAIN accepted : accepted[i] <= calls /\ accepted[i] \in Nat
          <5>1. \A i \in DOMAIN accepted : accepted[i] \in Msgs
            BY <2>0, LenProperties
          <5> QED  BY <1>2, <5>1, BoundAssumption DEF IInv, Pending, Msgs
        <4>2. \A u \in Threads : op[u] \in PushOps => data[u] \in 1 .. calls
          BY <1>2 DEF IInv, Pending
        <4> QED  BY <2>0, <3>1, <4>1, <4>2 DEF Fresh
      <3>3. CASE PushIntoZero(t)
        <4>1. CASE queue = << >>
          BY <2>1, <3>3, <4>1 DEF PushIntoZero
        <4>2. CASE queue # << >>
          <5>1. Len(queue) \in 1 .. Len(queue)
            BY <2>0, <4>2, EmptySeq
          <5>2. SubSeq(queue, Len(queue) + 1, Len(queue)) = << >>
            BY <2>0, SubSeqEmpty
          <5>3. Contract!Take
            BY <3>3, <5>1, <5>2 DEF Contract!Take, Contract!Rest, PushIntoZero
          <5> QED  BY <5>3 DEF Contract!Next
        <4> QED  BY <4>1, <4>2
      <3>4. CASE PushOverwriting(t)
        <4>1. /\ ~blocking /\ Enqueue(calls', Excess) /\ maxSize # 0
              /\ UNCHANGED <<maxSize, blocking, destructed>>
          BY <3>4 DEF PushOverwriting
        <4>2. Excess \in 0 .. Len(queue) /\ Len(queue) - Excess < maxSize
          BY <2>0, <4>1 DEF Excess
        <4> QED  BY <2>0, <3>1, <3>2, <4>1, <4>2, EnqueueIsPut DEF Fresh
      <3>5. ASSUME NEW o \in PushOps, PushBlocking(t, o)
            PROVE  [Contract!Next]_Contract!cvars
        <4>1. Call(t, o, calls') /\ o \in Ops \ {"none"}
          BY <2>0, <3>1, <3>2, BoundAssumption DEF Call, Ops, PushOps, Msgs
        <4> QED  BY <1>2, <3>5, <4>1, ProceedImplements DEF PushBlocking
      <3> QED  BY <2>2, <3>3, <3>4, <3>5 DEF Push
    <2>3. ASSUME NEW t \in Threads, Pop(t)
          PROVE  [Contract!Next]_Contract!cvars
      <3>1. CASE ImmediatePop(t)
        <4>1. PICK k \in {1, Len(queue)} : Dequeue(k)
          BY <3>1 DEF ImmediatePop
        <4>2. queue # << >> /\ UNCHANGED <<maxSize, blocking, destructed>>
          BY <3>1 DEF ImmediatePop
        <4>3. k \in 1 .. Len(queue)
          BY <2>0, <4>1, <4>2, EmptySeq
        <4> QED  BY <4>1, <4>2, <4>3, DequeueIsTake
      <3>2. ASSUME NEW o \in PopOps \cup ConsumeOps \cup {"waitEmpty"}, WaitingCall(t, o)
            PROVE  [Contract!Next]_Contract!cvars
        <4>1. o \in Ops \ {"none"} /\ o \notin PushOps
          BY DEF Ops, PushOps, PopOps, ConsumeOps
        <4>2. Call(t, o, 0)
          BY <2>0, <3>2, <4>1 DEF WaitingCall, Call
        <4> QED  BY <1>2, <3>2, <4>1, <4>2, ProceedImplements DEF WaitingCall
      <3> QED  BY <2>3, <3>1, <3>2 DEF Pop
    <2>4. ASSUME NEW t \in Threads, Resume(t) \/ TimeOut(t)
          PROVE  [Contract!Next]_Contract!cvars
      <3>1. /\ calls' = calls /\ op[t] \in Ops /\ data[t] \in 0 .. MaxMsgs
            /\ pc[t] \in {"sleepPop", "sleepPush", "woken"}
        BY <2>0, <2>4 DEF TypeOK, Resume, TimeOut
      <3>2. op[t] # "none"
        BY <1>2, <3>1 DEF IInv, Coherent, PushOps, PopOps, ConsumeOps
      <3>3. Call(t, op[t], data[t])
        BY <1>2, <2>0, <3>1, <3>2 DEF Call, IInv, Pending
      <3>4. CASE Park(t, op[t], data[t]) \/ Proceed(t, op[t], data[t])
        BY <1>2, <3>1, <3>2, <3>3, <3>4, ProceedImplements
      <3>5. CASE UNCHANGED <<fields, history, silent>>
        BY <2>1, <3>5 DEF fields, history
      <3> QED  BY <2>4, <3>4, <3>5 DEF Resume, TimeOut
    <2>5. CASE setMaxSize \/ setBlocking
      <3>1. Contract!Configure
        BY <2>0, <2>5 DEF Contract!Configure, setMaxSize, setBlocking, TypeOK, history
      <3> QED  BY <3>1 DEF Contract!Next
    <2>6. CASE destruct
      <3>1. Contract!Shut
        BY <2>6 DEF Contract!Shut, destruct, history
      <3> QED  BY <3>1 DEF Contract!Next
    <2>7. CASE \E t \in Threads : NotifyPop(t) \/ NotifyPush(t) \/ SpuriousWakeup(t)
      BY <2>1, <2>7 DEF NotifyPop, NotifyPush, SpuriousWakeup, fields, history
    <2>8. CASE UNCHANGED vars
      BY <2>1, <2>8 DEF vars
    <2> QED
      BY <1>2, <2>2, <2>3, <2>4, <2>5, <2>6, <2>7, <2>8 DEF Next, Threads
  <1> QED
    BY <1>1, <1>2, Invariance, PTL DEF Spec, ImplementsContract, Contract!Spec

=============================================================================

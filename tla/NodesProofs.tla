----------------------------- MODULE NodesProofs -----------------------------
(***************************************************************************)
(* Proofs about the nodes that pair, pass on and take apart messages:      *)
(*   - Sync, for any number of inputs, queue size, threshold and number of *)
(*     attempts;                                                           *)
(*   - Gate, for any counts in its commands, any capacity of inputControl  *)
(*     and any number and order of messages and commands;                  *)
(*   - MessageDemux, for any number of outputs, any capacity of their      *)
(*     queues and any groups: with members missing, queues full or closed, *)
(*     and messages between them that are no groups;                       *)
(*   - AutoCalibration, which conducts a gate and DynamicCalibration, for  *)
(*     any validation set, any number of iterations, attempts and images,  *)
(*     and any queue of commands of at least four.                         *)
(***************************************************************************)
EXTENDS SyncNode, GateNode, MessageDemux, AutoCalibration, SequenceTheorems, TLAPS

----------------------------------------------------------------------------
(* Sync.                                                                   *)

\* The inputs deliver in increasing time, and nothing older than what was taken.
Increasing == \A i \in Inputs :
    /\ frames[i] <= last[i] /\ group[i] <= last[i]
    /\ \A a \in 1 .. Len(queue[i]) : /\ queue[i][a] <= last[i]
                                     /\ frames[i] < queue[i][a]
                                     /\ group[i] < queue[i][a]
    /\ \A a, b \in 1 .. Len(queue[i]) : a < b => queue[i][a] < queue[i][b]

\* Nothing is replaced while collecting; a message to replace is the oldest.
Round == /\ pc = "collect" => \A i \in Inputs : discarded[i] = {}
         /\ pc = "refetch" => ~InSync(frames) /\ Oldest(k)

(***************************************************************************)
(* The inductive form of MissesNoMatch: it speaks of the messages still to *)
(* come as well, all of which are at least as new as the ones held.        *)
(***************************************************************************)
NoMatchPossible == \A f \in [Inputs -> Nat] :
                      /\ \A i \in Inputs : f[i] \in discarded[i] \/ f[i] >= frames[i]
                      /\ \E i \in Inputs : f[i] \in discarded[i]
                      => ~InSync(f)

\* What is sent was found to be in sync, unless attempts are limited.
SentChecked == SyncAttempts = -1 /\ pc = "send" => InSync(frames)

SyncIInv == /\ TypeOK /\ Increasing /\ Round /\ NoMatchPossible /\ SentChecked /\ GroupsAdvance

-----------------------------------------------------------------------------
\* The inductive invariant holds initially.
LEMMA SyncInitIInv == Init => SyncIInv
<1> SUFFICES ASSUME Init PROVE SyncIInv
  OBVIOUS
<1> USE SyncAssumption DEF Init, Inputs, NoFrames, None
<1>1. TypeOK
  <2>1. <<>> \in Seq(Nat) /\ Len(<<>>) = 0
    OBVIOUS
  <2>2. queue \in [Inputs -> Seq(Nat)]
    BY <2>1
  <2>3. \A i \in Inputs : Len(queue[i]) <= Cap
    BY <2>1
  <2>4. last \in [Inputs -> Nat] /\ frames \in [Inputs -> Nat] /\ group \in [Inputs -> Nat]
    OBVIOUS
  <2>5. closed \in [Inputs -> BOOLEAN] /\ outClosed \in BOOLEAN /\ running \in BOOLEAN
    OBVIOUS
  <2>6. k \in Inputs /\ attempts \in Nat /\ discarded \in [Inputs -> SUBSET Nat]
    OBVIOUS
  <2> QED
    BY <2>2, <2>3, <2>4, <2>5, <2>6 DEF TypeOK
<1>2. Increasing
  BY DEF Increasing
<1>3. Round /\ SentChecked /\ GroupsAdvance
  BY DEF Round, SentChecked, GroupsAdvance
<1>4. NoMatchPossible
  BY DEF NoMatchPossible
<1> QED
  BY <1>1, <1>2, <1>3, <1>4 DEF SyncIInv

-----------------------------------------------------------------------------
(* Sequences. *)

\* What Tail leaves of a queue.
LEMMA TailFacts == ASSUME NEW s \in Seq(Nat), s # <<>>
                   PROVE  /\ Tail(s) \in Seq(Nat) /\ Len(s) \in Nat \ {0}
                          /\ Len(Tail(s)) = Len(s) - 1
                          /\ \A a \in 1 .. Len(s) - 1 : Tail(s)[a] = s[a + 1]
                          /\ Head(s) = s[1] /\ s[1] \in Nat
  OBVIOUS

\* What Append makes of it.
LEMMA AppendFacts == ASSUME NEW s \in Seq(Nat), NEW t \in Nat
                     PROVE  /\ Append(s, t) \in Seq(Nat) /\ Len(s) \in Nat
                            /\ Len(Append(s, t)) = Len(s) + 1
                            /\ \A a \in 1 .. Len(s) : Append(s, t)[a] = s[a] /\ s[a] \in Nat
                            /\ Append(s, t)[Len(s) + 1] = t
  OBVIOUS

-----------------------------------------------------------------------------
\* The steps of the surroundings: frames and discarded messages stay.
LEMMA SyncReceiveIInv == ASSUME SyncIInv, NEW i \in Inputs, NEW t \in 1 .. MaxTs, receive(i, t)
                     PROVE  SyncIInv'
<1> USE SyncAssumption DEF SyncIInv, receive
<1>0. t \in Nat /\ queue[i] \in Seq(Nat) /\ last[i] \in Nat /\ last[i] < t
      /\ frames[i] \in Nat /\ group[i] \in Nat /\ Len(queue[i]) <= Cap
  BY DEF TypeOK
<1>a. \A a \in 1 .. Len(queue[i]) : queue[i][a] \in Nat
  BY <1>0
<1> DEFINE q == IF Len(queue[i]) >= Cap THEN Tail(queue[i]) ELSE queue[i]
<1>1. /\ q \in Seq(Nat) /\ Len(q) \in Nat /\ Len(q) + 1 <= Cap
      /\ \A a \in 1 .. Len(q) : /\ q[a] \in Nat /\ q[a] < t
                                /\ frames[i] < q[a] /\ group[i] < q[a]
      /\ \A a, b \in 1 .. Len(q) : a < b => q[a] < q[b]
  <2>1. CASE Len(queue[i]) >= Cap
    <3> DEFINE s == queue[i]
    <3>1. s # <<>> /\ q = Tail(s)
      BY <2>1, <1>0
    <3>2. /\ Tail(s) \in Seq(Nat) /\ Len(s) \in Nat /\ Len(Tail(s)) = Len(s) - 1
          /\ Len(s) > 0 /\ Len(s) <= Cap
          /\ \A a \in 1 .. Len(s) - 1 : Tail(s)[a] = s[a + 1]
      BY <3>1, <1>0, TailFacts
    <3>3. /\ \A a \in 1 .. Len(s) : /\ s[a] \in Nat /\ s[a] <= last[i]
                                    /\ frames[i] < s[a] /\ group[i] < s[a]
          /\ \A a, b \in 1 .. Len(s) : a < b => s[a] < s[b]
      BY <1>a DEF Increasing
    <3> HIDE DEF q, s
    <3>4. \A a \in 1 .. Len(q) : q[a] = s[a + 1] /\ a + 1 \in 1 .. Len(s)
      BY <3>1, <3>2
    <3> QED
      BY <3>1, <3>2, <3>3, <3>4, <1>0
  <2>2. CASE ~(Len(queue[i]) >= Cap)
    <3>1. q = queue[i] /\ Len(queue[i]) \in Nat /\ Len(queue[i]) < Cap
      BY <2>2, <1>0
    <3> QED
      BY <3>1, <1>0, <1>a DEF Increasing
  <2> QED
    BY <2>1, <2>2
<1> DEFINE r == Append(q, t)
<1> HIDE DEF q
<1>5. /\ r \in Seq(Nat) /\ Len(r) = Len(q) + 1
      /\ \A a \in 1 .. Len(q) : r[a] = q[a]
      /\ r[Len(q) + 1] = t
  BY <1>0, <1>1, AppendFacts
<1>6. /\ queue' = [queue EXCEPT ![i] = r] /\ last' = [last EXCEPT ![i] = t]
  BY DEF Pushed, q
<1> HIDE DEF r
<1>7. TypeOK'
  <2>1. queue' \in [Inputs -> Seq(Nat)] /\ last' \in [Inputs -> Nat]
    BY <1>0, <1>5, <1>6 DEF TypeOK
  <2>2. \A j \in Inputs : Len(queue'[j]) <= Cap
    BY <1>1, <1>5, <1>6 DEF TypeOK
  <2> QED
    BY <2>1, <2>2 DEF TypeOK
<1>8. Increasing'
  <2> SUFFICES ASSUME NEW j \in Inputs
               PROVE  Increasing!(j)'
    BY DEF Increasing
  <2>1. CASE j # i
    BY <2>1, <1>6 DEF Increasing, TypeOK
  <2>2. CASE j = i
    <3>1. queue'[j] = r /\ last'[j] = t
      BY <2>2, <1>6, <1>0 DEF TypeOK
    <3>2. frames'[j] = frames[i] /\ group'[j] = group[i] /\ frames[i] \in Nat /\ group[i] \in Nat
      BY <2>2 DEF TypeOK
    <3>3. frames[i] <= last[i] /\ group[i] <= last[i]
      BY DEF Increasing
    <3>4. Len(q) \in Nat
      BY <1>1
    <3>a. \A a \in 1 .. Len(r) : \/ a \in 1 .. Len(q) /\ r[a] = q[a]
                                 \/ a = Len(q) + 1 /\ r[a] = t
      BY <1>5, <3>4
    <3>5. \A a \in 1 .. Len(r) : r[a] <= t /\ frames[i] < r[a] /\ group[i] < r[a]
      <4> SUFFICES ASSUME NEW a \in 1 .. Len(r)
                   PROVE  r[a] <= t /\ frames[i] < r[a] /\ group[i] < r[a]
        OBVIOUS
      <4>1. CASE a \in 1 .. Len(q) /\ r[a] = q[a]
        BY <4>1, <1>0, <1>1
      <4>2. CASE r[a] = t
        BY <4>2, <1>0, <3>3
      <4> QED
        BY <4>1, <4>2, <3>a
    <3>6. \A a, b \in 1 .. Len(r) : a < b => r[a] < r[b]
      <4> SUFFICES ASSUME NEW a \in 1 .. Len(r), NEW b \in 1 .. Len(r), a < b
                   PROVE  r[a] < r[b]
        OBVIOUS
      <4>1. a \in 1 .. Len(q) /\ r[a] = q[a]
        BY <3>a, <3>4, <1>5
      <4> QED
        BY <4>1, <3>a, <1>1, <3>4
    <3> QED
      BY <3>1, <3>2, <3>3, <3>5, <3>6, <1>0
  <2> QED
    BY <2>1, <2>2
<1>9. Round' /\ NoMatchPossible' /\ SentChecked' /\ GroupsAdvance'
  BY DEF Round, NoMatchPossible, SentChecked, GroupsAdvance, InSync, Oldest
<1> QED
  BY <1>7, <1>8, <1>9

\* Stopping and closing touch neither messages nor frames.
LEMMA SyncStopIInv == ASSUME SyncIInv, stop \/ closeOutput \/ \E i \in Inputs : closeInput(i)
                  PROVE  SyncIInv'
<1> UNCHANGED <<queue, last, pc, k, frames, attempts, discarded, group>>
  BY DEF stop, closeOutput, closeInput
<1>1. TypeOK'
  BY DEF SyncIInv, TypeOK, stop, closeOutput, closeInput
<1>2. Increasing' /\ Round' /\ NoMatchPossible' /\ SentChecked' /\ GroupsAdvance'
  BY DEF SyncIInv, Increasing, Round, NoMatchPossible, SentChecked, GroupsAdvance, InSync, Oldest
<1> QED
  BY <1>1, <1>2 DEF SyncIInv

-----------------------------------------------------------------------------
(***************************************************************************)
(* Taking the head of a queue keeps the types and the order, and what is   *)
(* taken is newer than what the input had in the frame before.             *)
(***************************************************************************)
LEMMA GetFacts ==
    ASSUME TypeOK, Increasing, NEW i \in Inputs, Get(i)
    PROVE  /\ queue' \in [Inputs -> Seq(Nat)]
           /\ \A j \in Inputs : Len(queue'[j]) <= Cap
           /\ frames' \in [Inputs -> Nat]
           /\ frames'[i] > frames[i] /\ frames'[i] > group[i] /\ frames'[i] <= last[i]
           /\ \A j \in Inputs \ {i} : frames'[j] = frames[j] /\ queue'[j] = queue[j]
           /\ \A a \in 1 .. Len(queue'[i]) : /\ queue'[i][a] <= last[i]
                                             /\ frames'[i] < queue'[i][a]
                                             /\ group[i] < queue'[i][a]
           /\ \A a, b \in 1 .. Len(queue'[i]) : a < b => queue'[i][a] < queue'[i][b]
<1> USE SyncAssumption
<1>1. queue[i] \in Seq(Nat) /\ queue[i] # <<>> /\ Len(queue[i]) \in Nat /\ Len(queue[i]) > 0
  BY DEF TypeOK, Get
<1>2. Head(queue[i]) = queue[i][1] /\ queue[i][1] \in Nat
  BY <1>1
<1> DEFINE r == Tail(queue[i])
<1>3. /\ r \in Seq(Nat) /\ Len(r) = Len(queue[i]) - 1
      /\ \A a \in 1 .. Len(r) : r[a] = queue[i][a + 1]
  BY <1>1
<1>4. queue' = [queue EXCEPT ![i] = r] /\ frames' = [frames EXCEPT ![i] = queue[i][1]]
  BY <1>2 DEF Get
<1>5. queue'[i] = r /\ frames'[i] = queue[i][1]
  BY <1>4 DEF TypeOK
<1>6. \A j \in Inputs \ {i} : frames'[j] = frames[j] /\ queue'[j] = queue[j]
  BY <1>4 DEF TypeOK
<1>7. queue' \in [Inputs -> Seq(Nat)] /\ frames' \in [Inputs -> Nat]
  BY <1>2, <1>3, <1>4 DEF TypeOK
<1>8. \A j \in Inputs : Len(queue'[j]) <= Cap
  <2>1. Len(queue[i]) <= Cap /\ Len(r) <= Cap
    BY <1>1, <1>3 DEF TypeOK
  <2> QED
    BY <2>1, <1>5, <1>6 DEF TypeOK
<1>9. queue[i][1] > frames[i] /\ queue[i][1] > group[i] /\ queue[i][1] <= last[i]
  <2>1. 1 \in 1 .. Len(queue[i])
    BY <1>1
  <2>2. frames[i] \in Nat /\ group[i] \in Nat
    BY DEF TypeOK
  <2> QED
    BY <1>2, <2>1, <2>2 DEF Increasing
<1>10. \A a \in 1 .. Len(r) : r[a] <= last[i] /\ queue[i][1] < r[a] /\ group[i] < r[a]
  <2> SUFFICES ASSUME NEW a \in 1 .. Len(r)
               PROVE  r[a] <= last[i] /\ queue[i][1] < r[a] /\ group[i] < r[a]
    OBVIOUS
  <2>1. r[a] = queue[i][a + 1] /\ a + 1 \in 1 .. Len(queue[i]) /\ 1 < a + 1
        /\ 1 \in 1 .. Len(queue[i])
    BY <1>1, <1>3
  <2> QED
    BY <2>1 DEF Increasing
<1>11. \A a, b \in 1 .. Len(r) : a < b => r[a] < r[b]
  <2> SUFFICES ASSUME NEW a \in 1 .. Len(r), NEW b \in 1 .. Len(r), a < b
               PROVE  r[a] < r[b]
    OBVIOUS
  <2>1. /\ r[a] = queue[i][a + 1] /\ a + 1 \in 1 .. Len(queue[i])
        /\ r[b] = queue[i][b + 1] /\ b + 1 \in 1 .. Len(queue[i])
        /\ a + 1 < b + 1
    BY <1>1, <1>3, SMTT(20)
  <2> QED
    BY <2>1 DEF Increasing
<1> QED
  BY <1>5, <1>6, <1>7, <1>8, <1>9, <1>10, <1>11

\* With those facts, the order is kept as long as group and last stay.
LEMMA GetIncreasing ==
    ASSUME TypeOK, Increasing, NEW i \in Inputs, Get(i), UNCHANGED group
    PROVE  Increasing'
<1> SUFFICES ASSUME NEW j \in Inputs
             PROVE  Increasing!(j)'
  BY DEF Increasing
<1>1. last' = last /\ group' = group
  BY DEF Get
<1>2. CASE j = i
  <2>1. group[i] <= last[i]
    BY DEF Increasing
  <2> QED
    BY <1>1, <1>2, <2>1, GetFacts
<1>3. CASE j # i
  <2>1. frames'[j] = frames[j] /\ queue'[j] = queue[j]
    BY <1>3, GetFacts
  <2> QED
    BY <1>1, <2>1 DEF Increasing
<1> QED
  BY <1>2, <1>3

-----------------------------------------------------------------------------
\* A new round: no frames, nothing discarded.
LEMMA SyncMainLoopIInv == ASSUME SyncIInv, mainLoop PROVE SyncIInv'
<1> USE SyncAssumption DEF SyncIInv, mainLoop, env
<1>1. CASE running
  <2>1. TypeOK'
    BY <1>1, SMTT(20) DEF TypeOK, NoFrames, None, Inputs
  <2>2. Increasing'
    <3> SUFFICES ASSUME NEW j \in Inputs
                 PROVE  Increasing!(j)'
      BY DEF Increasing
    <3>1. frames'[j] = 0 /\ group' = group /\ last' = last /\ queue' = queue
      BY <1>1 DEF NoFrames, None, TypeOK
    <3>2. group[j] \in Nat /\ last[j] \in Nat /\ frames[j] \in Nat
      BY DEF TypeOK
    <3>3. queue[j] \in Seq(Nat)
      BY DEF TypeOK
    <3>4. \A a \in 1 .. Len(queue[j]) : queue[j][a] \in Nat
      BY <3>3
    <3> QED
      BY <3>1, <3>2, <3>4 DEF Increasing
  <2>3. Round' /\ SentChecked' /\ GroupsAdvance'
    BY <1>1 DEF Round, SentChecked, GroupsAdvance, NoFrames, None, TypeOK
  <2>4. NoMatchPossible'
    BY <1>1 DEF NoMatchPossible, TypeOK
  <2> QED
    BY <2>1, <2>2, <2>3, <2>4
<1>2. CASE ~running
  <2>1. TypeOK'
    BY <1>2 DEF TypeOK
  <2>2. Increasing' /\ NoMatchPossible'
    BY <1>2 DEF Increasing, NoMatchPossible, InSync, TypeOK
  <2>3. Round' /\ SentChecked' /\ GroupsAdvance'
    BY <1>2 DEF Round, SentChecked, GroupsAdvance, TypeOK
  <2> QED
    BY <2>1, <2>2, <2>3
<1> QED
  BY <1>1, <1>2 DEF TypeOK

\* Collecting: nothing has been discarded.
LEMMA SyncCollectIInv == ASSUME SyncIInv, collect PROVE SyncIInv'
<1> USE SyncAssumption DEF SyncIInv, collect
<1>1. k \in Inputs /\ Get(k) /\ TypeOK /\ Increasing
  BY DEF TypeOK
<1>2. TypeOK'
  <2>1. k' \in Inputs /\ pc' \in {"collect", "sync"}
    BY <1>1 DEF Inputs
  <2> QED
    BY <1>1, <2>1, GetFacts DEF TypeOK, Get
<1>3. Increasing'
  BY <1>1, GetIncreasing
<1>4. Round' /\ NoMatchPossible' /\ SentChecked'
  BY DEF Round, NoMatchPossible, SentChecked
<1>5. GroupsAdvance'
  <2>1. group' = group /\ pc = "collect"
    OBVIOUS
  <2>2. \A j \in Inputs : frames'[j] # None => frames'[j] > group[j]
    BY <1>1, GetFacts DEF GroupsAdvance
  <2> QED
    BY <2>1, <2>2 DEF GroupsAdvance
<1> QED
  BY <1>2, <1>3, <1>4, <1>5

\* Evaluating: only the place and the choice of the oldest message change.
LEMMA SyncEvaluateIInv == ASSUME SyncIInv, evaluate PROVE SyncIInv'
<1> USE DEF SyncIInv, evaluate, env
<1>1. TypeOK'
  BY DEF TypeOK
<1>2. Increasing' /\ NoMatchPossible' /\ GroupsAdvance'
  BY DEF Increasing, NoMatchPossible, InSync, GroupsAdvance
<1>3. Round' /\ SentChecked'
  BY DEF Round, SentChecked, InSync, Oldest, GiveUp
<1> QED
  BY <1>1, <1>2, <1>3

(***************************************************************************)
(* Replacing the oldest message, the heart of the argument.  A combination *)
(* f that uses the replaced message and no other discarded one has, at the *)
(* input whose frame is too new, a message at least that new: f is at      *)
(* least as far apart as the frames, which were out of sync.               *)
(***************************************************************************)
LEMMA SyncRefetchIInv == ASSUME SyncIInv, refetch PROVE SyncIInv'
<1> USE SyncAssumption DEF SyncIInv, refetch
<1>1. k \in Inputs /\ Get(k) /\ TypeOK /\ Increasing
  BY DEF TypeOK
<1>2. TypeOK'
  BY <1>1, GetFacts DEF TypeOK, Get
<1>3. Increasing'
  BY <1>1, GetIncreasing
<1>4. Round' /\ SentChecked'
  BY DEF Round, SentChecked
<1>5. GroupsAdvance'
  <2>1. \A j \in Inputs : frames'[j] # None => frames'[j] > group[j]
    BY <1>1, GetFacts DEF GroupsAdvance
  <2> QED
    BY <2>1 DEF GroupsAdvance
<1>6. NoMatchPossible'
  <2> SUFFICES ASSUME NEW f \in [Inputs -> Nat],
                      \A i \in Inputs : f[i] \in discarded'[i] \/ f[i] >= frames'[i],
                      \E i \in Inputs : f[i] \in discarded'[i]
               PROVE  ~InSync(f)
    BY DEF NoMatchPossible, InSync
  <2>1. /\ \A i \in Inputs \ {k} : discarded'[i] = discarded[i] /\ frames'[i] = frames[i]
        /\ discarded'[k] = discarded[k] \cup {frames[k]}
        /\ frames'[k] > frames[k] /\ frames'[k] \in Nat
    BY <1>1, GetFacts DEF TypeOK
  <2>2. \A i \in Inputs : f[i] \in Nat /\ frames[i] \in Nat
    BY DEF TypeOK
  <2>3. \A i \in Inputs : f[i] \in discarded[i] \/ f[i] >= frames[i]
    BY <2>1, <2>2, <1>1
  <2>4. CASE \E i \in Inputs : f[i] \in discarded[i]
    BY <2>3, <2>4 DEF NoMatchPossible
  <2>5. CASE \A i \in Inputs : f[i] \notin discarded[i]
    <3>1. f[k] = frames[k] /\ \A i \in Inputs : f[i] >= frames[i]
      BY <2>1, <2>3, <2>5
    <3>2. PICK i \in Inputs, j \in Inputs : ~(frames[i] - frames[j] < Threshold)
      BY DEF Round, InSync
    <3>3. frames[k] <= frames[j]
      BY DEF Round, Oldest
    <3>4. ~(f[i] - f[k] < Threshold)
      BY <3>1, <3>2, <3>3, <2>2, <1>1
    <3> QED
      BY <3>4, <1>1 DEF InSync
  <2> QED
    BY <2>4, <2>5
<1> QED
  BY <1>2, <1>3, <1>4, <1>5, <1>6

\* Sending, and ending on a closed queue.
LEMMA SyncSendIInv == ASSUME SyncIInv, send \/ QueueException PROVE SyncIInv'
<1> USE DEF SyncIInv, env
<1>1. CASE send
  <2>1. TypeOK'
    BY <1>1 DEF TypeOK, send
  <2>2. Increasing' /\ NoMatchPossible'
    BY <1>1 DEF Increasing, NoMatchPossible, InSync, send
  <2>3. Round' /\ SentChecked' /\ GroupsAdvance'
    BY <1>1 DEF Round, SentChecked, GroupsAdvance, send
  <2> QED
    BY <2>1, <2>2, <2>3
<1>2. CASE QueueException
  <2>1. TypeOK'
    BY <1>2 DEF TypeOK, QueueException
  <2>2. Increasing' /\ NoMatchPossible'
    BY <1>2 DEF Increasing, NoMatchPossible, InSync, QueueException
  <2>3. Round' /\ SentChecked' /\ GroupsAdvance'
    BY <1>2 DEF Round, SentChecked, GroupsAdvance, QueueException
  <2> QED
    BY <2>1, <2>2, <2>3
<1> QED
  BY <1>1, <1>2

\* Every step keeps the inductive invariant.
LEMMA SyncNextIInv == SyncIInv /\ [Next]_vars => SyncIInv'
<1> SUFFICES ASSUME SyncIInv, [Next]_vars PROVE SyncIInv'
  OBVIOUS
<1>1. CASE \E i \in Inputs, t \in 1 .. MaxTs : receive(i, t)
  BY <1>1, SyncReceiveIInv
<1>2. CASE stop \/ closeOutput \/ \E i \in Inputs : closeInput(i)
  BY <1>2, SyncStopIInv
<1>3. CASE NodeStep
  BY <1>3, SyncMainLoopIInv, SyncCollectIInv, SyncEvaluateIInv, SyncRefetchIInv, SyncSendIInv DEF NodeStep, Unblocked
<1>4. CASE UNCHANGED vars
  <2>1. TypeOK' /\ Increasing'
    BY <1>4 DEF SyncIInv, TypeOK, Increasing, vars
  <2>2. Round' /\ NoMatchPossible' /\ SentChecked' /\ GroupsAdvance'
    BY <1>4 DEF SyncIInv, Round, NoMatchPossible, SentChecked, GroupsAdvance, InSync, Oldest, vars
  <2> QED
    BY <2>1, <2>2 DEF SyncIInv
<1> QED
  BY <1>1, <1>2, <1>3, <1>4 DEF Next

-----------------------------------------------------------------------------
\* The inductive invariant is an invariant of the Sync node.
THEOREM SyncInvariance == Spec => []SyncIInv
  BY SyncInitIInv, SyncNextIInv, PTL DEF Spec

\* Sync::run: what it holds and what it has taken is always of its type.
THEOREM SyncTypeCorrect == Spec => []TypeOK
<1>1. SyncIInv => TypeOK
  BY DEF SyncIInv
<1> QED
  BY <1>1, SyncInvariance, PTL

(***************************************************************************)
(* Sync::run: replacing the oldest message never discards one that is in   *)
(* sync with messages taken in the same round or waiting, whatever the     *)
(* number of inputs, the order of arrival, the threshold and the attempts. *)
(***************************************************************************)
THEOREM SyncMissesNoMatch == Spec => []MissesNoMatch
<1>1. SyncIInv => MissesNoMatch
  <2> SUFFICES ASSUME SyncIInv, NEW f \in [Inputs -> 0 .. MaxTs],
                      \A i \in Inputs : f[i] \in Available(i),
                      \E i \in Inputs : f[i] \in discarded[i]
               PROVE  ~InSync(f)
    BY DEF MissesNoMatch
  <2>1. f \in [Inputs -> Nat]
    BY SyncAssumption
  <2>2. \A i \in Inputs : f[i] \in discarded[i] \/ f[i] >= frames[i]
    <3> SUFFICES ASSUME NEW i \in Inputs, f[i] \notin discarded[i]
                 PROVE  f[i] >= frames[i]
      OBVIOUS
    <3>1. frames[i] \in Nat /\ f[i] \in Nat
      BY <2>1 DEF SyncIInv, TypeOK
    <3>2. f[i] = frames[i] \/ \E a \in 1 .. Len(queue[i]) : f[i] = queue[i][a]
      BY DEF Available, Waiting
    <3> QED
      BY <3>1, <3>2 DEF SyncIInv, Increasing
  <2> QED
    BY <2>1, <2>2 DEF SyncIInv, NoMatchPossible
<1> QED
  BY <1>1, SyncInvariance, PTL

\* Sync::run: no message goes into two groups, for every instance.
THEOREM SyncGroupsAdvance == Spec => []GroupsAdvance
<1>1. SyncIInv => GroupsAdvance
  BY DEF SyncIInv
<1> QED
  BY <1>1, SyncInvariance, PTL

\* Sync::run with syncAttempts -1: only messages in sync are sent.
THEOREM SyncOnlySyncedSent == Spec => []OnlySyncedSent
<1>1. SyncIInv => OnlySyncedSent
  BY DEF SyncIInv, SentChecked, OnlySyncedSent, InSync
<1> QED
  BY <1>1, SyncInvariance, PTL

----------------------------------------------------------------------------
(* Gate.                                                                   *)

Sending == {"loop", "any", "control", "data", "send"}

\* Every message forwarded, being sent or waiting has arrived.
Arrivals ==
    /\ arrived <= MaxMsgs
    /\ forwarded + Len(input) + (IF gateAt = "send" THEN 1 ELSE 0) <= arrived

\* What the current command still allows is part of what was allowed.
Covered ==
    /\ cmd.open /\ cmd.num = Unlimited => MaxMsgs <= allowed
    /\ cmd.open /\ cmd.num # Unlimited /\ gateAt = "run" => forwarded + cmd.num <= allowed
    /\ cmd.open /\ cmd.num # Unlimited /\ gateAt \in Sending =>
           /\ sent <= cmd.num
           /\ gateAt # "loop" => sent < cmd.num
           /\ forwarded + cmd.num - sent <= allowed

\* Messages are sent under a command that opens the gate.
OpenWhenSending == gateAt \in Sending => cmd.open

\* The inductive invariant.
GateIInv == GateTypeOK /\ Arrivals /\ Covered /\ OpenWhenSending /\ WithinAllowance

\* What a command is: a number of messages, or any number, or none.
LEMMA CommandFacts ==
    ASSUME GateAssumption, NEW c \in Commands
    PROVE  /\ c.open \in BOOLEAN
           /\ c.num \in Nat \cup {-1}
           /\ Allows(c) \in Nat
           /\ c.open /\ c.num = -1 => Allows(c) = MaxMsgs
           /\ c.open /\ c.num # -1 => Allows(c) = c.num
           /\ c # Null
<1>1. Null.num = -2
  BY DEF Null, Cmd
<1>2. CASE \E n \in Numbers \cup {Unlimited} : c = Cmd(TRUE, n)
  <2>1. PICK n \in Numbers \cup {Unlimited} : c = Cmd(TRUE, n)
    BY <1>2
  <2>2. c.open = TRUE /\ c.num = n
    BY <2>1 DEF Cmd
  <2>3. n = -1 \/ n \in Nat
    BY DEF GateAssumption, Unlimited
  <2>4. c # Null
    BY <1>1, <2>2, <2>3
  <2> QED
    BY <2>2, <2>3, <2>4 DEF GateAssumption, Allows, Unlimited
<1>3. CASE c = Cmd(FALSE, Unlimited)
  <2>1. c.open = FALSE /\ c.num = -1
    BY <1>3 DEF Cmd, Unlimited
  <2>2. c # Null
    BY <1>1, <2>1
  <2>3. Allows(c) = 0
    BY <2>1 DEF Allows
  <2>4. c.open \in BOOLEAN /\ ~c.open
    BY <2>1, Zenon
  <2> QED
    BY <2>1, <2>2, <2>3, <2>4
<1> QED
  BY <1>2, <1>3 DEF Commands

LEMMA NullFacts == Null.open \in BOOLEAN /\ ~Null.open /\ Null.num = -2
<1>1. Null.open = FALSE /\ Null.num = -2
  BY DEF Null, Cmd
<1> QED
  BY <1>1, Zenon

LEMMA CloseFacts == Cmd(FALSE, Unlimited) \in Commands /\ ~Cmd(FALSE, Unlimited).open
<1>1. Cmd(FALSE, Unlimited) \in Commands /\ Cmd(FALSE, Unlimited).open = FALSE
  BY DEF Cmd, Commands
<1> QED
  BY <1>1, Zenon

LEMMA GateInitIInv == ASSUME GateAssumption, GateInit PROVE GateIInv
<1>1. cmd \in Commands
  BY DEF GateInit
<1>2. /\ cmd.open \in BOOLEAN /\ cmd.num \in Nat \cup {-1}
      /\ Allows(cmd) \in Nat
      /\ cmd.open /\ cmd.num = -1 => Allows(cmd) = MaxMsgs
      /\ cmd.open /\ cmd.num # -1 => Allows(cmd) = cmd.num
  BY <1>1, CommandFacts
<1>3. Len(<<>>) = 0 /\ <<>> \in Seq(BOOLEAN) /\ <<>> \in Seq(Commands)
  OBVIOUS
<1>4. /\ inputClosed \in BOOLEAN /\ controlClosed \in BOOLEAN
      /\ outputClosed \in BOOLEAN /\ gateRunning \in BOOLEAN
  BY Zenon DEF GateInit
<1> QED
  BY <1>1, <1>2, <1>3, <1>4, SMT
     DEF GateAssumption, GateInit, GateIInv, GateTypeOK, Arrivals, Covered,
     OpenWhenSending, WithinAllowance, Sending, Unlimited

\* Taking a command, from either place, adds to what is allowed.
LEMMA GateObeyIInv ==
    ASSUME GateAssumption, GateIInv, control # <<>>, Obey(Head(control)), gateAt # "send",
           UNCHANGED <<input, inputClosed, controlClosed, outputClosed, gateRunning,
                       arrived, issued, held, sent, forwarded>>
    PROVE  GateIInv'
<1> DEFINE c == Head(control)
<1>1. c \in Commands /\ Tail(control) \in Seq(Commands) /\ Len(Tail(control)) = Len(control) - 1
      /\ Len(control) \in Nat
  BY HeadTailProperties, LenProperties DEF GateIInv, GateTypeOK
<1>2. /\ cmd' = c /\ control' = Tail(control) /\ allowed' = allowed + Allows(c)
      /\ taken' = taken + 1 /\ gateAt' = "run"
  BY DEF Obey
<1>3. /\ c.open \in BOOLEAN /\ c.num \in Nat \cup {-1}
      /\ Allows(c) \in Nat
      /\ c.open /\ c.num = -1 => Allows(c) = MaxMsgs
      /\ c.open /\ c.num # -1 => Allows(c) = c.num
  BY <1>1, CommandFacts
<1> HIDE DEF c
<1>4. GateTypeOK'
  BY <1>1, <1>2, <1>3, SMT DEF GateIInv, GateTypeOK, GateAssumption
<1>5. Arrivals' /\ OpenWhenSending'
  BY <1>2, SMT DEF GateIInv, GateTypeOK, Arrivals, OpenWhenSending, Sending
<1>6. Covered' /\ WithinAllowance'
  BY <1>2, <1>3, SMT
     DEF GateIInv, GateTypeOK, Covered, WithinAllowance, Sending, Unlimited, GateAssumption
<1> QED
  BY <1>4, <1>5, <1>6 DEF GateIInv

LEMMA GateNextIInv == ASSUME GateAssumption PROVE GateIInv /\ [GateNext]_gateVars => GateIInv'
<1> SUFFICES ASSUME GateIInv, [GateNext]_gateVars PROVE GateIInv'
  OBVIOUS
<1>0. /\ cmd.open \in BOOLEAN /\ cmd.num \in Int
      /\ cmd.open => cmd.num = -1 \/ cmd.num \in Nat
      /\ Len(input) \in Nat /\ Len(input) <= 1
  <2>1. (cmd \in Commands \/ cmd = Null) /\ input \in Seq(BOOLEAN) /\ Len(input) <= 1
    BY DEF GateIInv, GateTypeOK
  <2>2. CASE cmd \in Commands
    <3>1. cmd.open \in BOOLEAN /\ cmd.num \in Nat \cup {-1}
      BY <2>2, CommandFacts
    <3> QED
      BY <2>1, <3>1, SMT
  <2>3. CASE cmd = Null
    BY <2>1, <2>3, NullFacts, SMT
  <2> QED
    BY <2>1, <2>2, <2>3
<1>a. input # <<>> => Len(input) = 1
  <2>1. input # <<>> => Len(input) # 0
    BY EmptySeq DEF GateIInv, GateTypeOK
  <2>2. Len(input) \in Nat /\ Len(input) <= 1
    BY <1>0
  <2> DEFINE n == Len(input)
  <2>3. n \in Nat /\ n <= 1 /\ n # 0 => n = 1
    BY SMT
  <2> QED
    BY <2>1, <2>2, <2>3
<1> USE <1>0 DEF GateIInv, GateTypeOK, Arrivals, Covered, OpenWhenSending, WithinAllowance, Sending,
                 Unlimited, GateAssumption
<1>1. CASE receiveInput
  BY <1>1, SMT DEF receiveInput
<1>2. ASSUME NEW c \in Commands, command(c) PROVE GateIInv'
  <2> DEFINE kept == IF Len(control) >= CtrlCap THEN Tail(control) ELSE control
  <2>1. Len(control) \in Nat
    OBVIOUS
  <2>2. kept \in Seq(Commands) /\ Len(kept) \in Nat /\ Len(kept) < CtrlCap
    <3>1. CASE Len(control) >= CtrlCap
      <4>1. control # <<>>
        BY <2>1, <3>1
      <4> QED
        BY <2>1, <3>1, <4>1, HeadTailProperties
    <3>2. CASE ~(Len(control) >= CtrlCap)
      BY <2>1, <3>2
    <3> QED
      BY <3>1, <3>2
  <2>3. control' = Append(kept, c) /\ issued' = issued + 1
    BY <1>2 DEF command
  <2> HIDE DEF kept
  <2>4. control' \in Seq(Commands) /\ Len(control') <= CtrlCap
    BY <2>2, <2>3, AppendProperties
  <2> QED
    BY <1>2, <2>3, <2>4, SMT DEF command
<1>3. CASE stopGate
  <2>1. /\ inputClosed' \in BOOLEAN /\ controlClosed' \in BOOLEAN
        /\ outputClosed' \in BOOLEAN /\ gateRunning' \in BOOLEAN
    BY <1>3, Zenon DEF stopGate
  <2>2. UNCHANGED <<input, control, gateAt, cmd, held, sent, arrived, issued, forwarded,
                    allowed, taken>>
    BY <1>3, Zenon DEF stopGate
  <2> QED
    BY <2>1, <2>2, SMT
<1>4. CASE closeGateOutput
  BY <1>4, SMT DEF closeGateOutput
<1>5. CASE run
  BY <1>5, SMT DEF run, queues
<1>6. CASE sendLoop
  <2>1. CASE gateRunning /\ MoreToSend /\ gateAt' = "any" /\ UNCHANGED cmd
    BY <1>6, <2>1, SMT DEF sendLoop, queues, MoreToSend
  <2>2. CASE ~(gateRunning /\ MoreToSend) /\ gateAt' = "run"
    <3>1. cmd' \in Commands \cup {Null} /\ ~cmd'.open
      BY <1>6, <2>2, CloseFacts, NullFacts DEF sendLoop
    <3> QED
      BY <1>6, <2>2, <3>1, SMT DEF sendLoop, queues
  <2> QED
    BY <1>6, <2>1, <2>2 DEF sendLoop
<1>7. CASE waitAny
  BY <1>7, SMT DEF waitAny, queues
<1>8. CASE tryGetControl
  <2>1. CASE control # <<>> /\ Obey(Head(control))
    BY <1>8, <2>1, GateObeyIInv DEF tryGetControl
  <2>2. CASE gateAt' = "data" /\ UNCHANGED <<control, cmd, allowed, taken>>
    BY <1>8, <2>2, SMT DEF tryGetControl
  <2> QED
    BY <1>8, <2>1, <2>2 DEF tryGetControl
<1>9. CASE breakStopped
  <2>1. cmd' \in Commands \cup {Null} /\ ~cmd'.open
    BY <1>9, CloseFacts DEF breakStopped
  <2> QED
    BY <1>9, <2>1, SMT DEF breakStopped, queues, Null, Cmd, Commands
<1>10. CASE tryGetInput
  <2>1. Len(<<>>) = 0 /\ <<>> \in Seq(BOOLEAN)
    OBVIOUS
  <2> QED
    BY <1>a, <1>10, <2>1, SMT DEF tryGetInput
<1>11. CASE sendOutput
  BY <1>11, SMTT(20) DEF sendOutput, queues
<1>12. CASE waitForCommand
  BY <1>12, GateObeyIInv DEF waitForCommand
<1>13. CASE GateQueueException
  BY <1>13, SMT DEF GateQueueException, queues
<1>14. CASE UNCHANGED gateVars
  BY <1>14, SMT DEF gateVars
<1> QED
  BY <1>1, <1>2, <1>3, <1>4, <1>5, <1>6, <1>7, <1>8, <1>9, <1>10, <1>11, <1>12, <1>13, <1>14
     DEF GateNext, GateStep, GateUnblocked

\* Every reachable state satisfies the inductive invariant.
THEOREM GateInvariance == ASSUME GateAssumption PROVE GateSpec => []GateIInv
<1>1. GateInit => GateIInv
  BY GateInitIInv
<1>2. GateIInv /\ [GateNext]_gateVars => GateIInv'
  BY GateNextIInv
<1> QED
  BY <1>1, <1>2, PTL DEF GateSpec

\* The gate's state is of its type: queues within their bounds, one message in
\* hand exactly while it is sent.
THEOREM GateTypeCorrect == ASSUME GateAssumption PROVE GateSpec => []GateTypeOK
<1>1. GateIInv => GateTypeOK
  BY DEF GateIInv
<1> QED
  BY <1>1, GateInvariance, PTL

\* Over any history of commands and messages the gate passes no more messages
\* than the commands it took allow (Gate.cpp:42-90).
THEOREM GateWithinAllowance == ASSUME GateAssumption PROVE GateSpec => []WithinAllowance
<1>1. GateIInv => WithinAllowance
  BY DEF GateIInv
<1> QED
  BY <1>1, GateInvariance, PTL

----------------------------------------------------------------------------
(* MessageDemux.                                                           *)

\* What every output has while the outputs before cut are done with the group.
DoneBefore(cut) ==
    \A x \in Outputs : Lists(delivered[x], Due(x, IF x < cut THEN Group ELSE Group - 1))

\* The inductive invariant.
DemuxIInv == DemuxTypeOK /\ ExactDelivery /\ (demuxAt = "outputs" => Group >= 1)

----------------------------------------------------------------------------
(* What is due. *)

\* Messages that arrive later change nothing of what is due.
LEMMA DueKept ==
    ASSUME NEW x, NEW g \in Nat, g <= Len(carries), NEW names,
           carries \in Seq((SUBSET Outputs) \cup {NotAGroup}),
           carries' = Append(carries, names)
    PROVE  Due(x, g)' = Due(x, g)
<1>1. Len(carries) \in Nat /\ \A i \in 1 .. Len(carries) : carries'[i] = carries[i]
  OBVIOUS
<1>2. \A i \in 1 .. g : carries'[i] = carries[i]
  BY <1>1
<1> QED
  BY <1>2 DEF Due

\* A group that has no member of the name, or is none, is not due.
LEMMA DueSkips ==
    ASSUME NEW x, NEW g \in Nat, carries[g + 1] = NotAGroup \/ x \notin carries[g + 1]
    PROVE  Due(x, g + 1) = Due(x, g)
<1>1. 1 .. g + 1 = (1 .. g) \cup {g + 1}
  OBVIOUS
<1> QED
  BY <1>1 DEF Due

LEMMA DueAdds ==
    ASSUME NEW x \in Outputs, NEW g \in Nat, NOutputs \in Nat, x \in carries[g + 1]
    PROVE  Due(x, g + 1) = Due(x, g) \cup {g + 1}
<1>1. 1 .. g + 1 = (1 .. g) \cup {g + 1}
  OBVIOUS
<1>2. carries[g + 1] # NotAGroup
  BY DEF Outputs, NotAGroup
<1> QED
  BY <1>1, <1>2 DEF Due

\* Appending the next number to a list of smaller ones.
LEMMA ListsAppend ==
    ASSUME NEW g \in Nat, NEW s \in Seq(Nat), NEW S \in SUBSET (1 .. g), Lists(s, S)
    PROVE  Lists(Append(s, g + 1), S \cup {g + 1})
<1> DEFINE t == Append(s, g + 1)
<1>1. /\ Len(s) \in Nat /\ DOMAIN s = 1 .. Len(s)
      /\ DOMAIN t = 1 .. Len(s) + 1
      /\ \A i \in 1 .. Len(s) : t[i] = s[i]
      /\ t[Len(s) + 1] = g + 1
  OBVIOUS
<1>2. \A i \in 1 .. Len(s) : s[i] \in 1 .. g
  BY <1>1 DEF Lists
<1> HIDE DEF t
<1>3. {t[i] : i \in DOMAIN t} = S \cup {g + 1}
  <2>1. DOMAIN t = DOMAIN s \cup {Len(s) + 1}
    BY <1>1
  <2>2. {t[i] : i \in DOMAIN t} = {s[i] : i \in DOMAIN s} \cup {g + 1}
    BY <1>1, <2>1
  <2> QED
    BY <2>2 DEF Lists
<1>4. ASSUME NEW i \in DOMAIN t, NEW j \in DOMAIN t, i < j PROVE t[i] < t[j]
  <2>1. CASE j = Len(s) + 1
    BY <1>1, <1>2, <1>4, <2>1
  <2>2. CASE j \in 1 .. Len(s)
    <3>1. i \in DOMAIN s /\ j \in DOMAIN s
      BY <1>1, <1>4, <2>2
    <3> QED
      BY <1>1, <1>4, <3>1 DEF Lists
  <2> QED
    BY <1>1, <2>1, <2>2
<1> QED
  BY <1>3, <1>4 DEF Lists, t

----------------------------------------------------------------------------
(* The invariant. *)

LEMMA DemuxInitIInv == ASSUME DemuxAssumption, DemuxInit PROVE DemuxIInv
<1>1. DemuxTypeOK
  <2>1. <<>> \in Seq(1 .. Group) /\ Len(<<>>) = 0 /\ <<>> \in Seq((SUBSET Outputs) \cup {NotAGroup})
    OBVIOUS
  <2>2. inClosed \in BOOLEAN /\ demuxRunning \in BOOLEAN
    BY Zenon DEF DemuxInit
  <2> QED
    BY <2>1, <2>2 DEF DemuxAssumption, DemuxInit, DemuxTypeOK, Outputs
<1>2. \A x \in Outputs : Lists(<<>>, Due(x, 0)) /\ Lists(<<>>, Due(x, 0 - 1))
  <2>1. 1 .. 0 = {} /\ 1 .. (0 - 1) = {}
    OBVIOUS
  <2> QED
    BY <2>1 DEF Lists, Due
<1>3. ExactDelivery
  BY <1>2 DEF DemuxAssumption, DemuxInit, ExactDelivery, Group, Outputs
<1> QED
  BY <1>1, <1>3 DEF DemuxIInv, DemuxInit

\* Whatever leaves carries, next, delivered and the node's place alone.
LEMMA Untouched ==
    ASSUME DemuxIInv, UNCHANGED <<carries, next, demuxAt, o, delivered>>
    PROVE  ExactDelivery' /\ (demuxAt = "outputs" => Group >= 1)'
BY DEF DemuxIInv, ExactDelivery, Due, Group

\* A message arrives.
LEMMA DemuxReceiveIInv ==
    ASSUME DemuxAssumption, DemuxIInv, NEW names \in (SUBSET Outputs) \cup {NotAGroup}, receiveGroup(names)
    PROVE  DemuxIInv'
<1>1. /\ carries \in Seq((SUBSET Outputs) \cup {NotAGroup}) /\ Len(carries) \in Nat
      /\ next \in 1 .. Len(carries) + 1 /\ Group \in 0 .. Len(carries)
  BY DEF DemuxIInv, DemuxTypeOK, Group
<1>2. /\ carries' = Append(carries, names)
      /\ UNCHANGED <<next, outputQueue, outputsClosed, inClosed, demuxRunning, demuxAt, o,
                     delivered>>
  BY DEF receiveGroup
<1>3. carries' \in Seq((SUBSET Outputs) \cup {NotAGroup}) /\ Len(carries') = Len(carries) + 1
  BY <1>1, <1>2, AppendProperties
<1>4. DemuxTypeOK'
  BY <1>1, <1>2, <1>3 DEF DemuxIInv, DemuxTypeOK, Group
<1>5. \A x \in Outputs : Due(x, Group)' = Due(x, Group) /\ Due(x, Group - 1)' = Due(x, Group - 1)
  <2> TAKE x \in Outputs
  <2>1. Due(x, Group)' = Due(x, Group)
    BY <1>1, <1>2, DueKept DEF Group
  <2>2. CASE Group = 0
    BY <2>2, <1>2 DEF Due, Group
  <2>3. CASE Group - 1 \in Nat
    BY <1>1, <1>2, <2>3, DueKept DEF Group
  <2> QED
    BY <1>1, <2>1, <2>2, <2>3
<1>6. ExactDelivery' /\ (demuxAt = "outputs" => Group >= 1)'
  BY <1>2, <1>5 DEF DemuxIInv, ExactDelivery, Group
<1> QED
  BY <1>4, <1>6 DEF DemuxIInv

\* What the proofs of the node's steps use.
LEMMA DemuxFacts ==
    ASSUME DemuxAssumption, DemuxIInv
    PROVE  /\ NOutputs \in Nat \ {0} /\ o \in 1 .. NOutputs
           /\ Len(carries) \in Nat /\ next \in Nat \ {0} /\ next - 1 <= Len(carries)
           /\ Group = next - 1 /\ Group \in Nat
           /\ demuxAt = "outputs" => Group >= 1 /\ DoneBefore(o)
           /\ demuxAt \in {"loop", "get"} => DoneBefore(NOutputs + 1)
<1>1. /\ NOutputs \in Nat \ {0} /\ o \in 1 .. NOutputs
      /\ Len(carries) \in Nat /\ next \in Nat \ {0} /\ next - 1 <= Len(carries)
      /\ Group = next - 1 /\ Group \in Nat
  BY DEF DemuxAssumption, DemuxIInv, DemuxTypeOK, Outputs, Group
<1>2. PICK cut \in 1 .. NOutputs + 1 :
        /\ demuxAt = "outputs" => cut = o
        /\ demuxAt \in {"loop", "get"} => cut = NOutputs + 1
        /\ DoneBefore(cut)
  BY DEF DemuxIInv, ExactDelivery, DoneBefore
<1> QED
  BY <1>1, <1>2 DEF DemuxIInv

\* The node takes a message: all outputs start on it, or are done with it.
LEMMA DemuxGetIInv == ASSUME DemuxAssumption, DemuxIInv, get PROVE DemuxIInv'
<1>1. /\ NOutputs \in Nat \ {0} /\ next \in Nat \ {0} /\ Len(carries) \in Nat
      /\ next <= Len(carries) /\ Group = next - 1 /\ Group \in Nat
      /\ DoneBefore(NOutputs + 1)
  BY DemuxFacts DEF get
<1>2. /\ next' = next + 1 /\ Group' = Group + 1
      /\ UNCHANGED <<carries, outputQueue, outputsClosed, inClosed, demuxRunning,
                     delivered>>
  BY <1>1 DEF get, surroundings, Group
<1>3. \/ carries[next] = NotAGroup /\ demuxAt' = "loop" /\ o' = o
      \/ demuxAt' = "outputs" /\ o' = 1
  BY DEF get
<1>4. DemuxTypeOK'
  <2>1. Seq(1 .. Group) \subseteq Seq(1 .. Group')
    BY <1>1, <1>2, SeqMonotonic
  <2>2. next' \in 1 .. Len(carries') + 1 /\ demuxAt' \in {"loop", "get", "outputs", "ended"} /\ o' \in Outputs
    BY <1>1, <1>2, <1>3 DEF Outputs, DemuxIInv, DemuxTypeOK
  <2> QED
    BY <1>2, <2>1, <2>2 DEF DemuxIInv, DemuxTypeOK
<1>5. \A x \in Outputs : Lists(delivered[x], Due(x, Group))
  BY <1>1 DEF DoneBefore, Outputs
<1>6. \A x, g : Due(x, g)' = Due(x, g)
  BY <1>2 DEF Due
<1>7. CASE carries[next] = NotAGroup /\ demuxAt' = "loop"
  <2>1. \A x \in Outputs : Due(x, Group + 1) = Due(x, Group)
    BY <1>1, <1>7, DueSkips
  <2>2. \A x \in Outputs : Lists(delivered[x], Due(x, Group))' /\ x < NOutputs + 1
    BY <1>1, <1>2, <1>5, <1>6, <2>1 DEF Lists, Outputs
  <2>3. ExactDelivery'
    BY <1>1, <1>7, <2>2 DEF ExactDelivery
  <2> QED
    BY <1>4, <1>7, <2>3 DEF DemuxIInv
<1>8. CASE demuxAt' = "outputs" /\ o' = 1
  <2>1. \A x \in Outputs : ~(x < 1) /\ Group' - 1 = Group
    BY <1>1, <1>2 DEF Outputs
  <2>2. \A x \in Outputs : Lists(delivered[x], Due(x, Group - 1))'
    BY <1>2, <1>5, <1>6, <2>1 DEF Lists
  <2>3. ExactDelivery'
    BY <1>1, <1>8, <2>1, <2>2 DEF ExactDelivery
  <2> QED
    BY <1>1, <1>2, <1>4, <1>8, <2>3 DEF DemuxIInv
<1> QED
  BY <1>3, <1>7, <1>8

\* The output the node is at has what is due, and the node goes on.
LEMMA AdvanceDelivers ==
    ASSUME DemuxAssumption, DemuxIInv, demuxAt = "outputs", Advance, UNCHANGED <<carries, next>>,
           Lists(delivered'[o], Due(o, Group)),
           \A x \in Outputs : x # o => delivered'[x] = delivered[x]
    PROVE  /\ ExactDelivery' /\ (demuxAt = "outputs" => Group >= 1)'
           /\ demuxAt' \in {"loop", "outputs"} /\ o' \in Outputs
<1>1. /\ NOutputs \in Nat \ {0} /\ o \in 1 .. NOutputs /\ Group \in Nat /\ Group >= 1
      /\ DoneBefore(o)
  BY DemuxFacts
<1>2. Group' = Group /\ \A x, g : Due(x, g)' = Due(x, g)
  BY DEF Group, Due
<1>3. \A x \in Outputs :
        Lists(delivered'[x], Due(x, IF x < o + 1 THEN Group ELSE Group - 1))
  <2> TAKE x \in Outputs
  <2>1. CASE x = o
    BY <1>1, <2>1
  <2>2. CASE x # o
    <3>1. (x < o + 1) <=> (x < o)
      BY <1>1, <2>2 DEF Outputs
    <3> QED
      BY <1>1, <2>2, <3>1 DEF DoneBefore
  <2> QED
    BY <2>1, <2>2
<1>4. CASE o < NOutputs
  <2>1. o' = o + 1 /\ demuxAt' = "outputs"
    BY <1>4 DEF Advance
  <2>2. o + 1 \in 1 .. NOutputs /\ o + 1 \in 1 .. NOutputs + 1
    BY <1>1, <1>4
  <2>3. ExactDelivery'
    BY <1>2, <1>3, <2>1, <2>2 DEF ExactDelivery
  <2> QED
    BY <1>1, <1>2, <2>1, <2>2, <2>3 DEF Outputs
<1>5. CASE ~(o < NOutputs)
  <2>1. demuxAt' = "loop" /\ o' = o /\ o + 1 = NOutputs + 1
    BY <1>1, <1>5 DEF Advance
  <2>2. NOutputs + 1 \in 1 .. NOutputs + 1
    BY <1>1
  <2>3. ExactDelivery'
    BY <1>2, <1>3, <2>1, <2>2 DEF ExactDelivery
  <2> QED
    BY <1>1, <2>1, <2>3 DEF Outputs
<1> QED
  BY <1>4, <1>5

LEMMA DemuxSkipIInv == ASSUME DemuxAssumption, DemuxIInv, skip PROVE DemuxIInv'
<1>1. /\ o \in 1 .. NOutputs /\ Group \in Nat /\ Group >= 1 /\ DoneBefore(o) /\ o \notin carries[Group]
      /\ demuxAt = "outputs"
  BY DemuxFacts DEF skip
<1>2. /\ Advance
      /\ UNCHANGED <<carries, outputQueue, outputsClosed, inClosed, demuxRunning, next,
                     delivered>>
  BY DEF skip, surroundings
<1>3. Lists(delivered'[o], Due(o, Group))
  <2>1. Group - 1 \in Nat /\ Group - 1 + 1 = Group
    BY <1>1
  <2>2. Due(o, Group) = Due(o, Group - 1)
    BY <1>1, <2>1, DueSkips
  <2>3. Lists(delivered[o], Due(o, Group - 1))
    BY <1>1 DEF DoneBefore, Outputs
  <2> QED
    BY <1>2, <2>2, <2>3
<1>4. /\ ExactDelivery' /\ (demuxAt = "outputs" => Group >= 1)'
      /\ demuxAt' \in {"loop", "outputs"} /\ o' \in Outputs
  BY <1>1, <1>2, <1>3, AdvanceDelivers
<1>5. DemuxTypeOK'
  BY <1>2, <1>4 DEF DemuxIInv, DemuxTypeOK, Group
<1> QED
  BY <1>4, <1>5 DEF DemuxIInv

LEMMA DemuxSendIInv == ASSUME DemuxAssumption, DemuxIInv, sendMember PROVE DemuxIInv'
<1>1. /\ NOutputs \in Nat \ {0} /\ o \in 1 .. NOutputs /\ o \in Outputs /\ Group \in Nat /\ Group >= 1
      /\ DoneBefore(o) /\ o \in carries[Group] /\ demuxAt = "outputs" /\ Len(outputQueue[o]) < OutCap
      /\ OutCap \in Nat
  BY DemuxFacts DEF sendMember, Outputs, DemuxAssumption
<1>2. /\ Advance
      /\ UNCHANGED <<carries, outputsClosed, inClosed, demuxRunning, next>>
      /\ outputQueue' = [outputQueue EXCEPT ![o] = Append(@, Group)]
      /\ delivered' = [delivered EXCEPT ![o] = Append(@, Group)]
  BY DEF sendMember
<1>3. /\ outputQueue \in [Outputs -> Seq(1 .. Group)] /\ delivered \in [Outputs -> Seq(1 .. Group)]
      /\ \A x \in Outputs : Len(outputQueue[x]) <= OutCap
  BY DEF DemuxIInv, DemuxTypeOK
<1>4. /\ delivered'[o] = Append(delivered[o], Group)
      /\ \A x \in Outputs : x # o => delivered'[x] = delivered[x]
  BY <1>1, <1>2, <1>3
<1>5. Lists(delivered'[o], Due(o, Group))
  <2>1. Group - 1 \in Nat /\ Group - 1 + 1 = Group
    BY <1>1
  <2>2. Due(o, Group) = Due(o, Group - 1) \cup {Group}
    BY <1>1, <2>1, DueAdds
  <2>3. Lists(delivered[o], Due(o, Group - 1))
    BY <1>1 DEF DoneBefore, Outputs
  <2>4. delivered[o] \in Seq(Nat) /\ Due(o, Group - 1) \in SUBSET (1 .. Group - 1)
    <3>1. Seq(1 .. Group) \subseteq Seq(Nat)
      <4>1. 1 .. Group \subseteq Nat
        BY <1>1
      <4> QED
        BY <4>1, SeqMonotonic
    <3> QED
      BY <1>1, <1>3, <3>1 DEF Due
  <2>5. Lists(Append(delivered[o], Group - 1 + 1), Due(o, Group - 1) \cup {Group - 1 + 1})
    BY <2>1, <2>3, <2>4, ListsAppend
  <2> QED
    BY <1>4, <2>1, <2>2, <2>5
<1>6. /\ ExactDelivery' /\ (demuxAt = "outputs" => Group >= 1)'
      /\ demuxAt' \in {"loop", "outputs"} /\ o' \in Outputs
  BY <1>1, <1>2, <1>4, <1>5, AdvanceDelivers
<1>7. DemuxTypeOK'
  <2>1. \A s \in Seq(1 .. Group) : /\ Append(s, Group) \in Seq(1 .. Group)
                                   /\ Len(Append(s, Group)) = Len(s) + 1 /\ Len(s) \in Nat
    BY <1>1, AppendProperties
  <2>2. /\ outputQueue' \in [Outputs -> Seq(1 .. Group)] /\ delivered' \in [Outputs -> Seq(1 .. Group)]
        /\ \A x \in Outputs : Len(outputQueue'[x]) <= OutCap
    BY <1>1, <1>2, <1>3, <2>1
  <2>3. Group' = Group
    BY <1>2 DEF Group
  <2> QED
    BY <1>2, <1>6, <2>2, <2>3 DEF DemuxIInv, DemuxTypeOK
<1> QED
  BY <1>6, <1>7 DEF DemuxIInv

\* The node's other steps, which only change its place.
LEMMA DemuxPlaceIInv == ASSUME DemuxAssumption, DemuxIInv, demuxLoop \/ DemuxQueueException PROVE DemuxIInv'
<1>1. UNCHANGED <<carries, outputQueue, outputsClosed, inClosed, demuxRunning, next, o,
                  delivered>>
  BY DEF demuxLoop, DemuxQueueException, surroundings
<1>2. /\ demuxAt' \in {"get", "ended"}
      /\ demuxAt \in {"loop", "get"} \/ (demuxAt = "outputs" /\ demuxAt' = "ended")
  BY DEF demuxLoop, DemuxQueueException
<1>3. DemuxTypeOK'
  BY <1>1, <1>2 DEF DemuxIInv, DemuxTypeOK, Group
<1>4. PICK cut \in 1 .. NOutputs + 1 :
        /\ demuxAt \in {"loop", "get"} => cut = NOutputs + 1
        /\ DoneBefore(cut)
  BY DEF DemuxIInv, ExactDelivery, DoneBefore
<1>5. DoneBefore(cut)'
  BY <1>1, <1>4 DEF DoneBefore, Group, Due
<1>6. ExactDelivery'
  BY <1>2, <1>4, <1>5 DEF ExactDelivery, DoneBefore
<1> QED
  BY <1>2, <1>3, <1>6 DEF DemuxIInv

LEMMA DemuxNextIInv == ASSUME DemuxAssumption PROVE DemuxIInv /\ [DemuxNext]_demuxVars => DemuxIInv'
<1> SUFFICES ASSUME DemuxIInv, [DemuxNext]_demuxVars PROVE DemuxIInv'
  OBVIOUS
<1>1. ASSUME NEW names \in (SUBSET Outputs) \cup {NotAGroup}, receiveGroup(names) PROVE DemuxIInv'
  BY <1>1, DemuxReceiveIInv
<1>2. ASSUME NEW x \in Outputs, consume(x) PROVE DemuxIInv'
  <2>1. Tail(outputQueue[x]) \in Seq(1 .. Group) /\ Len(Tail(outputQueue[x])) <= OutCap
    <3>1. /\ outputQueue[x] \in Seq(1 .. Group) /\ outputQueue[x] # <<>> /\ Len(outputQueue[x]) <= OutCap
          /\ Len(outputQueue[x]) \in Nat /\ OutCap \in Nat
      BY <1>2 DEF DemuxIInv, DemuxTypeOK, consume, DemuxAssumption
    <3>2. Tail(outputQueue[x]) \in Seq(1 .. Group) /\ Len(Tail(outputQueue[x])) = Len(outputQueue[x]) - 1
      BY <3>1, HeadTailProperties
    <3> QED
      BY <3>1, <3>2
  <2>2. DemuxTypeOK'
    BY <1>2, <2>1 DEF consume, DemuxIInv, DemuxTypeOK, Group
  <2> QED
    BY <1>2, <2>2, Untouched DEF consume, DemuxIInv
<1>3. ASSUME NEW x \in Outputs, closeDemuxOutput(x) PROVE DemuxIInv'
  <2>1. DemuxTypeOK'
    BY <1>3 DEF closeDemuxOutput, DemuxIInv, DemuxTypeOK, Group
  <2> QED
    BY <1>3, <2>1, Untouched DEF closeDemuxOutput, DemuxIInv
<1>4. CASE stopDemux
  <2>1. inClosed' \in BOOLEAN /\ demuxRunning' \in BOOLEAN
    BY <1>4, Zenon DEF stopDemux, DemuxIInv, DemuxTypeOK
  <2>2. UNCHANGED <<carries, next, outputQueue, outputsClosed, demuxAt, o, delivered>>
    BY <1>4 DEF stopDemux
  <2>3. DemuxTypeOK'
    BY <2>1, <2>2 DEF DemuxIInv, DemuxTypeOK, Group
  <2> QED
    BY <2>2, <2>3, Untouched DEF DemuxIInv
<1>5. CASE demuxLoop \/ DemuxQueueException
  BY <1>5, DemuxPlaceIInv
<1>6. CASE get
  BY <1>6, DemuxGetIInv
<1>7. CASE skip
  BY <1>7, DemuxSkipIInv
<1>8. CASE sendMember
  BY <1>8, DemuxSendIInv
<1>9. CASE UNCHANGED demuxVars
  <2>1. DemuxTypeOK'
    BY <1>9 DEF demuxVars, DemuxIInv, DemuxTypeOK, Group
  <2> QED
    BY <1>9, <2>1, Untouched DEF demuxVars, DemuxIInv
<1> QED
  BY <1>1, <1>2, <1>3, <1>4, <1>5, <1>6, <1>7, <1>8, <1>9 DEF DemuxNext, DemuxStep

----------------------------------------------------------------------------

\* Every reachable state satisfies the inductive invariant.
THEOREM DemuxInvariance == ASSUME DemuxAssumption PROVE DemuxSpec => []DemuxIInv
<1>1. DemuxInit => DemuxIInv
  BY DemuxInitIInv
<1>2. DemuxIInv /\ [DemuxNext]_demuxVars => DemuxIInv'
  BY DemuxNextIInv
<1> QED
  BY <1>1, <1>2, PTL DEF DemuxSpec

\* The demux's state is of its type: its queues within their bound.
THEOREM DemuxTypeCorrect == ASSUME DemuxAssumption PROVE DemuxSpec => []DemuxTypeOK
<1>1. DemuxIInv => DemuxTypeOK
  BY DEF DemuxIInv
<1> QED
  BY <1>1, DemuxInvariance, PTL

\* Each output is sent the members of exactly the groups that have one for it,
\* once and in order (MessageDemux.cpp:20-42).
THEOREM DemuxExactDelivery == ASSUME DemuxAssumption PROVE DemuxSpec => []ExactDelivery
<1>1. DemuxIInv => ExactDelivery
  BY DEF DemuxIInv
<1> QED
  BY <1>1, DemuxInvariance, PTL

----------------------------------------------------------------------------
(* AutoCalibration: types. *)

Orders == [name : {"resetData", "loadImage", "metrics", "apply", "start", "stop"},
             calibration : Nat]
Metrics == [of : Nat, images : [number : Nat, since : Nat], data : BOOLEAN, good : BOOLEAN]
Results == {NoResult} \cup [found : {TRUE}, sure : BOOLEAN, calibration : Nat, start : Nat]

\* The node's own state.
AutoTyped == /\ Prompt \in BOOLEAN /\ validationSetSize \in 0 .. MaxImages
             /\ apc \in {"validate", "validating", "round", "ended", "iterate", "drain", "load",
                         "loading", "measuring", "recalibrate", "waiting", "covering"}
             /\ numIterations \in Nat /\ attempt \in Nat /\ count \in Nat
             /\ calibration \in Nat /\ result \in Results /\ started \in Nat
             /\ dropped \in BOOLEAN
QueuesTyped == /\ inputControl \in Seq(Orders) /\ Len(inputControl) <= ControlSize
               /\ results \in Seq(Results) /\ Len(results) <= 1
               /\ coverages \in Seq({"coverage"}) /\ Len(coverages) <= 1
               /\ metrics \in Seq(Metrics) /\ Len(metrics) <= 1
DynamicTyped == /\ dpc \in {"init", "command", "tick", "loading", "image", "calibrate"}
                /\ calibrationShouldRun \in BOOLEAN /\ start \in Nat
                /\ images \in [number : 0 .. MaxImages, since : Nat]
                /\ found \in Nat /\ device \in Nat
AutoTypeOK == AutoTyped /\ QueuesTyped /\ DynamicTyped

----------------------------------------------------------------------------
(* The invariant of a prompt node: no command is dropped, and only one of  *)
(* the two nodes is ever ahead of the other.                               *)

NameAt(i) == inputControl[i].name
LastName == NameAt(Len(inputControl))

\* The calibration loop runs only while its result is waited for.
Ticks ==
    /\ dpc \in {"image", "calibrate"} =>
         /\ apc = "waiting" /\ inputControl = <<>> /\ results = <<>>
         /\ calibrationShouldRun /\ start = started
    /\ dpc = "calibrate" => coverages # <<>>
    /\ results # <<>> =>
         /\ apc = "waiting" /\ inputControl = <<>> /\ coverages # <<>> /\ start = started
         /\ Head(results).found => Head(results).start = started
         /\ calibrationShouldRun = ~Head(results).found
    /\ apc = "covering" =>
         /\ inputControl = <<>> /\ coverages # <<>> /\ start = started
         /\ result.found => result.start = started
         /\ calibrationShouldRun = ~result.found

\* The commands that start and stop the loop.
Starts ==
    /\ \A i \in 1 .. Len(inputControl) :
         NameAt(i) = "start" => /\ apc = "waiting" /\ i = Len(inputControl)
                                /\ inputControl[i].calibration = started
    /\ apc = "waiting" /\ inputControl # <<>> => LastName = "start"
    /\ apc = "waiting" /\ inputControl = <<>> => results # <<>> \/ (start = started /\ calibrationShouldRun)
    /\ calibrationShouldRun =>
         \/ apc \in {"waiting", "covering"}
         \/ apc = "recalibrate" /\ attempt > 0
         \/ \E i \in 1 .. Len(inputControl) : NameAt(i) = "stop"

\* The commands that load and measure.
Loads ==
    /\ \A i \in 1 .. Len(inputControl) :
         /\ NameAt(i) = "loadImage" => apc = "loading" /\ i = Len(inputControl)
         /\ NameAt(i) = "metrics" => /\ apc = "measuring" /\ metrics = <<>>
                                     /\ inputControl[i].calibration = calibration
    /\ apc = "loading" /\ inputControl # <<>> => LastName = "loadImage"
    /\ apc = "measuring" /\ inputControl # <<>> => LastName = "metrics"
    /\ dpc = "loading" => apc = "loading" /\ inputControl = <<>> /\ coverages = <<>>
    /\ metrics # <<>> => apc = "measuring" /\ inputControl = <<>>
    /\ apc \in {"drain", "load", "loading", "measuring"} => validationSetSize > 0

\* How many commands there may be: never as many as inputControl holds.
Short ==
    LET n == Len(inputControl) IN
    /\ apc \in {"validate", "validating", "covering"} => n = 0
    /\ apc \in {"round", "iterate"} => n <= 2
    /\ apc \in {"drain", "load", "recalibrate"} => n <= 3
    /\ apc = "load" /\ count > 0 => n = 0
    /\ apc = "loading" /\ count > 0 => n <= 1
    /\ apc = "measuring" => n <= 1
    /\ apc = "recalibrate" /\ attempt > 0 => n <= 1
    /\ ~dropped

\* The images that the coverages stand for.
Counted ==
    /\ apc = "drain" => count = 0
    /\ apc = "load" => count <= validationSetSize /\ images.number >= count
    /\ apc = "loading" => count < validationSetSize /\ images.number >= count
    /\ apc = "measuring" => images.number >= validationSetSize
    /\ coverages # <<>> =>
         \/ apc \in {"waiting", "covering"}
         \/ apc = "loading" /\ inputControl = <<>> /\ images.number > count

\* Calibrations are older than what may be computed next.
Older ==
    /\ calibration <= found /\ images.since <= found
    /\ result.found => result.calibration <= found
    /\ results # <<>> /\ Head(results).found => Head(results).calibration <= found

\* With a validation set: no image in the data was used for the calibration
\* that it is about, or the data are about to be reset.
Fresh ==
    \/ calibration <= images.since
    \/ apc = "round"
    \/ apc \in {"iterate", "drain", "load"} /\ inputControl # <<>> /\ LastName = "resetData"
    \/ apc = "loading" /\ Len(inputControl) > 1 /\ NameAt(Len(inputControl) - 1) = "resetData"

\* What is applied, and may be the calibration of the next round.
Applies ==
    /\ device <= images.since
    /\ \A i \in 1 .. Len(inputControl) :
         NameAt(i) = "apply" => inputControl[i].calibration <= images.since
    /\ metrics # <<>> => /\ Head(metrics).of = calibration
                         /\ Head(metrics).images.number >= validationSetSize
                         /\ calibration <= Head(metrics).images.since

PromptInv ==
    /\ Ticks /\ Starts /\ Loads /\ Short /\ Counted
    /\ validationSetSize > 0 => Older /\ Fresh /\ Applies
    /\ AppliedIsValidated
    /\ ResultsAreOfThisAttempt

AutoIInv == AutoTypeOK /\ (Prompt => PromptInv)

----------------------------------------------------------------------------
(* The queue of commands. *)

LEMMA CommandOne ==
    ASSUME AutoCalibrationAssumption, QueuesTyped, NEW c \in Orders, Command(<<c>>)
    PROVE  LET q == inputControl IN
           /\ inputControl' \in Seq(Orders)
           /\ Len(inputControl') = IF Len(q) < ControlSize THEN Len(q) + 1 ELSE ControlSize
           /\ inputControl'[Len(inputControl')] = c
           /\ \A i \in 1 .. Len(inputControl') - 1 :
                inputControl'[i] = q[IF Len(q) < ControlSize THEN i ELSE i + 1]
           /\ dropped' = (dropped \/ Len(q) = ControlSize)
<1> DEFINE q == inputControl
           all == q \o <<c>>
           n == Len(q)
<1>1. q \in Seq(Orders) /\ n \in Nat /\ n <= ControlSize /\ ControlSize \in Nat /\ ControlSize >= 4
  BY DEF QueuesTyped, AutoCalibrationAssumption
<1>2. /\ all \in Seq(Orders) /\ Len(all) = n + 1 /\ all[n + 1] = c
      /\ \A i \in 1 .. n : all[i] = q[i]
  BY <1>1
<1>3. /\ inputControl' = IF Len(all) - ControlSize > 0 THEN SubSeq(all, Len(all) - ControlSize + 1, Len(all)) ELSE all
      /\ dropped' = (dropped \/ Len(all) - ControlSize > 0)
  BY DEF Command
<1> HIDE DEF all, q
<1>4. CASE n < ControlSize
  <2>1. ~(Len(all) - ControlSize > 0) /\ n # ControlSize
    BY <1>1, <1>2, <1>4
  <2>2. inputControl' = all /\ dropped' = (dropped \/ n = ControlSize)
    BY <1>3, <2>1
  <2>3. QED
    BY <1>1, <1>2, <1>4, <2>2 DEF q
<1>5. CASE n = ControlSize
  <2> /\ Len(all) - ControlSize > 0 /\ Len(all) - ControlSize + 1 = 2
      /\ Len(all) = n + 1
    BY <1>1, <1>2, <1>5
  <2>1. inputControl' = SubSeq(all, 2, n + 1)
    BY <1>3
  <2>2. /\ inputControl' \in Seq(Orders) /\ Len(inputControl') = n
        /\ \A i \in 1 .. n : inputControl'[i] = all[i + 1]
    BY <1>1, <1>2, <2>1
  <2>3. QED
    BY <1>1, <1>2, <1>3, <1>5, <2>2 DEF q
<1> QED
  BY <1>1, <1>4, <1>5

\* Two commands that find room.
LEMMA CommandTwo ==
    ASSUME AutoCalibrationAssumption, QueuesTyped, NEW c \in Orders, NEW d \in Orders,
           dropped \in BOOLEAN, Command(<<c, d>>)
    PROVE  /\ inputControl' \in Seq(Orders) /\ Len(inputControl') <= ControlSize
           /\ dropped' \in BOOLEAN
           /\ inputControl = <<>> => /\ Len(inputControl') = 2 /\ inputControl'[1] = c
                                     /\ inputControl'[2] = d /\ dropped' = dropped
<1> DEFINE q == inputControl
           all == q \o <<c, d>>
<1>1. q \in Seq(Orders) /\ Len(q) \in Nat /\ Len(q) <= ControlSize /\ ControlSize \in Nat /\ ControlSize >= 4
  BY DEF QueuesTyped, AutoCalibrationAssumption
<1>2. all \in Seq(Orders) /\ Len(all) = Len(q) + 2
  BY <1>1
<1>3. /\ inputControl' = IF Len(all) - ControlSize > 0 THEN SubSeq(all, Len(all) - ControlSize + 1, Len(all)) ELSE all
      /\ dropped' = (dropped \/ Len(all) - ControlSize > 0)
  BY DEF Command
<1>4. q = <<>> => Len(all) = 2 /\ all[1] = c /\ all[2] = d
  BY <1>1
<1> HIDE DEF all, q
<1>5. /\ inputControl' \in Seq(Orders) /\ Len(inputControl') <= ControlSize
      /\ dropped' \in BOOLEAN
  BY <1>1, <1>2, <1>3
<1>6. q = <<>> => inputControl' = all /\ dropped' = (dropped \/ FALSE)
  BY <1>1, <1>2, <1>3, <1>4
<1> QED
  BY <1>4, <1>5, <1>6 DEF q

\* With room, no command is dropped.
LEMMA CommandRoom ==
    ASSUME AutoCalibrationAssumption, QueuesTyped, NEW c \in Orders, Command(<<c>>),
           Len(inputControl) < ControlSize, ~dropped
    PROVE  LET n == Len(inputControl) IN
           /\ n \in Nat /\ Len(inputControl') = n + 1
           /\ inputControl'[n + 1] = c
           /\ \A i \in 1 .. n : inputControl'[i] = inputControl[i]
           /\ ~dropped' /\ inputControl' # <<>>
<1>1. inputControl \in Seq(Orders) /\ Len(inputControl) \in Nat /\ ControlSize \in Nat
  BY DEF QueuesTyped, AutoCalibrationAssumption
<1>2. /\ inputControl' \in Seq(Orders)
      /\ Len(inputControl') = Len(inputControl) + 1
      /\ inputControl'[Len(inputControl')] = c
      /\ \A i \in 1 .. Len(inputControl') - 1 : inputControl'[i] = inputControl[i]
      /\ dropped' = (dropped \/ Len(inputControl) = ControlSize)
  BY <1>1, CommandOne
<1>3. Len(inputControl) # ControlSize
  BY <1>1
<1>4. ~dropped'
  BY <1>2, <1>3, Zenon
<1> QED
  BY <1>1, <1>2, <1>4

\* A queue of one answer: kept, emptied or with a new answer.
LEMMA AnswerQueue ==
    ASSUME NEW S, NEW q \in Seq(S), Len(q) <= 1, NEW r,
           \/ r = q
           \/ r = <<>>
           \/ \E x \in S : r = <<x>>
    PROVE  r \in Seq(S) /\ Len(r) <= 1
<1>1. CASE r = <<>>
  BY <1>1
<1>2. CASE \E x \in S : r = <<x>>
  BY <1>2
<1> QED
  BY <1>1, <1>2

LEMMA SimplyCommands == /\ \A name \in {"resetData", "loadImage", "stop"} : Simply(name) \in Orders
                        /\ \A name \in {"metrics", "apply", "start"}, c \in Nat : CmdOf(name, c) \in Orders
BY DEF Simply, CmdOf, Orders

\* The command at the head of the queue is taken.
LEMMA CommandTaken ==
    ASSUME QueuesTyped, inputControl # <<>>, inputControl' = Tail(inputControl)
    PROVE  /\ Head(inputControl) = inputControl[1] /\ inputControl[1] \in Orders
           /\ inputControl' \in Seq(Orders)
           /\ Len(inputControl) > 0 /\ Len(inputControl') = Len(inputControl) - 1
           /\ \A i \in 1 .. Len(inputControl') : inputControl'[i] = inputControl[i + 1]
BY DEF QueuesTyped

----------------------------------------------------------------------------
(* Types. *)

LEMMA InitAutoTyped == ASSUME AutoCalibrationAssumption PROVE AutoInit => AutoTypeOK
<1> SUFFICES ASSUME AutoInit PROVE AutoTypeOK
  OBVIOUS
<1> USE DEF AutoInit, AutoCalibrationAssumption
<1>1. AutoTyped
  BY DEF AutoTyped, Results
<1>2. QueuesTyped
  BY DEF QueuesTyped
<1>3. DynamicTyped
  <2>1. 0 \in 0 .. MaxImages
    OBVIOUS
  <2>2. QED
    BY <2>1 DEF DynamicTyped, NoImages
<1> QED
  BY <1>1, <1>2, <1>3 DEF AutoTypeOK

\* What a step of AutoCalibration may change, and how.
LEMMA AutoStepFacts ==
    ASSUME AutoCalibration
    PROVE  /\ UNCHANGED <<chosen, dynamic>>
           /\ apc' \in {"validate", "validating", "round", "ended", "iterate", "drain", "load",
                       "loading", "measuring", "recalibrate", "waiting", "covering"}
           /\ numIterations' \in {numIterations, numIterations + 1, 0}
           /\ attempt' \in {attempt, attempt + 1, 0}
           /\ count' \in {count, count + 1, 0}
           /\ \/ calibration' \in {calibration, device}
              \/ apc = "covering" /\ result.found /\ calibration' = result.calibration
           /\ \/ result' \in {result, NoResult}
              \/ results # <<>> /\ result' = Head(results)
           /\ started' \in {started, started + 1}
           /\ \/ UNCHANGED <<inputControl, dropped>>
              \/ \E name \in {"resetData", "loadImage", "stop"} : Command(<<Simply(name)>>)
              \/ Command(<<CmdOf("metrics", calibration)>>)
              \/ Command(<<CmdOf("apply", calibration)>>)
              \/ Command(<<[name |-> "start", calibration |-> started + 1]>>)
              \/ /\ result.found
                 /\ Command(<<Simply("resetData"), CmdOf("apply", result.calibration)>>)
           /\ UNCHANGED results \/ results' = <<>>
           /\ UNCHANGED coverages \/ coverages' = <<>>
           /\ UNCHANGED metrics \/ metrics' = <<>>
<1> USE DEF AutoCalibration, validateIncomingData, validated, updateCalibrationProcess, iterate,
            drainCoverages, loadImage, imageLoaded, getMetrics, measured,
            startCalibration, giveUp, resultArrives, coverageArrives
<1>1. UNCHANGED <<chosen, dynamic>>
  OBVIOUS
<1>2. apc' \in {"validate", "validating", "round", "ended", "iterate", "drain", "load",
               "loading", "measuring", "recalibrate", "waiting", "covering"}
  BY SMT
<1>3. numIterations' \in {numIterations, numIterations + 1, 0}
  BY SMT
<1>4. attempt' \in {attempt, attempt + 1, 0}
  BY SMT
<1>5. count' \in {count, count + 1, 0}
  BY SMT
<1>6. \/ calibration' \in {calibration, device}
      \/ apc = "covering" /\ result.found /\ calibration' = result.calibration
  BY SMT
<1>7. \/ result' \in {result, NoResult}
      \/ results # <<>> /\ result' = Head(results)
  BY SMT
<1>8. started' \in {started, started + 1}
  BY SMT DEF autoHistory
<1>9. \/ UNCHANGED <<inputControl, dropped>>
      \/ \E name \in {"resetData", "loadImage", "stop"} : Command(<<Simply(name)>>)
      \/ Command(<<CmdOf("metrics", calibration)>>)
      \/ Command(<<CmdOf("apply", calibration)>>)
      \/ Command(<<[name |-> "start", calibration |-> started + 1]>>)
      \/ /\ result.found
         /\ Command(<<Simply("resetData"), CmdOf("apply", result.calibration)>>)
  BY SMT DEF autoHistory
<1>10. /\ UNCHANGED results \/ results' = <<>>
       /\ UNCHANGED coverages \/ coverages' = <<>>
       /\ UNCHANGED metrics \/ metrics' = <<>>
  BY SMT DEF answers
<1> QED
  BY <1>1, <1>2, <1>3, <1>4, <1>5, <1>6, <1>7, <1>8, <1>9, <1>10

LEMMA ResultsHave ==
    /\ NoResult \in Results /\ ~NoResult.found
    /\ \A r \in Results : /\ r.found \in BOOLEAN
                          /\ r.found => r.calibration \in Nat /\ r.start \in Nat
                          /\ ~r.found => r = NoResult
<1>1. NoResult.found = FALSE
  BY DEF NoResult
<1> QED
  BY <1>1 DEF Results

LEMMA AutoStepTyped ==
    ASSUME AutoCalibrationAssumption, AutoTypeOK, AutoCalibration
    PROVE  AutoTypeOK'
<1>1. AutoTyped /\ QueuesTyped /\ DynamicTyped
  BY DEF AutoTypeOK
<1>2. Prompt' \in BOOLEAN /\ validationSetSize' \in 0 .. MaxImages
  <2>1. Prompt' = Prompt /\ validationSetSize' = validationSetSize
    BY AutoStepFacts DEF chosen
  <2>2. QED
    BY <1>1, <2>1 DEF AutoTyped
<1>3. apc' \in {"validate", "validating", "round", "ended", "iterate", "drain", "load",
               "loading", "measuring", "recalibrate", "waiting", "covering"}
  BY AutoStepFacts
<1>4. numIterations' \in Nat /\ attempt' \in Nat /\ count' \in Nat /\ started' \in Nat
  <2>1. numIterations \in Nat /\ attempt \in Nat /\ count \in Nat /\ started \in Nat
    BY <1>1 DEF AutoTyped
  <2>2. /\ numIterations' \in {numIterations, numIterations + 1, 0}
        /\ attempt' \in {attempt, attempt + 1, 0}
        /\ count' \in {count, count + 1, 0}
        /\ started' \in {started, started + 1}
    BY AutoStepFacts
  <2>3. QED
    BY <2>1, <2>2
<1>5. result \in Results /\ calibration \in Nat /\ device \in Nat /\ started \in Nat
  BY <1>1 DEF AutoTyped, DynamicTyped
<1>6. results # <<>> => Head(results) \in Results
  BY <1>1 DEF QueuesTyped
<1>7. calibration' \in Nat /\ result' \in Results
  BY <1>5, <1>6, AutoStepFacts, ResultsHave
<1>8. /\ inputControl' \in Seq(Orders) /\ Len(inputControl') <= ControlSize
      /\ dropped' \in BOOLEAN
  <2>1. CASE UNCHANGED <<inputControl, dropped>>
    BY <1>1, <2>1 DEF QueuesTyped, AutoTyped
  <2>2. ASSUME NEW c \in Orders, Command(<<c>>)
        PROVE  /\ inputControl' \in Seq(Orders) /\ Len(inputControl') <= ControlSize
               /\ dropped' \in BOOLEAN
    <3>1. Len(inputControl) \in Nat /\ ControlSize \in Nat /\ dropped \in BOOLEAN
      BY <1>1 DEF AutoTyped, QueuesTyped, AutoCalibrationAssumption
    <3>2. /\ inputControl' \in Seq(Orders) /\ dropped' = (dropped \/ Len(inputControl) = ControlSize)
          /\ Len(inputControl') = IF Len(inputControl) < ControlSize
                                 THEN Len(inputControl) + 1 ELSE ControlSize
      BY <1>1, <2>2, CommandOne
    <3>3. QED
      BY <3>1, <3>2
  <2>3. ASSUME NEW c \in Orders, NEW d \in Orders, Command(<<c, d>>)
        PROVE  /\ inputControl' \in Seq(Orders) /\ Len(inputControl') <= ControlSize
               /\ dropped' \in BOOLEAN
    BY <1>1, <2>3, CommandTwo DEF AutoTyped
  <2>4. [name |-> "start", calibration |-> started + 1] = CmdOf("start", started + 1)
    BY DEF CmdOf
  <2>5. \/ UNCHANGED <<inputControl, dropped>>
        \/ \E c \in Orders : Command(<<c>>)
        \/ \E c \in Orders, d \in Orders : Command(<<c, d>>)
    <3>1. /\ \A name \in {"resetData", "loadImage", "stop"} : Simply(name) \in Orders
          /\ CmdOf("metrics", calibration) \in Orders /\ CmdOf("apply", calibration) \in Orders
          /\ [name |-> "start", calibration |-> started + 1] \in Orders
          /\ result.found => CmdOf("apply", result.calibration) \in Orders
      BY <1>5, <2>4, ResultsHave, SimplyCommands
    <3>2. \/ UNCHANGED <<inputControl, dropped>>
          \/ \E name \in {"resetData", "loadImage", "stop"} : Command(<<Simply(name)>>)
          \/ Command(<<CmdOf("metrics", calibration)>>)
          \/ Command(<<CmdOf("apply", calibration)>>)
          \/ Command(<<[name |-> "start", calibration |-> started + 1]>>)
          \/ /\ result.found
             /\ Command(<<Simply("resetData"), CmdOf("apply", result.calibration)>>)
      BY AutoStepFacts
    <3>3. QED
      BY <3>1, <3>2, Zenon
  <2>6. QED
    BY <2>1, <2>2, <2>3, <2>5
<1>9. results' \in Seq(Results) /\ Len(results') <= 1
  <2>1. results \in Seq(Results) /\ Len(results) <= 1
    BY <1>1 DEF QueuesTyped
  <2>2. results' = results \/ results' = <<>>
    BY AutoStepFacts
  <2>3. QED
    BY <2>1, <2>2, AnswerQueue
<1>10. coverages' \in Seq({"coverage"}) /\ Len(coverages') <= 1
  <2>1. coverages \in Seq({"coverage"}) /\ Len(coverages) <= 1
    BY <1>1 DEF QueuesTyped
  <2>2. coverages' = coverages \/ coverages' = <<>>
    BY AutoStepFacts
  <2>3. QED
    BY <2>1, <2>2, AnswerQueue
<1>11. metrics' \in Seq(Metrics) /\ Len(metrics') <= 1
  <2>1. metrics \in Seq(Metrics) /\ Len(metrics) <= 1
    BY <1>1 DEF QueuesTyped
  <2>2. metrics' = metrics \/ metrics' = <<>>
    BY AutoStepFacts
  <2>3. QED
    BY <2>1, <2>2, AnswerQueue
<1>12. DynamicTyped'
  <2>1. UNCHANGED dynamic
    BY AutoStepFacts
  <2>2. QED
    BY <1>1, <2>1 DEF DynamicTyped, dynamic
<1> QED
  BY <1>2, <1>3, <1>4, <1>7, <1>8, <1>9, <1>10, <1>11, <1>12 DEF AutoTypeOK, AutoTyped, QueuesTyped

LEMMA ImageInTyped ==
    ASSUME AutoCalibrationAssumption, DynamicTyped
    PROVE  /\ ImageIn \in [number : 0 .. MaxImages, since : Nat]
           /\ ImageIn.since = images.since
           /\ ImageIn.number = IF images.number < MaxImages THEN images.number + 1 ELSE images.number
BY DEF ImageIn, DynamicTyped, AutoCalibrationAssumption

\* What a step of DynamicCalibration may change, and how.
LEMMA DynamicStepFacts ==
    ASSUME DynamicCalibration
    PROVE  /\ UNCHANGED <<chosen, auto, autoHistory>>
           /\ \/ UNCHANGED inputControl
              \/ inputControl # <<>> /\ inputControl' = Tail(inputControl)
           /\ \/ UNCHANGED results
              \/ results' = <<NoResult>>
              \/ \E sure \in BOOLEAN : results' = <<[found |-> TRUE, sure |-> sure,
                                                   calibration |-> found + 1, start |-> start]>>
           /\ UNCHANGED coverages \/ coverages' = <<"coverage">>
           /\ \/ UNCHANGED metrics
              \/ inputControl # <<>> /\ \E data, good \in BOOLEAN :
                    metrics' = <<[of |-> Head(inputControl).calibration, images |-> images,
                                  data |-> data, good |-> good]>>
           /\ dpc' \in {"init", "command", "tick", "loading", "image", "calibrate"}
           /\ calibrationShouldRun \in BOOLEAN => calibrationShouldRun' \in BOOLEAN
           /\ UNCHANGED start \/ (inputControl # <<>> /\ start' = Head(inputControl).calibration)
           /\ UNCHANGED device \/ (inputControl # <<>> /\ device' = Head(inputControl).calibration)
           /\ found' \in {found, found + 1}
           /\ UNCHANGED images \/ images' = ImageIn \/ images' = [number |-> 0, since |-> found]
<1> USE DEF DynamicCalibration, initializePipeline, evaluateCommand, runLoadImage,
            tickBegins, noTick, tickLoads, runCalibration
<1>1. UNCHANGED <<chosen, auto, autoHistory>>
  OBVIOUS
<1>2. \/ UNCHANGED inputControl
      \/ inputControl # <<>> /\ inputControl' = Tail(inputControl)
  BY SMT
<1>3. \/ UNCHANGED results
      \/ results' = <<NoResult>>
      \/ \E sure \in BOOLEAN : results' = <<[found |-> TRUE, sure |-> sure,
                                           calibration |-> found + 1, start |-> start]>>
  BY Zenon DEF answers
<1>4. UNCHANGED coverages \/ coverages' = <<"coverage">>
  BY SMT DEF answers
<1>5. \/ UNCHANGED metrics
      \/ inputControl # <<>> /\ \E data, good \in BOOLEAN :
            metrics' = <<[of |-> Head(inputControl).calibration, images |-> images,
                          data |-> data, good |-> good]>>
  BY Zenon DEF answers
<1>6. /\ dpc' \in {"init", "command", "tick", "loading", "image", "calibrate"}
      /\ calibrationShouldRun \in BOOLEAN => calibrationShouldRun' \in BOOLEAN
  <2>1. dpc' \in {"init", "command", "tick", "loading", "image", "calibrate"}
    BY SMT
  <2>2. \/ calibrationShouldRun' = calibrationShouldRun
        \/ calibrationShouldRun' = FALSE
        \/ calibrationShouldRun' = (Head(inputControl).name = "start"
                                    \/ (calibrationShouldRun /\ Head(inputControl).name # "stop"))
    BY Zenon
  <2>3. QED
    BY <2>1, <2>2
<1>7. /\ UNCHANGED start \/ (inputControl # <<>> /\ start' = Head(inputControl).calibration)
      /\ UNCHANGED device \/ (inputControl # <<>> /\ device' = Head(inputControl).calibration)
  BY SMT
<1>8. found' \in {found, found + 1}
  BY SMT
<1>9. UNCHANGED images \/ images' = ImageIn \/ images' = [number |-> 0, since |-> found]
  BY SMT
<1> QED
  BY <1>1, <1>2, <1>3, <1>4, <1>5, <1>6, <1>7, <1>8, <1>9

LEMMA DynamicStepTyped ==
    ASSUME AutoCalibrationAssumption, AutoTypeOK, DynamicCalibration
    PROVE  AutoTypeOK'
<1>1. AutoTyped /\ QueuesTyped /\ DynamicTyped
  BY DEF AutoTypeOK
<1>2. AutoTyped'
  <2>1. UNCHANGED <<chosen, auto, autoHistory>>
    BY DynamicStepFacts
  <2>2. QED
    BY <1>1, <2>1 DEF AutoTyped, chosen, auto, autoHistory
<1>3. inputControl' \in Seq(Orders) /\ Len(inputControl') <= ControlSize
  <2>1. Len(inputControl) \in Nat /\ Len(inputControl) <= ControlSize /\ ControlSize \in Nat
    BY <1>1 DEF QueuesTyped, AutoCalibrationAssumption
  <2>2. CASE UNCHANGED inputControl
    BY <1>1, <2>2 DEF QueuesTyped
  <2>3. CASE inputControl # <<>> /\ inputControl' = Tail(inputControl)
    BY <1>1, <2>1, <2>3, CommandTaken
  <2>4. QED
    BY <2>2, <2>3, DynamicStepFacts
<1>4. inputControl # <<>> => Head(inputControl).calibration \in Nat
  <2>1. inputControl # <<>> => Head(inputControl) \in Orders
    BY <1>1 DEF QueuesTyped
  <2>2. QED
    BY <2>1 DEF Orders
<1>5. /\ start \in Nat /\ found \in Nat /\ device \in Nat
      /\ images \in [number : 0 .. MaxImages, since : Nat]
  BY <1>1 DEF DynamicTyped
<1>6. results' \in Seq(Results) /\ Len(results') <= 1
  <2>1. \A sure \in BOOLEAN :
          [found |-> TRUE, sure |-> sure, calibration |-> found + 1, start |-> start] \in Results
    BY <1>5 DEF Results
  <2>2. results' = results \/ \E r \in Results : results' = <<r>>
    BY <2>1, DynamicStepFacts, ResultsHave
  <2>3. results \in Seq(Results) /\ Len(results) <= 1
    BY <1>1 DEF QueuesTyped
  <2>4. QED
    BY <2>2, <2>3, AnswerQueue
<1>7. coverages' \in Seq({"coverage"}) /\ Len(coverages') <= 1
  <2>1. coverages \in Seq({"coverage"}) /\ Len(coverages) <= 1
    BY <1>1 DEF QueuesTyped
  <2>2. coverages' = coverages \/ coverages' = <<"coverage">>
    BY DynamicStepFacts
  <2>3. QED
    BY <2>1, <2>2, AnswerQueue
<1>8. metrics' \in Seq(Metrics) /\ Len(metrics') <= 1
  <2>1. images \in [number : Nat, since : Nat]
    BY <1>5, AutoCalibrationAssumption
  <2>2. ASSUME NEW data \in BOOLEAN, NEW good \in BOOLEAN, inputControl # <<>>
        PROVE  [of |-> Head(inputControl).calibration, images |-> images,
                data |-> data, good |-> good] \in Metrics
    BY <1>4, <2>1, <2>2 DEF Metrics
  <2>3. metrics' = metrics \/ \E m \in Metrics : metrics' = <<m>>
    BY <2>2, DynamicStepFacts
  <2>4. metrics \in Seq(Metrics) /\ Len(metrics) <= 1
    BY <1>1 DEF QueuesTyped
  <2>5. QED
    BY <2>3, <2>4, AnswerQueue
<1>9. /\ dpc' \in {"init", "command", "tick", "loading", "image", "calibrate"}
      /\ calibrationShouldRun' \in BOOLEAN
  <2>1. calibrationShouldRun \in BOOLEAN
    BY <1>1 DEF DynamicTyped
  <2>2. QED
    BY <2>1, DynamicStepFacts
<1>10. start' \in Nat /\ found' \in Nat /\ device' \in Nat
  BY <1>4, <1>5, DynamicStepFacts, SMTT(20)
<1>11. images' \in [number : 0 .. MaxImages, since : Nat]
  <2>1. 0 \in 0 .. MaxImages
    BY DEF AutoCalibrationAssumption
  <2>2. UNCHANGED images \/ images' = ImageIn \/ images' = [number |-> 0, since |-> found]
    BY DynamicStepFacts
  <2>3. ImageIn \in [number : 0 .. MaxImages, since : Nat]
    BY <1>1, ImageInTyped
  <2>4. QED
    BY <1>5, <2>1, <2>2, <2>3
<1> QED
  BY <1>2, <1>3, <1>6, <1>7, <1>8, <1>9, <1>10, <1>11 DEF AutoTypeOK, QueuesTyped, DynamicTyped

LEMMA NextAutoTyped ==
    ASSUME AutoCalibrationAssumption, AutoTypeOK, [AutoNext]_autoVars
    PROVE  AutoTypeOK'
<1>1. CASE gateControlArrives \/ framePasses \/ UNCHANGED autoVars
  <2>1. UNCHANGED <<chosen, auto, inputControl, answers, dynamic, autoHistory>>
    BY <1>1 DEF gateControlArrives, framePasses, autoVars
  <2>2. QED
    BY <2>1 DEF AutoTypeOK, AutoTyped, QueuesTyped, DynamicTyped, chosen, auto, answers, dynamic,
       autoHistory
<1> QED
  BY <1>1, AutoStepTyped, DynamicStepTyped DEF AutoNext

----------------------------------------------------------------------------
(* The steps of AutoCalibration. *)

LEMMA PromptFacts ==
    ASSUME AutoCalibrationAssumption, AutoTypeOK, PromptInv
    PROVE  /\ Ticks /\ Starts /\ Loads /\ Short /\ Counted
           /\ validationSetSize > 0 => Older /\ Fresh /\ Applies
           /\ AppliedIsValidated /\ ResultsAreOfThisAttempt
           /\ Len(inputControl) \in Nat /\ (inputControl = <<>> <=> Len(inputControl) = 0)
           /\ count \in Nat /\ attempt \in Nat
           /\ validationSetSize \in Nat /\ images.number \in Nat
<1>1. inputControl \in Seq(Orders) /\ count \in Nat /\ attempt \in Nat
  BY DEF AutoTypeOK, AutoTyped, QueuesTyped
<1>2. Len(inputControl) \in Nat /\ (inputControl = <<>> <=> Len(inputControl) = 0)
  BY <1>1
<1>3. validationSetSize \in Nat /\ images.number \in Nat
  BY DEF AutoTypeOK, AutoTyped, DynamicTyped, AutoCalibrationAssumption
<1> QED
  BY <1>1, <1>2, <1>3 DEF PromptInv

LEMMA NumbersTyped ==
    ASSUME AutoTypeOK
    PROVE  /\ calibration \in Nat /\ found \in Nat /\ device \in Nat
           /\ images.since \in Nat /\ start \in Nat /\ started \in Nat
BY DEF AutoTypeOK, AutoTyped, DynamicTyped

LEMMA DrainPrompt ==
    ASSUME AutoCalibrationAssumption, AutoTypeOK, Prompt, PromptInv,
           drainCoverages
    PROVE  PromptInv'
<1>1. /\ Ticks /\ Starts /\ Loads /\ Short /\ Counted
      /\ validationSetSize > 0 => Older /\ Fresh /\ Applies
      /\ AppliedIsValidated /\ ResultsAreOfThisAttempt
      /\ Len(inputControl) \in Nat /\ (inputControl = <<>> <=> Len(inputControl) = 0)
      /\ count \in Nat /\ attempt \in Nat
      /\ validationSetSize \in Nat /\ images.number \in Nat
  BY PromptFacts
<1>2. /\ apc = "drain" /\ apc' = "load"
      /\ coverages' = <<>>
      /\ UNCHANGED <<Prompt, validationSetSize, numIterations, attempt, count, calibration,
                      result, inputControl, dropped, results, metrics, dpc, calibrationShouldRun,
                      start, images, found, device, started, applied>>
  BY DEF drainCoverages, chosen, auto, answers, dynamic, autoHistory
<1>3. Ticks'
  BY <1>1, <1>2 DEF Ticks, Counted
<1>4. Starts'
  BY <1>1, <1>2 DEF Starts, NameAt, LastName
<1>5. Loads'
  BY <1>1, <1>2 DEF Loads, NameAt, LastName
<1>6. Short'
  BY <1>1, <1>2 DEF Short, Counted
<1>7. Counted'
  BY <1>1, <1>2 DEF Counted
<1>8. validationSetSize > 0 => Older'
  BY <1>1, <1>2 DEF Older
<1>9. validationSetSize > 0 => Fresh'
  BY <1>1, <1>2 DEF Fresh, NameAt, LastName
<1>10. validationSetSize > 0 => Applies'
  BY <1>1, <1>2 DEF Applies, NameAt
<1>11. AppliedIsValidated' /\ ResultsAreOfThisAttempt'
  BY <1>1, <1>2 DEF AppliedIsValidated, ResultsAreOfThisAttempt
<1> QED
  BY <1>2, <1>3, <1>4, <1>5, <1>6, <1>7, <1>8, <1>9, <1>10, <1>11 DEF PromptInv

LEMMA LoadImagePrompt ==
    ASSUME AutoCalibrationAssumption, AutoTypeOK, Prompt, PromptInv,
           loadImage
    PROVE  PromptInv'
<1> DEFINE n == Len(inputControl)
<1>1. /\ Ticks /\ Starts /\ Loads /\ Short /\ Counted
      /\ validationSetSize > 0 => Older /\ Fresh /\ Applies
      /\ AppliedIsValidated /\ ResultsAreOfThisAttempt
      /\ Len(inputControl) \in Nat /\ (inputControl = <<>> <=> Len(inputControl) = 0)
      /\ count \in Nat /\ attempt \in Nat
      /\ validationSetSize \in Nat /\ images.number \in Nat
  BY PromptFacts
<1>2. /\ apc = "load" /\ apc' = "loading" /\ count < validationSetSize
      /\ UNCHANGED <<Prompt, validationSetSize, numIterations, attempt, count, calibration,
                      result, results, coverages, metrics, dpc, calibrationShouldRun, start,
                      images, found, device, started, applied>>
  BY DEF loadImage, chosen, auto, answers, dynamic, autoHistory
<1>3. /\ n \in Nat /\ Len(inputControl') = n + 1
      /\ inputControl'[n + 1].name = "loadImage"
      /\ \A i \in 1 .. n : inputControl'[i] = inputControl[i]
      /\ ~dropped' /\ inputControl' # <<>>
  <2>1. Len(inputControl) < ControlSize /\ ~dropped
    BY <1>1, <1>2 DEF Short, AutoCalibrationAssumption
  <2>2. Simply("loadImage") \in Orders /\ Simply("loadImage").name = "loadImage"
    BY SimplyCommands DEF Simply
  <2>3. Command(<<Simply("loadImage")>>)
    BY DEF loadImage
  <2>4. QED
    BY <2>1, <2>2, <2>3, CommandRoom DEF AutoTypeOK
<1>4. Ticks'
  BY <1>1, <1>2, <1>3 DEF Ticks, Counted
<1>5. Starts'
  BY <1>1, <1>2, <1>3 DEF Starts, NameAt, LastName
<1>6. Loads'
  BY <1>1, <1>2, <1>3 DEF Loads, NameAt, LastName
<1>7. Short'
  BY <1>1, <1>2, <1>3 DEF Short
<1>8. Counted'
  BY <1>1, <1>2, <1>3 DEF Counted
<1>9. validationSetSize > 0 => Older'
  BY <1>1, <1>2, <1>3 DEF Older
<1>10. validationSetSize > 0 => Fresh'
  BY <1>1, <1>2, <1>3 DEF Fresh, NameAt, LastName
<1>11. validationSetSize > 0 => Applies'
  BY <1>1, <1>2, <1>3 DEF Applies, NameAt
<1>12. AppliedIsValidated' /\ ResultsAreOfThisAttempt'
  BY <1>1, <1>2, <1>3 DEF AppliedIsValidated, ResultsAreOfThisAttempt
<1> QED
  BY <1>2, <1>4, <1>5, <1>6, <1>7, <1>8, <1>9, <1>10, <1>11, <1>12 DEF PromptInv

LEMMA ImageLoadedPrompt ==
    ASSUME AutoCalibrationAssumption, AutoTypeOK, Prompt, PromptInv,
           imageLoaded
    PROVE  PromptInv'
<1>1. /\ Ticks /\ Starts /\ Loads /\ Short /\ Counted
      /\ validationSetSize > 0 => Older /\ Fresh /\ Applies
      /\ AppliedIsValidated /\ ResultsAreOfThisAttempt
      /\ Len(inputControl) \in Nat /\ (inputControl = <<>> <=> Len(inputControl) = 0)
      /\ count \in Nat /\ attempt \in Nat
      /\ validationSetSize \in Nat /\ images.number \in Nat
  BY PromptFacts
<1>2. /\ apc = "loading" /\ apc' = "load"
      /\ coverages # <<>> /\ coverages' = <<>> /\ count' = count + 1
      /\ UNCHANGED <<Prompt, validationSetSize, numIterations, attempt, calibration, result,
                      inputControl, dropped, results, metrics, dpc, calibrationShouldRun, start,
                      images, found, device, started, applied>>
  BY DEF imageLoaded, chosen, auto, answers, dynamic, autoHistory
<1>3. Ticks'
  BY <1>1, <1>2 DEF Ticks, Counted
<1>4. Starts'
  BY <1>1, <1>2 DEF Starts, NameAt, LastName
<1>5. Loads'
  BY <1>1, <1>2 DEF Loads, NameAt, LastName, Counted
<1>6. Short'
  BY <1>1, <1>2 DEF Short, Counted
<1>7. Counted'
  BY <1>1, <1>2 DEF Counted
<1>8. validationSetSize > 0 => Older'
  BY <1>1, <1>2 DEF Older
<1>9. validationSetSize > 0 => Fresh'
  BY <1>1, <1>2 DEF Fresh, NameAt, LastName, Counted
<1>10. validationSetSize > 0 => Applies'
  BY <1>1, <1>2 DEF Applies, NameAt
<1>11. AppliedIsValidated' /\ ResultsAreOfThisAttempt'
  BY <1>1, <1>2 DEF AppliedIsValidated, ResultsAreOfThisAttempt
<1> QED
  BY <1>2, <1>3, <1>4, <1>5, <1>6, <1>7, <1>8, <1>9, <1>10, <1>11 DEF PromptInv

LEMMA GetMetricsPrompt ==
    ASSUME AutoCalibrationAssumption, AutoTypeOK, Prompt, PromptInv,
           getMetrics
    PROVE  PromptInv'
<1> DEFINE n == Len(inputControl)
<1>1. /\ Ticks /\ Starts /\ Loads /\ Short /\ Counted
      /\ validationSetSize > 0 => Older /\ Fresh /\ Applies
      /\ AppliedIsValidated /\ ResultsAreOfThisAttempt
      /\ Len(inputControl) \in Nat /\ (inputControl = <<>> <=> Len(inputControl) = 0)
      /\ count \in Nat /\ attempt \in Nat
      /\ validationSetSize \in Nat /\ images.number \in Nat
  BY PromptFacts
<1>2. /\ apc = "load" /\ apc' = "measuring" /\ count = validationSetSize
      /\ UNCHANGED <<Prompt, validationSetSize, numIterations, attempt, count, calibration,
                      result, results, coverages, metrics, dpc, calibrationShouldRun, start,
                      images, found, device, started, applied>>
  BY DEF getMetrics, chosen, auto, answers, dynamic, autoHistory
<1>3. /\ n \in Nat /\ Len(inputControl') = n + 1
      /\ inputControl'[n + 1].name = "metrics"
      /\ inputControl'[n + 1].calibration = calibration
      /\ \A i \in 1 .. n : inputControl'[i] = inputControl[i]
      /\ ~dropped' /\ inputControl' # <<>>
  <2>1. Len(inputControl) < ControlSize /\ ~dropped
    BY <1>1, <1>2 DEF Short, AutoCalibrationAssumption
  <2>2. /\ CmdOf("metrics", calibration) \in Orders /\ CmdOf("metrics", calibration).name = "metrics"
        /\ CmdOf("metrics", calibration).calibration = calibration
    BY SimplyCommands DEF CmdOf, AutoTypeOK, AutoTyped
  <2>3. Command(<<CmdOf("metrics", calibration)>>)
    BY DEF getMetrics
  <2>4. QED
    BY <2>1, <2>2, <2>3, CommandRoom DEF AutoTypeOK
<1>4. Ticks'
  BY <1>1, <1>2, <1>3 DEF Ticks, Counted
<1>5. Starts'
  BY <1>1, <1>2, <1>3, SMTT(20) DEF Starts, NameAt, LastName
<1>6. Loads'
  BY <1>1, <1>2, <1>3 DEF Loads, NameAt, LastName, Short
<1>7. Short'
  BY <1>1, <1>2, <1>3 DEF Short, Loads
<1>8. Counted'
  BY <1>1, <1>2, <1>3 DEF Counted
<1>9. validationSetSize > 0 => Older'
  BY <1>1, <1>2, <1>3 DEF Older
<1>10. validationSetSize > 0 => Fresh'
  BY <1>1, <1>2, <1>3 DEF Fresh, NameAt, LastName, Loads, Short
<1>11. validationSetSize > 0 => Applies'
  BY <1>1, <1>2, <1>3 DEF Applies, NameAt
<1>12. AppliedIsValidated' /\ ResultsAreOfThisAttempt'
  BY <1>1, <1>2, <1>3 DEF AppliedIsValidated, ResultsAreOfThisAttempt
<1> QED
  BY <1>2, <1>4, <1>5, <1>6, <1>7, <1>8, <1>9, <1>10, <1>11, <1>12 DEF PromptInv

LEMMA StartPrompt ==
    ASSUME AutoCalibrationAssumption, AutoTypeOK, Prompt, PromptInv,
           startCalibration
    PROVE  PromptInv'
<1> DEFINE n == Len(inputControl)
<1>1. /\ Ticks /\ Starts /\ Loads /\ Short /\ Counted
      /\ validationSetSize > 0 => Older /\ Fresh /\ Applies
      /\ AppliedIsValidated /\ ResultsAreOfThisAttempt
      /\ Len(inputControl) \in Nat /\ (inputControl = <<>> <=> Len(inputControl) = 0)
      /\ count \in Nat /\ attempt \in Nat
      /\ validationSetSize \in Nat /\ images.number \in Nat
  BY PromptFacts
<1>2. /\ apc = "recalibrate" /\ apc' = "waiting"
      /\ started' = started + 1 /\ count' = 0
      /\ UNCHANGED <<Prompt, validationSetSize, numIterations, attempt, calibration, result,
                      results, coverages, metrics, dpc, calibrationShouldRun, start, images,
                      found, device, applied>>
  BY DEF startCalibration, chosen, auto, answers, dynamic, autoHistory
<1>3. /\ n \in Nat /\ Len(inputControl') = n + 1
      /\ inputControl'[n + 1].name = "start"
      /\ inputControl'[n + 1].calibration = started + 1
      /\ \A i \in 1 .. n : inputControl'[i] = inputControl[i]
      /\ ~dropped' /\ inputControl' # <<>>
  <2>1. Len(inputControl) < ControlSize /\ ~dropped
    BY <1>1, <1>2 DEF Short, AutoCalibrationAssumption
  <2>2. /\ CmdOf("start", started + 1) \in Orders /\ CmdOf("start", started + 1).name = "start"
        /\ CmdOf("start", started + 1).calibration = started + 1
    BY SimplyCommands DEF CmdOf, AutoTypeOK, AutoTyped
  <2>3. Command(<<CmdOf("start", started + 1)>>)
    BY DEF startCalibration, CmdOf
  <2>4. QED
    BY <2>1, <2>2, <2>3, CommandRoom DEF AutoTypeOK
<1>4. Ticks'
  BY <1>1, <1>2, <1>3 DEF Ticks, Counted
<1>5. Starts'
  BY <1>1, <1>2, <1>3, SMTT(20) DEF Starts, NameAt, LastName
<1>6. Loads'
  BY <1>1, <1>2, <1>3, SMTT(20) DEF Loads, NameAt, LastName
<1>7. Short'
  BY <1>1, <1>2, <1>3 DEF Short
<1>8. Counted'
  BY <1>1, <1>2, <1>3 DEF Counted
<1>9. validationSetSize > 0 => Older'
  BY <1>1, <1>2, <1>3 DEF Older
<1>10. validationSetSize > 0 => Fresh'
  BY <1>1, <1>2, <1>3 DEF Fresh, NameAt, LastName
<1>11. validationSetSize > 0 => Applies'
  BY <1>1, <1>2, <1>3 DEF Applies, NameAt
<1>12. AppliedIsValidated' /\ ResultsAreOfThisAttempt'
  BY <1>1, <1>2, <1>3 DEF AppliedIsValidated, ResultsAreOfThisAttempt
<1> QED
  BY <1>2, <1>4, <1>5, <1>6, <1>7, <1>8, <1>9, <1>10, <1>11, <1>12 DEF PromptInv

LEMMA GiveUpPrompt ==
    ASSUME AutoCalibrationAssumption, AutoTypeOK, Prompt, PromptInv,
           giveUp
    PROVE  PromptInv'
<1> DEFINE n == Len(inputControl)
<1>1. /\ Ticks /\ Starts /\ Loads /\ Short /\ Counted
      /\ validationSetSize > 0 => Older /\ Fresh /\ Applies
      /\ AppliedIsValidated /\ ResultsAreOfThisAttempt
      /\ Len(inputControl) \in Nat /\ (inputControl = <<>> <=> Len(inputControl) = 0)
      /\ count \in Nat /\ attempt \in Nat
      /\ validationSetSize \in Nat /\ images.number \in Nat
  BY PromptFacts
<1>2. /\ apc = "recalibrate" /\ apc' = "iterate" /\ attempt = MaxFailsPerRecalibration
      /\ UNCHANGED <<Prompt, validationSetSize, attempt, count, calibration, result, results,
                      coverages, metrics, dpc, calibrationShouldRun, start, images, found, device,
                      started, applied>>
  BY DEF giveUp, chosen, auto, answers, dynamic, autoHistory
<1>3. /\ n \in Nat /\ Len(inputControl') = n + 1
      /\ inputControl'[n + 1].name = "stop"
      /\ \A i \in 1 .. n : inputControl'[i] = inputControl[i]
      /\ ~dropped' /\ inputControl' # <<>>
  <2>1. Len(inputControl) < ControlSize /\ ~dropped
    BY <1>1, <1>2 DEF Short, AutoCalibrationAssumption
  <2>2. Simply("stop") \in Orders /\ Simply("stop").name = "stop"
    BY SimplyCommands DEF Simply
  <2>3. Command(<<Simply("stop")>>)
    BY DEF giveUp
  <2>4. QED
    BY <2>1, <2>2, <2>3, CommandRoom DEF AutoTypeOK
<1>4. Ticks'
  BY <1>1, <1>2, <1>3 DEF Ticks, Counted
<1>5. Starts'
  BY <1>1, <1>2, <1>3 DEF Starts, NameAt, LastName
<1>6. Loads'
  BY <1>1, <1>2, <1>3 DEF Loads, NameAt, LastName
<1>7. Short'
  BY <1>1, <1>2, <1>3 DEF Short
<1>8. Counted'
  BY <1>1, <1>2, <1>3 DEF Counted
<1>9. validationSetSize > 0 => Older'
  BY <1>1, <1>2, <1>3 DEF Older
<1>10. validationSetSize > 0 => Fresh'
  BY <1>1, <1>2, <1>3 DEF Fresh, NameAt, LastName
<1>11. validationSetSize > 0 => Applies'
  BY <1>1, <1>2, <1>3 DEF Applies, NameAt
<1>12. AppliedIsValidated' /\ ResultsAreOfThisAttempt'
  BY <1>1, <1>2, <1>3 DEF AppliedIsValidated, ResultsAreOfThisAttempt
<1> QED
  BY <1>2, <1>4, <1>5, <1>6, <1>7, <1>8, <1>9, <1>10, <1>11, <1>12 DEF PromptInv

LEMMA ResultPrompt ==
    ASSUME AutoCalibrationAssumption, AutoTypeOK, Prompt, PromptInv,
           resultArrives
    PROVE  PromptInv'
<1>1. /\ Ticks /\ Starts /\ Loads /\ Short /\ Counted
      /\ validationSetSize > 0 => Older /\ Fresh /\ Applies
      /\ AppliedIsValidated /\ ResultsAreOfThisAttempt
      /\ Len(inputControl) \in Nat /\ (inputControl = <<>> <=> Len(inputControl) = 0)
      /\ count \in Nat /\ attempt \in Nat
      /\ validationSetSize \in Nat /\ images.number \in Nat
  BY PromptFacts
<1>2. /\ apc = "waiting" /\ apc' = "covering"
      /\ results # <<>> /\ result' = Head(results) /\ results' = <<>>
      /\ UNCHANGED <<Prompt, validationSetSize, numIterations, attempt, count, calibration,
                      inputControl, dropped, coverages, metrics, dpc, calibrationShouldRun, start,
                      images, found, device, started, applied>>
  BY DEF resultArrives, chosen, auto, answers, dynamic, autoHistory
<1>3. Ticks'
  BY <1>1, <1>2 DEF Ticks, Counted
<1>4. Starts'
  BY <1>1, <1>2 DEF Starts, NameAt, LastName, Ticks
<1>5. Loads'
  BY <1>1, <1>2 DEF Loads, NameAt, LastName, Ticks
<1>6. Short'
  BY <1>1, <1>2 DEF Short, Ticks
<1>7. Counted'
  BY <1>1, <1>2 DEF Counted
<1>8. validationSetSize > 0 => Older'
  BY <1>1, <1>2 DEF Older
<1>9. validationSetSize > 0 => Fresh'
  BY <1>1, <1>2 DEF Fresh, NameAt, LastName
<1>10. validationSetSize > 0 => Applies'
  BY <1>1, <1>2 DEF Applies, NameAt
<1>11. AppliedIsValidated' /\ ResultsAreOfThisAttempt'
  BY <1>1, <1>2 DEF AppliedIsValidated, ResultsAreOfThisAttempt
<1> QED
  BY <1>2, <1>3, <1>4, <1>5, <1>6, <1>7, <1>8, <1>9, <1>10, <1>11 DEF PromptInv

LEMMA ValidatePrompt ==
    ASSUME AutoCalibrationAssumption, AutoTypeOK, Prompt, PromptInv,
           validateIncomingData \/ validated
    PROVE  PromptInv'
<1>1. /\ Ticks /\ Starts /\ Loads /\ Short /\ Counted
      /\ validationSetSize > 0 => Older /\ Fresh /\ Applies
      /\ AppliedIsValidated /\ ResultsAreOfThisAttempt
      /\ Len(inputControl) \in Nat /\ (inputControl = <<>> <=> Len(inputControl) = 0)
      /\ count \in Nat /\ attempt \in Nat
      /\ validationSetSize \in Nat /\ images.number \in Nat
  BY PromptFacts
<1>2. /\ apc \in {"validate", "validating"}
      /\ apc' \in {"validate", "validating", "round", "ended"}
      /\ UNCHANGED <<Prompt, validationSetSize, numIterations, attempt, count, calibration,
                      result, inputControl, dropped, results, coverages, metrics, dpc,
                      calibrationShouldRun, start, images, found, device, started, applied>>
  BY DEF validateIncomingData, validated, chosen, auto, answers, dynamic, autoHistory
<1>3. Ticks'
  BY <1>1, <1>2 DEF Ticks, Counted
<1>4. Starts'
  BY <1>1, <1>2 DEF Starts, NameAt, LastName
<1>5. Loads'
  BY <1>1, <1>2 DEF Loads, NameAt, LastName
<1>6. Short'
  BY <1>1, <1>2 DEF Short
<1>7. Counted'
  BY <1>1, <1>2 DEF Counted
<1>8. validationSetSize > 0 => Older'
  BY <1>1, <1>2 DEF Older
<1>9. validationSetSize > 0 => Fresh'
  BY <1>1, <1>2 DEF Fresh, NameAt, LastName
<1>10. validationSetSize > 0 => Applies'
  BY <1>1, <1>2 DEF Applies, NameAt
<1>11. AppliedIsValidated' /\ ResultsAreOfThisAttempt'
  BY <1>1, <1>2 DEF AppliedIsValidated, ResultsAreOfThisAttempt
<1> QED
  BY <1>2, <1>3, <1>4, <1>5, <1>6, <1>7, <1>8, <1>9, <1>10, <1>11 DEF PromptInv

LEMMA RoundPrompt ==
    ASSUME AutoCalibrationAssumption, AutoTypeOK, Prompt, PromptInv,
           updateCalibrationProcess
    PROVE  PromptInv'
<1>1. /\ Ticks /\ Starts /\ Loads /\ Short /\ Counted
      /\ validationSetSize > 0 => Older /\ Fresh /\ Applies
      /\ AppliedIsValidated /\ ResultsAreOfThisAttempt
      /\ Len(inputControl) \in Nat /\ (inputControl = <<>> <=> Len(inputControl) = 0)
      /\ count \in Nat /\ attempt \in Nat
      /\ validationSetSize \in Nat /\ images.number \in Nat
  BY PromptFacts
<1>2. /\ apc = "round" /\ apc' = "iterate" /\ calibration' = device
      /\ UNCHANGED <<Prompt, validationSetSize, attempt, count, result, inputControl, dropped,
                      results, coverages, metrics, dpc, calibrationShouldRun, start, images,
                      found, device, started, applied>>
  BY DEF updateCalibrationProcess, chosen, auto, answers, dynamic, autoHistory
<1>3. Ticks'
  BY <1>1, <1>2 DEF Ticks, Counted
<1>4. Starts'
  BY <1>1, <1>2 DEF Starts, NameAt, LastName
<1>5. Loads'
  BY <1>1, <1>2 DEF Loads, NameAt, LastName
<1>6. Short'
  BY <1>1, <1>2 DEF Short
<1>7. Counted'
  BY <1>1, <1>2 DEF Counted
<1>8. validationSetSize > 0 => Older'
  BY <1>1, <1>2, NumbersTyped DEF Older, Applies
<1>9. validationSetSize > 0 => Fresh'
  BY <1>1, <1>2 DEF Fresh, NameAt, LastName, Applies
<1>10. validationSetSize > 0 => Applies'
  BY <1>1, <1>2 DEF Applies, NameAt, Loads
<1>11. AppliedIsValidated' /\ ResultsAreOfThisAttempt'
  BY <1>1, <1>2 DEF AppliedIsValidated, ResultsAreOfThisAttempt
<1> QED
  BY <1>2, <1>3, <1>4, <1>5, <1>6, <1>7, <1>8, <1>9, <1>10, <1>11 DEF PromptInv

LEMMA IteratePrompt ==
    ASSUME AutoCalibrationAssumption, AutoTypeOK, Prompt, PromptInv,
           iterate, apc' # "round"
    PROVE  PromptInv'
<1> DEFINE n == Len(inputControl)
<1>1. /\ Ticks /\ Starts /\ Loads /\ Short /\ Counted
      /\ validationSetSize > 0 => Older /\ Fresh /\ Applies
      /\ AppliedIsValidated /\ ResultsAreOfThisAttempt
      /\ Len(inputControl) \in Nat /\ (inputControl = <<>> <=> Len(inputControl) = 0)
      /\ count \in Nat /\ attempt \in Nat
      /\ validationSetSize \in Nat /\ images.number \in Nat
  BY PromptFacts
<1>2. /\ apc = "iterate" /\ apc' = IF validationSetSize = 0 THEN "recalibrate" ELSE "drain"
      /\ count' = 0 /\ attempt' = 0
      /\ UNCHANGED <<Prompt, validationSetSize, numIterations, calibration, result, results,
                      coverages, metrics, dpc, calibrationShouldRun, start, images, found, device,
                      started, applied>>
  BY DEF iterate, chosen, auto, answers, dynamic, autoHistory
<1>3. /\ n \in Nat /\ Len(inputControl') = n + 1
      /\ inputControl'[n + 1].name = "resetData"
      /\ \A i \in 1 .. n : inputControl'[i] = inputControl[i]
      /\ ~dropped' /\ inputControl' # <<>>
  <2>1. Len(inputControl) < ControlSize /\ ~dropped
    BY <1>1, <1>2 DEF Short, AutoCalibrationAssumption
  <2>2. Simply("resetData") \in Orders /\ Simply("resetData").name = "resetData"
    BY SimplyCommands DEF Simply
  <2>3. Command(<<Simply("resetData")>>)
    BY DEF iterate
  <2>4. QED
    BY <2>1, <2>2, <2>3, CommandRoom DEF AutoTypeOK
<1>4. Ticks'
  BY <1>1, <1>2, <1>3 DEF Ticks, Counted
<1>5. Starts'
  BY <1>1, <1>2, <1>3, SMTT(20) DEF Starts, NameAt, LastName
<1>6. Loads'
  BY <1>1, <1>2, <1>3 DEF Loads, NameAt, LastName
<1>7. Short'
  BY <1>1, <1>2, <1>3 DEF Short
<1>8. Counted'
  BY <1>1, <1>2, <1>3 DEF Counted
<1>9. validationSetSize > 0 => Older'
  BY <1>1, <1>2, <1>3 DEF Older
<1>10. validationSetSize > 0 => Fresh'
  BY <1>1, <1>2, <1>3 DEF Fresh, NameAt, LastName
<1>11. validationSetSize > 0 => Applies'
  BY <1>1, <1>2, <1>3 DEF Applies, NameAt
<1>12. AppliedIsValidated' /\ ResultsAreOfThisAttempt'
  BY <1>1, <1>2, <1>3 DEF AppliedIsValidated, ResultsAreOfThisAttempt
<1> QED
  BY <1>2, <1>4, <1>5, <1>6, <1>7, <1>8, <1>9, <1>10, <1>11, <1>12 DEF PromptInv

LEMMA IterateEndsPrompt ==
    ASSUME AutoCalibrationAssumption, AutoTypeOK, Prompt, PromptInv,
           iterate, apc' = "round"
    PROVE  PromptInv'
<1>1. /\ Ticks /\ Starts /\ Loads /\ Short /\ Counted
      /\ validationSetSize > 0 => Older /\ Fresh /\ Applies
      /\ AppliedIsValidated /\ ResultsAreOfThisAttempt
      /\ Len(inputControl) \in Nat /\ (inputControl = <<>> <=> Len(inputControl) = 0)
      /\ count \in Nat /\ attempt \in Nat
      /\ validationSetSize \in Nat /\ images.number \in Nat
  BY PromptFacts
<1>2. /\ apc = "iterate"
      /\ count' = 0 /\ attempt' = 0
      /\ UNCHANGED <<inputControl, dropped>>
      /\ UNCHANGED <<Prompt, validationSetSize, numIterations, calibration, result, inputControl,
                      dropped, results, coverages, metrics, dpc, calibrationShouldRun, start,
                      images, found, device, started, applied>>
  BY DEF iterate, chosen, auto, answers, dynamic, autoHistory
<1>3. Ticks'
  BY <1>1, <1>2 DEF Ticks, Counted
<1>4. Starts'
  BY <1>1, <1>2 DEF Starts, NameAt, LastName
<1>5. Loads'
  BY <1>1, <1>2 DEF Loads, NameAt, LastName
<1>6. Short'
  BY <1>1, <1>2 DEF Short
<1>7. Counted'
  BY <1>1, <1>2 DEF Counted
<1>8. validationSetSize > 0 => Older'
  BY <1>1, <1>2 DEF Older
<1>9. validationSetSize > 0 => Fresh'
  BY <1>1, <1>2 DEF Fresh, NameAt, LastName
<1>10. validationSetSize > 0 => Applies'
  BY <1>1, <1>2 DEF Applies, NameAt
<1>11. AppliedIsValidated' /\ ResultsAreOfThisAttempt'
  BY <1>1, <1>2 DEF AppliedIsValidated, ResultsAreOfThisAttempt
<1> QED
  BY <1>2, <1>3, <1>4, <1>5, <1>6, <1>7, <1>8, <1>9, <1>10, <1>11 DEF PromptInv

LEMMA MeasuredGoodPrompt ==
    ASSUME AutoCalibrationAssumption, AutoTypeOK, Prompt, PromptInv,
           measured, apc' = "round"
    PROVE  PromptInv'
<1> DEFINE n == Len(inputControl)
<1>1. /\ Ticks /\ Starts /\ Loads /\ Short /\ Counted
      /\ validationSetSize > 0 => Older /\ Fresh /\ Applies
      /\ AppliedIsValidated /\ ResultsAreOfThisAttempt
      /\ Len(inputControl) \in Nat /\ (inputControl = <<>> <=> Len(inputControl) = 0)
      /\ count \in Nat /\ attempt \in Nat
      /\ validationSetSize \in Nat /\ images.number \in Nat
  BY PromptFacts
<1>2. /\ apc = "measuring" /\ metrics # <<>> /\ metrics' = <<>>
      /\ applied' = <<[of |-> calibration, on |-> Head(metrics)]>>
      /\ UNCHANGED <<Prompt, validationSetSize, attempt, count, calibration, result, results,
                      coverages, dpc, calibrationShouldRun, start, images, found, device, started>>
  BY DEF measured, chosen, auto, answers, dynamic, autoHistory
<1>3. /\ n \in Nat /\ Len(inputControl') = n + 1
      /\ inputControl'[n + 1].name = "apply"
      /\ inputControl'[n + 1].calibration = calibration
      /\ \A i \in 1 .. n : inputControl'[i] = inputControl[i]
      /\ ~dropped' /\ inputControl' # <<>>
  <2>1. Len(inputControl) < ControlSize /\ ~dropped
    BY <1>1, <1>2 DEF Short, AutoCalibrationAssumption
  <2>2. /\ CmdOf("apply", calibration) \in Orders /\ CmdOf("apply", calibration).name = "apply"
        /\ CmdOf("apply", calibration).calibration = calibration
    BY SimplyCommands DEF CmdOf, AutoTypeOK, AutoTyped
  <2>3. Command(<<CmdOf("apply", calibration)>>)
    BY DEF measured
  <2>4. QED
    BY <2>1, <2>2, <2>3, CommandRoom DEF AutoTypeOK
<1>4. Ticks'
  BY <1>1, <1>2, <1>3 DEF Ticks, Counted
<1>5. Starts'
  BY <1>1, <1>2, <1>3 DEF Starts, NameAt, LastName
<1>6. Loads'
  BY <1>1, <1>2, <1>3 DEF Loads, NameAt, LastName
<1>7. Short'
  BY <1>1, <1>2, <1>3 DEF Short
<1>8. Counted'
  BY <1>1, <1>2, <1>3 DEF Counted
<1>9. validationSetSize > 0 => Older'
  BY <1>1, <1>2, <1>3 DEF Older
<1>10. validationSetSize > 0 => Fresh'
  BY <1>1, <1>2, <1>3 DEF Fresh, NameAt, LastName
<1>11. validationSetSize > 0 => Applies'
  <2>1. SUFFICES ASSUME validationSetSize > 0 PROVE Applies'
    OBVIOUS
  <2>2. \A i \in 1 .. n : NameAt(i) = "apply" => inputControl[i].calibration <= images.since
    BY <1>1, <2>1 DEF Applies
  <2>3. inputControl'[n + 1].name = "apply" => inputControl'[n + 1].calibration <= images.since
    BY <1>1, <1>2, <1>3, <2>1 DEF NameAt, Fresh
  <2>4. \A i \in 1 .. n + 1 :
          inputControl'[i].name = "apply" => inputControl'[i].calibration <= images'.since
    BY <1>2, <1>3, <2>2, <2>3 DEF NameAt
  <2>5. device' <= images'.since /\ metrics' = <<>>
    BY <1>1, <1>2, <2>1 DEF Applies, Loads
  <2>6. QED
    BY <1>3, <2>4, <2>5 DEF Applies, NameAt
<1>12. AppliedIsValidated' /\ ResultsAreOfThisAttempt'
  BY <1>1, <1>2, <1>3 DEF AppliedIsValidated, ResultsAreOfThisAttempt, Loads, Applies
<1> QED
  BY <1>2, <1>4, <1>5, <1>6, <1>7, <1>8, <1>9, <1>10, <1>11, <1>12 DEF PromptInv

LEMMA MeasuredBadPrompt ==
    ASSUME AutoCalibrationAssumption, AutoTypeOK, Prompt, PromptInv,
           measured, apc' # "round"
    PROVE  PromptInv'
<1>1. /\ Ticks /\ Starts /\ Loads /\ Short /\ Counted
      /\ validationSetSize > 0 => Older /\ Fresh /\ Applies
      /\ AppliedIsValidated /\ ResultsAreOfThisAttempt
      /\ Len(inputControl) \in Nat /\ (inputControl = <<>> <=> Len(inputControl) = 0)
      /\ count \in Nat /\ attempt \in Nat
      /\ validationSetSize \in Nat /\ images.number \in Nat
  BY PromptFacts
<1>2. /\ apc = "measuring" /\ metrics # <<>> /\ metrics' = <<>>
      /\ apc' = "iterate" \/ (apc' = "recalibrate" /\ attempt' = 0)
      /\ UNCHANGED <<Prompt, validationSetSize, count, calibration, result, inputControl, dropped,
                      results, coverages, dpc, calibrationShouldRun, start, images, found, device,
                      started, applied>>
  BY DEF measured, chosen, auto, answers, dynamic, autoHistory
<1>3. Ticks'
  BY <1>1, <1>2 DEF Ticks, Counted
<1>4. Starts'
  BY <1>1, <1>2 DEF Starts, NameAt, LastName
<1>5. Loads'
  BY <1>1, <1>2 DEF Loads, NameAt, LastName
<1>6. Short'
  BY <1>1, <1>2 DEF Short
<1>7. Counted'
  BY <1>1, <1>2 DEF Counted
<1>8. validationSetSize > 0 => Older'
  BY <1>1, <1>2 DEF Older
<1>9. validationSetSize > 0 => Fresh'
  BY <1>1, <1>2 DEF Fresh, NameAt, LastName
<1>10. validationSetSize > 0 => Applies'
  BY <1>1, <1>2 DEF Applies, NameAt
<1>11. AppliedIsValidated' /\ ResultsAreOfThisAttempt'
  BY <1>1, <1>2 DEF AppliedIsValidated, ResultsAreOfThisAttempt
<1> QED
  BY <1>2, <1>3, <1>4, <1>5, <1>6, <1>7, <1>8, <1>9, <1>10, <1>11 DEF PromptInv

LEMMA CoverageWaitPrompt ==
    ASSUME AutoCalibrationAssumption, AutoTypeOK, Prompt, PromptInv,
           coverageArrives, ~result.found
    PROVE  PromptInv'
<1>1. /\ Ticks /\ Starts /\ Loads /\ Short /\ Counted
      /\ validationSetSize > 0 => Older /\ Fresh /\ Applies
      /\ AppliedIsValidated /\ ResultsAreOfThisAttempt
      /\ Len(inputControl) \in Nat /\ (inputControl = <<>> <=> Len(inputControl) = 0)
      /\ count \in Nat /\ attempt \in Nat
      /\ validationSetSize \in Nat /\ images.number \in Nat
  BY PromptFacts
<1>2. /\ apc = "covering" /\ coverages' = <<>> /\ result' = NoResult
      /\ ~result.found /\ count' = count + 1
      /\ apc' = "waiting" \/ (apc' = "recalibrate" /\ attempt' = attempt + 1)
      /\ UNCHANGED <<Prompt, validationSetSize, numIterations, calibration, inputControl, dropped,
                      results, metrics, dpc, calibrationShouldRun, start, images, found, device,
                      started, applied>>
  BY DEF coverageArrives, chosen, auto, answers, dynamic, autoHistory
<1>3. inputControl = <<>> /\ start = started /\ calibrationShouldRun
  BY <1>1, <1>2 DEF Ticks
<1>4. Ticks'
  BY <1>1, <1>2, <1>3 DEF Ticks, Counted
<1>5. Starts'
  BY <1>1, <1>2, <1>3 DEF Starts, NameAt, LastName
<1>6. Loads'
  BY <1>1, <1>2, <1>3 DEF Loads, NameAt, LastName
<1>7. Short'
  BY <1>1, <1>2, <1>3 DEF Short
<1>8. Counted'
  BY <1>1, <1>2, <1>3 DEF Counted
<1>9. validationSetSize > 0 => Older'
  BY <1>1, <1>2, <1>3, ResultsHave DEF Older
<1>10. validationSetSize > 0 => Fresh'
  BY <1>1, <1>2, <1>3 DEF Fresh, NameAt, LastName
<1>11. validationSetSize > 0 => Applies'
  BY <1>1, <1>2, <1>3 DEF Applies, NameAt
<1>12. AppliedIsValidated' /\ ResultsAreOfThisAttempt'
  BY <1>1, <1>2, <1>3 DEF AppliedIsValidated, ResultsAreOfThisAttempt
<1> QED
  BY <1>2, <1>4, <1>5, <1>6, <1>7, <1>8, <1>9, <1>10, <1>11, <1>12 DEF PromptInv

LEMMA CoverageUnsurePrompt ==
    ASSUME AutoCalibrationAssumption, AutoTypeOK, Prompt, PromptInv,
           coverageArrives, result.found, ~result.sure
    PROVE  PromptInv'
<1> DEFINE n == Len(inputControl)
<1>1. /\ Ticks /\ Starts /\ Loads /\ Short /\ Counted
      /\ validationSetSize > 0 => Older /\ Fresh /\ Applies
      /\ AppliedIsValidated /\ ResultsAreOfThisAttempt
      /\ Len(inputControl) \in Nat /\ (inputControl = <<>> <=> Len(inputControl) = 0)
      /\ count \in Nat /\ attempt \in Nat
      /\ validationSetSize \in Nat /\ images.number \in Nat
  BY PromptFacts
<1>2. /\ apc = "covering" /\ coverages' = <<>> /\ result' = NoResult
      /\ result.found
      /\ apc' = "recalibrate" /\ attempt' = attempt + 1
      /\ UNCHANGED <<Prompt, validationSetSize, numIterations, count, calibration, results,
                      metrics, dpc, calibrationShouldRun, start, images, found, device, started,
                      applied>>
  BY DEF coverageArrives, chosen, auto, answers, dynamic, autoHistory
<1>3. /\ n \in Nat /\ Len(inputControl') = n + 1
      /\ inputControl'[n + 1].name = "resetData"
      /\ \A i \in 1 .. n : inputControl'[i] = inputControl[i]
      /\ ~dropped' /\ inputControl' # <<>>
  <2>1. Len(inputControl) < ControlSize /\ ~dropped
    BY <1>1, <1>2 DEF Short, AutoCalibrationAssumption
  <2>2. Simply("resetData") \in Orders /\ Simply("resetData").name = "resetData"
    BY SimplyCommands DEF Simply
  <2>3. Command(<<Simply("resetData")>>)
    BY DEF coverageArrives
  <2>4. QED
    BY <2>1, <2>2, <2>3, CommandRoom DEF AutoTypeOK
<1>4. Ticks'
  BY <1>1, <1>2, <1>3 DEF Ticks, Counted
<1>5. Starts'
  BY <1>1, <1>2, <1>3 DEF Starts, NameAt, LastName
<1>6. Loads'
  BY <1>1, <1>2, <1>3 DEF Loads, NameAt, LastName
<1>7. Short'
  BY <1>1, <1>2, <1>3 DEF Short
<1>8. Counted'
  BY <1>1, <1>2, <1>3 DEF Counted
<1>9. validationSetSize > 0 => Older'
  BY <1>1, <1>2, <1>3, ResultsHave DEF Older
<1>10. validationSetSize > 0 => Fresh'
  BY <1>1, <1>2, <1>3 DEF Fresh, NameAt, LastName
<1>11. validationSetSize > 0 => Applies'
  <2>1. SUFFICES ASSUME validationSetSize > 0 PROVE Applies'
    OBVIOUS
  <2>2. \A i \in 1 .. n : NameAt(i) = "apply" => inputControl[i].calibration <= images.since
    BY <1>1, <2>1 DEF Applies
  <2>3. inputControl'[n + 1].name = "apply" => inputControl'[n + 1].calibration <= images.since
    BY <1>1, <1>2, <1>3, <2>1 DEF NameAt
  <2>4. \A i \in 1 .. n + 1 :
          inputControl'[i].name = "apply" => inputControl'[i].calibration <= images'.since
    BY <1>2, <1>3, <2>2, <2>3 DEF NameAt
  <2>5. device' <= images'.since /\ metrics' = <<>>
    BY <1>1, <1>2, <2>1 DEF Applies, Loads
  <2>6. QED
    BY <1>3, <2>4, <2>5 DEF Applies, NameAt
<1>12. AppliedIsValidated' /\ ResultsAreOfThisAttempt'
  BY <1>1, <1>2, <1>3 DEF AppliedIsValidated, ResultsAreOfThisAttempt
<1> QED
  BY <1>2, <1>4, <1>5, <1>6, <1>7, <1>8, <1>9, <1>10, <1>11, <1>12 DEF PromptInv

LEMMA CoverageSurePrompt ==
    ASSUME AutoCalibrationAssumption, AutoTypeOK, Prompt, PromptInv,
           coverageArrives, result.found, result.sure, validationSetSize > 0
    PROVE  PromptInv'
<1> DEFINE n == Len(inputControl)
<1>1. /\ Ticks /\ Starts /\ Loads /\ Short /\ Counted
      /\ validationSetSize > 0 => Older /\ Fresh /\ Applies
      /\ AppliedIsValidated /\ ResultsAreOfThisAttempt
      /\ Len(inputControl) \in Nat /\ (inputControl = <<>> <=> Len(inputControl) = 0)
      /\ count \in Nat /\ attempt \in Nat
      /\ validationSetSize \in Nat /\ images.number \in Nat
  BY PromptFacts
<1>2. /\ apc = "covering" /\ coverages' = <<>> /\ result' = NoResult
      /\ result.found
      /\ apc' = "iterate" /\ calibration' = result.calibration
      /\ UNCHANGED <<Prompt, validationSetSize, attempt, count, results, metrics, dpc,
                      calibrationShouldRun, start, images, found, device, started, applied>>
  BY DEF coverageArrives, chosen, auto, answers, dynamic, autoHistory
<1>3. /\ n \in Nat /\ Len(inputControl') = n + 1
      /\ inputControl'[n + 1].name = "resetData"
      /\ \A i \in 1 .. n : inputControl'[i] = inputControl[i]
      /\ ~dropped' /\ inputControl' # <<>>
  <2>1. Len(inputControl) < ControlSize /\ ~dropped
    BY <1>1, <1>2 DEF Short, AutoCalibrationAssumption
  <2>2. Simply("resetData") \in Orders /\ Simply("resetData").name = "resetData"
    BY SimplyCommands DEF Simply
  <2>3. Command(<<Simply("resetData")>>)
    BY DEF coverageArrives
  <2>4. QED
    BY <2>1, <2>2, <2>3, CommandRoom DEF AutoTypeOK
<1>4. inputControl = <<>> /\ ~calibrationShouldRun
  BY <1>1, <1>2 DEF Ticks
<1>5. Ticks'
  BY <1>1, <1>2, <1>3, <1>4 DEF Ticks, Counted
<1>6. Starts'
  BY <1>1, <1>2, <1>3, <1>4 DEF Starts, NameAt, LastName
<1>7. Loads'
  BY <1>1, <1>2, <1>3, <1>4 DEF Loads, NameAt, LastName
<1>8. Short'
  BY <1>1, <1>2, <1>3, <1>4 DEF Short
<1>9. Counted'
  BY <1>1, <1>2, <1>3, <1>4 DEF Counted
<1>10. validationSetSize > 0 => Older'
  BY <1>1, <1>2, <1>3, <1>4, ResultsHave DEF Older
<1>11. validationSetSize > 0 => Fresh'
  BY <1>1, <1>2, <1>3, <1>4 DEF Fresh, NameAt, LastName
<1>12. validationSetSize > 0 => Applies'
  BY <1>1, <1>2, <1>3, <1>4 DEF Applies, NameAt, Loads
<1>13. AppliedIsValidated' /\ ResultsAreOfThisAttempt'
  BY <1>1, <1>2, <1>3, <1>4 DEF AppliedIsValidated, ResultsAreOfThisAttempt
<1> QED
  BY <1>2, <1>5, <1>6, <1>7, <1>8, <1>9, <1>10, <1>11, <1>12, <1>13 DEF PromptInv

LEMMA CoverageApplyPrompt ==
    ASSUME AutoCalibrationAssumption, AutoTypeOK, Prompt, PromptInv,
           coverageArrives, result.found, result.sure, validationSetSize = 0
    PROVE  PromptInv'
<1>1. /\ Ticks /\ Starts /\ Loads /\ Short /\ Counted
      /\ validationSetSize > 0 => Older /\ Fresh /\ Applies
      /\ AppliedIsValidated /\ ResultsAreOfThisAttempt
      /\ Len(inputControl) \in Nat /\ (inputControl = <<>> <=> Len(inputControl) = 0)
      /\ count \in Nat /\ attempt \in Nat
      /\ validationSetSize \in Nat /\ images.number \in Nat
  BY PromptFacts
<1>2. /\ apc = "covering" /\ coverages' = <<>> /\ result' = NoResult
      /\ result.found /\ apc' = "round"
      /\ applied' = <<[of |-> result.calibration, start |-> result.start, sent |-> started]>>
      /\ UNCHANGED <<Prompt, validationSetSize, numIterations, attempt, count, calibration,
                      results, metrics, dpc, calibrationShouldRun, start, images, found, device,
                      started>>
  BY DEF coverageArrives, chosen, auto, answers, dynamic, autoHistory
<1>3. inputControl = <<>> /\ ~calibrationShouldRun /\ result.start = started /\ ~dropped
  BY <1>1, <1>2 DEF Ticks, Short
<1>4. /\ Len(inputControl') = 2 /\ ~dropped' /\ inputControl' # <<>>
      /\ inputControl'[1].name = "resetData" /\ inputControl'[2].name = "apply"
  <2>1. result.calibration \in Nat
    BY <1>2, ResultsHave DEF AutoTypeOK, AutoTyped
  <2>2. /\ Simply("resetData") \in Orders /\ Simply("resetData").name = "resetData"
        /\ CmdOf("apply", result.calibration) \in Orders
        /\ CmdOf("apply", result.calibration).name = "apply"
    BY <2>1, SimplyCommands DEF Simply, CmdOf
  <2>3. Command(<<Simply("resetData"), CmdOf("apply", result.calibration)>>)
    BY DEF coverageArrives
  <2>4. dropped \in BOOLEAN /\ QueuesTyped
    BY DEF AutoTypeOK, AutoTyped
  <2>5. /\ Len(inputControl') = 2 /\ dropped' = dropped /\ inputControl' \in Seq(Orders)
        /\ inputControl'[1] = Simply("resetData") /\ inputControl'[2] = CmdOf("apply", result.calibration)
    BY <1>3, <2>2, <2>3, <2>4, CommandTwo
  <2>6. inputControl' # <<>>
    <3>1. Len(inputControl') # Len(<< >>)
      BY <2>5
    <3>2. QED
      BY <3>1
  <2>7. QED
    BY <1>3, <2>2, <2>5, <2>6
<1>5. Ticks'
  BY <1>1, <1>2, <1>3, <1>4 DEF Ticks, Counted
<1>6. Starts'
  BY <1>1, <1>2, <1>3, <1>4 DEF Starts, NameAt, LastName
<1>7. Loads'
  BY <1>1, <1>2, <1>3, <1>4 DEF Loads, NameAt, LastName
<1>8. Short'
  BY <1>1, <1>2, <1>3, <1>4 DEF Short
<1>9. Counted'
  BY <1>1, <1>2, <1>3, <1>4 DEF Counted
<1>10. validationSetSize > 0 => Older'
  BY <1>1, <1>2, <1>3, <1>4 DEF Older
<1>11. validationSetSize > 0 => Fresh'
  BY <1>1, <1>2, <1>3, <1>4 DEF Fresh, NameAt, LastName
<1>12. validationSetSize > 0 => Applies'
  BY <1>1, <1>2, <1>3, <1>4 DEF Applies, NameAt
<1>13. AppliedIsValidated' /\ ResultsAreOfThisAttempt'
  BY <1>1, <1>2, <1>3, <1>4 DEF AppliedIsValidated, ResultsAreOfThisAttempt
<1> QED
  BY <1>2, <1>5, <1>6, <1>7, <1>8, <1>9, <1>10, <1>11, <1>12, <1>13 DEF PromptInv

----------------------------------------------------------------------------
(* The steps of DynamicCalibration. *)

LEMMA InitializePrompt ==
    ASSUME AutoCalibrationAssumption, AutoTypeOK, Prompt, PromptInv,
           initializePipeline \/ noTick
    PROVE  PromptInv'
<1>1. /\ Ticks /\ Starts /\ Loads /\ Short /\ Counted
      /\ validationSetSize > 0 => Older /\ Fresh /\ Applies
      /\ AppliedIsValidated /\ ResultsAreOfThisAttempt
      /\ Len(inputControl) \in Nat /\ (inputControl = <<>> <=> Len(inputControl) = 0)
      /\ count \in Nat /\ attempt \in Nat
      /\ validationSetSize \in Nat /\ images.number \in Nat
  BY PromptFacts
<1>2. /\ dpc' = "command"
      /\ UNCHANGED <<Prompt, validationSetSize, apc, numIterations, attempt, count, calibration,
                      result, inputControl, dropped, results, coverages, metrics,
                      calibrationShouldRun, start, images, found, device, started, applied>>
  BY DEF initializePipeline, noTick, chosen, auto, answers, dynamic, autoHistory
<1>3. Ticks'
  BY <1>1, <1>2 DEF Ticks, Counted
<1>4. Starts'
  BY <1>1, <1>2 DEF Starts, NameAt, LastName
<1>5. Loads'
  BY <1>1, <1>2 DEF Loads, NameAt, LastName
<1>6. Short'
  BY <1>1, <1>2 DEF Short
<1>7. Counted'
  BY <1>1, <1>2 DEF Counted
<1>8. validationSetSize > 0 => Older'
  BY <1>1, <1>2 DEF Older
<1>9. validationSetSize > 0 => Fresh'
  BY <1>1, <1>2 DEF Fresh, NameAt, LastName
<1>10. validationSetSize > 0 => Applies'
  BY <1>1, <1>2 DEF Applies, NameAt
<1>11. AppliedIsValidated' /\ ResultsAreOfThisAttempt'
  BY <1>1, <1>2 DEF AppliedIsValidated, ResultsAreOfThisAttempt
<1> QED
  BY <1>2, <1>3, <1>4, <1>5, <1>6, <1>7, <1>8, <1>9, <1>10, <1>11 DEF PromptInv

LEMMA TickPrompt ==
    ASSUME AutoCalibrationAssumption, AutoTypeOK, Prompt, PromptInv,
           tickBegins
    PROVE  PromptInv'
<1>1. /\ Ticks /\ Starts /\ Loads /\ Short /\ Counted
      /\ validationSetSize > 0 => Older /\ Fresh /\ Applies
      /\ AppliedIsValidated /\ ResultsAreOfThisAttempt
      /\ Len(inputControl) \in Nat /\ (inputControl = <<>> <=> Len(inputControl) = 0)
      /\ count \in Nat /\ attempt \in Nat
      /\ validationSetSize \in Nat /\ images.number \in Nat
  BY PromptFacts
<1>2. /\ dpc' = "image" /\ calibrationShouldRun /\ inputControl = <<>> /\ Blocked
      /\ UNCHANGED <<Prompt, validationSetSize, apc, numIterations, attempt, count, calibration,
                      result, inputControl, dropped, results, coverages, metrics,
                      calibrationShouldRun, start, images, found, device, started, applied>>
  BY DEF tickBegins, chosen, auto, answers, dynamic, autoHistory
<1>3. apc = "waiting" /\ results = <<>> /\ start = started
  <2>1. apc \in {"waiting", "covering"} \/ (apc = "recalibrate" /\ attempt > 0)
    BY <1>1, <1>2 DEF Starts
  <2>2. apc # "covering" /\ apc # "recalibrate"
    BY <1>1, <1>2 DEF Ticks, Blocked
  <2>3. QED
    BY <1>1, <1>2, <2>1, <2>2 DEF Blocked, Starts
<1>4. Ticks'
  BY <1>1, <1>2, <1>3 DEF Ticks, Counted
<1>5. Starts'
  BY <1>1, <1>2, <1>3 DEF Starts, NameAt, LastName
<1>6. Loads'
  BY <1>1, <1>2, <1>3 DEF Loads, NameAt, LastName
<1>7. Short'
  BY <1>1, <1>2, <1>3 DEF Short
<1>8. Counted'
  BY <1>1, <1>2, <1>3 DEF Counted
<1>9. validationSetSize > 0 => Older'
  BY <1>1, <1>2, <1>3 DEF Older
<1>10. validationSetSize > 0 => Fresh'
  BY <1>1, <1>2, <1>3 DEF Fresh, NameAt, LastName
<1>11. validationSetSize > 0 => Applies'
  BY <1>1, <1>2, <1>3 DEF Applies, NameAt
<1>12. AppliedIsValidated' /\ ResultsAreOfThisAttempt'
  BY <1>1, <1>2, <1>3 DEF AppliedIsValidated, ResultsAreOfThisAttempt
<1> QED
  BY <1>2, <1>4, <1>5, <1>6, <1>7, <1>8, <1>9, <1>10, <1>11, <1>12 DEF PromptInv

LEMMA TickLoadsPrompt ==
    ASSUME AutoCalibrationAssumption, AutoTypeOK, Prompt, PromptInv,
           tickLoads
    PROVE  PromptInv'
<1>1. /\ Ticks /\ Starts /\ Loads /\ Short /\ Counted
      /\ validationSetSize > 0 => Older /\ Fresh /\ Applies
      /\ AppliedIsValidated /\ ResultsAreOfThisAttempt
      /\ Len(inputControl) \in Nat /\ (inputControl = <<>> <=> Len(inputControl) = 0)
      /\ count \in Nat /\ attempt \in Nat
      /\ validationSetSize \in Nat /\ images.number \in Nat
  BY PromptFacts
<1>2. /\ dpc = "image" /\ dpc' = "calibrate"
      /\ coverages' = <<"coverage">> /\ coverages' # <<>>
      /\ images'.since = images.since
      /\ UNCHANGED <<Prompt, validationSetSize, apc, numIterations, attempt, count, calibration,
                      result, inputControl, dropped, results, metrics, calibrationShouldRun,
                      start, found, device, started, applied>>
  BY DEF tickLoads, chosen, auto, answers, dynamic, autoHistory, ImageIn
<1>3. /\ apc = "waiting" /\ inputControl = <<>> /\ results = <<>>
      /\ calibrationShouldRun /\ start = started
  BY <1>1, <1>2 DEF Ticks
<1>4. Ticks'
  BY <1>1, <1>2, <1>3 DEF Ticks, Counted
<1>5. Starts'
  BY <1>1, <1>2, <1>3 DEF Starts, NameAt, LastName
<1>6. Loads'
  BY <1>1, <1>2, <1>3 DEF Loads, NameAt, LastName
<1>7. Short'
  BY <1>1, <1>2, <1>3 DEF Short
<1>8. Counted'
  BY <1>1, <1>2, <1>3 DEF Counted
<1>9. validationSetSize > 0 => Older'
  BY <1>1, <1>2, <1>3 DEF Older
<1>10. validationSetSize > 0 => Fresh'
  BY <1>1, <1>2, <1>3 DEF Fresh, NameAt, LastName
<1>11. validationSetSize > 0 => Applies'
  BY <1>1, <1>2, <1>3 DEF Applies, NameAt
<1>12. AppliedIsValidated' /\ ResultsAreOfThisAttempt'
  BY <1>1, <1>2, <1>3 DEF AppliedIsValidated, ResultsAreOfThisAttempt
<1> QED
  BY <1>2, <1>4, <1>5, <1>6, <1>7, <1>8, <1>9, <1>10, <1>11, <1>12 DEF PromptInv

LEMMA LoadedPrompt ==
    ASSUME AutoCalibrationAssumption, AutoTypeOK, Prompt, PromptInv,
           runLoadImage
    PROVE  PromptInv'
<1>1. /\ Ticks /\ Starts /\ Loads /\ Short /\ Counted
      /\ validationSetSize > 0 => Older /\ Fresh /\ Applies
      /\ AppliedIsValidated /\ ResultsAreOfThisAttempt
      /\ Len(inputControl) \in Nat /\ (inputControl = <<>> <=> Len(inputControl) = 0)
      /\ count \in Nat /\ attempt \in Nat
      /\ validationSetSize \in Nat /\ images.number \in Nat
  BY PromptFacts
<1>2. /\ dpc = "loading" /\ dpc' = "tick"
      /\ coverages' = <<"coverage">> /\ images' = ImageIn
      /\ UNCHANGED <<Prompt, validationSetSize, apc, numIterations, attempt, count, calibration,
                      result, inputControl, dropped, results, metrics, calibrationShouldRun,
                      start, found, device, started, applied>>
  BY DEF runLoadImage, chosen, auto, answers, dynamic, autoHistory
<1>3. apc = "loading" /\ inputControl = <<>> /\ count < validationSetSize /\ images.number >= count
  BY <1>1, <1>2 DEF Loads, Counted
<1>4. images'.since = images.since /\ images'.number > count /\ images'.number \in Nat
  BY <1>1, <1>2, <1>3, ImageInTyped DEF AutoTypeOK, AutoTyped, DynamicTyped, AutoCalibrationAssumption
<1>5. Ticks'
  BY <1>1, <1>2, <1>3, <1>4 DEF Ticks, Counted
<1>6. Starts'
  BY <1>1, <1>2, <1>3, <1>4 DEF Starts, NameAt, LastName
<1>7. Loads'
  BY <1>1, <1>2, <1>3, <1>4 DEF Loads, NameAt, LastName
<1>8. Short'
  BY <1>1, <1>2, <1>3, <1>4 DEF Short
<1>9. Counted'
  BY <1>1, <1>2, <1>3, <1>4 DEF Counted
<1>10. validationSetSize > 0 => Older'
  BY <1>1, <1>2, <1>3, <1>4 DEF Older
<1>11. validationSetSize > 0 => Fresh'
  BY <1>1, <1>2, <1>3, <1>4 DEF Fresh, NameAt, LastName
<1>12. validationSetSize > 0 => Applies'
  BY <1>1, <1>2, <1>3, <1>4 DEF Applies, NameAt
<1>13. AppliedIsValidated' /\ ResultsAreOfThisAttempt'
  BY <1>1, <1>2, <1>3, <1>4 DEF AppliedIsValidated, ResultsAreOfThisAttempt
<1> QED
  BY <1>2, <1>5, <1>6, <1>7, <1>8, <1>9, <1>10, <1>11, <1>12, <1>13 DEF PromptInv

LEMMA CalibratePrompt ==
    ASSUME AutoCalibrationAssumption, AutoTypeOK, Prompt, PromptInv,
           runCalibration
    PROVE  PromptInv'
<1>1. /\ Ticks /\ Starts /\ Loads /\ Short /\ Counted
      /\ validationSetSize > 0 => Older /\ Fresh /\ Applies
      /\ AppliedIsValidated /\ ResultsAreOfThisAttempt
      /\ Len(inputControl) \in Nat /\ (inputControl = <<>> <=> Len(inputControl) = 0)
      /\ count \in Nat /\ attempt \in Nat
      /\ validationSetSize \in Nat /\ images.number \in Nat
  BY PromptFacts
<1>2. /\ dpc = "calibrate" /\ dpc' = "command"
      /\ results' # <<>>
      /\ \/ /\ Head(results').found /\ Head(results').start = start
            /\ Head(results').calibration = found + 1
            /\ found' = found + 1 /\ calibrationShouldRun' = FALSE
         \/ /\ ~Head(results').found
            /\ UNCHANGED <<found, calibrationShouldRun>>
      /\ UNCHANGED <<Prompt, validationSetSize, apc, numIterations, attempt, count, calibration,
                      result, inputControl, dropped, coverages, metrics, start, images, device,
                      started, applied>>
  BY DEF runCalibration, chosen, auto, answers, dynamic, autoHistory, NoResult
<1>3. /\ apc = "waiting" /\ inputControl = <<>> /\ coverages # <<>>
      /\ calibrationShouldRun /\ start = started
  BY <1>1, <1>2 DEF Ticks
<1>4. result.found => result.calibration \in Nat
  BY ResultsHave DEF AutoTypeOK, AutoTyped
<1>5. found' >= found
  BY <1>2, NumbersTyped
<1>6. Ticks'
  BY <1>1, <1>2, <1>3, <1>4, <1>5 DEF Ticks, Counted
<1>7. Starts'
  BY <1>1, <1>2, <1>3, <1>4, <1>5 DEF Starts, NameAt, LastName
<1>8. Loads'
  BY <1>1, <1>2, <1>3, <1>4, <1>5 DEF Loads, NameAt, LastName
<1>9. Short'
  BY <1>1, <1>2, <1>3, <1>4, <1>5 DEF Short
<1>10. Counted'
  BY <1>1, <1>2, <1>3, <1>4, <1>5 DEF Counted
<1>11. validationSetSize > 0 => Older'
  <2>1. SUFFICES ASSUME validationSetSize > 0 PROVE Older'
    OBVIOUS
  <2>2. found' \in Nat /\ found' >= found
    BY <1>2, NumbersTyped
  <2>3. /\ calibration <= found /\ images.since <= found
        /\ result.found => result.calibration <= found
    BY <1>1, <2>1 DEF Older
  <2>4. calibration' <= found' /\ images'.since <= found'
    BY <1>2, <2>2, <2>3, NumbersTyped
  <2>5. result'.found => result'.calibration <= found'
    BY <1>2, <1>4, <2>2, <2>3, NumbersTyped
  <2>6. Head(results').found => Head(results').calibration <= found'
    BY <1>2, NumbersTyped
  <2>7. QED
    BY <2>4, <2>5, <2>6 DEF Older
<1>12. validationSetSize > 0 => Fresh'
  BY <1>1, <1>2, <1>3, <1>4, <1>5 DEF Fresh, NameAt, LastName
<1>13. validationSetSize > 0 => Applies'
  BY <1>1, <1>2, <1>3, <1>4, <1>5 DEF Applies, NameAt
<1>14. AppliedIsValidated' /\ ResultsAreOfThisAttempt'
  BY <1>1, <1>2, <1>3, <1>4, <1>5 DEF AppliedIsValidated, ResultsAreOfThisAttempt
<1> QED
  BY <1>2, <1>6, <1>7, <1>8, <1>9, <1>10, <1>11, <1>12, <1>13, <1>14 DEF PromptInv

LEMMA EvaluatePrompt ==
    ASSUME AutoCalibrationAssumption, AutoTypeOK, Prompt, PromptInv,
           evaluateCommand
    PROVE  PromptInv'
<1>1. /\ Ticks /\ Starts /\ Loads /\ Short /\ Counted
      /\ validationSetSize > 0 => Older /\ Fresh /\ Applies
      /\ AppliedIsValidated /\ ResultsAreOfThisAttempt
      /\ Len(inputControl) \in Nat /\ (inputControl = <<>> <=> Len(inputControl) = 0)
      /\ count \in Nat /\ attempt \in Nat
      /\ validationSetSize \in Nat /\ images.number \in Nat
  BY PromptFacts
<1>2. /\ inputControl # <<>> /\ inputControl' = Tail(inputControl)
      /\ UNCHANGED <<Prompt, validationSetSize, apc, numIterations, attempt, count, calibration,
                      result, dropped, results, coverages, found, started, applied>>
  BY DEF evaluateCommand, chosen, auto, answers, dynamic, autoHistory
<1> DEFINE c == inputControl[1]
           m == Len(inputControl')
<1>3. /\ Head(inputControl) = c /\ m \in Nat /\ Len(inputControl) = m + 1
      /\ inputControl' = <<>> <=> m = 0
      /\ \A i \in 1 .. m : inputControl'[i] = inputControl[i + 1]
  <2>1. QueuesTyped
    BY DEF AutoTypeOK
  <2>2. inputControl' \in Seq(Orders) /\ Len(inputControl) \in Nat
    BY <1>2, <2>1, CommandTaken DEF QueuesTyped
  <2>3. QED
    BY <1>2, <2>1, <2>2, CommandTaken, SMTT(20)
<1>4. /\ dpc' = IF c.name = "loadImage" THEN "loading" ELSE "tick"
      /\ start' = IF c.name = "start" THEN c.calibration ELSE start
      /\ images' = IF c.name = "resetData" THEN [number |-> 0, since |-> found] ELSE images
      /\ device' = IF c.name = "apply" THEN c.calibration ELSE device
      /\ c.name # "metrics" => metrics' = metrics
      /\ c.name = "metrics" => /\ metrics' # <<>> /\ Head(metrics').of = c.calibration
                               /\ Head(metrics').images = images
  BY <1>3 DEF evaluateCommand
<1>5. /\ c.name = "start" => calibrationShouldRun'
      /\ c.name = "stop" => ~calibrationShouldRun'
      /\ c.name \notin {"start", "stop"} => (calibrationShouldRun' <=> calibrationShouldRun)
  <2>1. calibrationShouldRun' = (c.name = "start" \/ (calibrationShouldRun /\ c.name # "stop"))
    BY <1>3 DEF evaluateCommand
  <2>2. calibrationShouldRun \in BOOLEAN
    BY DEF AutoTypeOK, DynamicTyped
  <2>3. QED
    BY <2>1, <2>2
<1>6. /\ c.name = "start" => apc = "waiting" /\ m = 0 /\ c.calibration = started
      /\ c.name = "loadImage" => apc = "loading" /\ m = 0 /\ coverages = <<>>
      /\ c.name = "metrics" => /\ apc = "measuring" /\ metrics = <<>> /\ m = 0
                               /\ c.calibration = calibration
      /\ apc = "waiting" /\ m = 0 => c.name = "start"
      /\ apc = "loading" /\ m = 0 => c.name = "loadImage"
      /\ apc = "measuring" /\ m = 0 => c.name = "metrics"
      /\ coverages # <<>> => apc = "waiting"
      /\ results = <<>> /\ apc # "covering" /\ metrics = <<>>
  <2>1. /\ 1 \in 1 .. Len(inputControl) /\ NameAt(1) = c.name
        /\ 1 = Len(inputControl) <=> m = 0
        /\ m = 0 => LastName = c.name
    BY <1>3 DEF NameAt, LastName
  <2>2. c.name = "start" => apc = "waiting" /\ m = 0 /\ c.calibration = started
    BY <1>1, <2>1 DEF Starts
  <2>3. /\ c.name = "loadImage" => apc = "loading" /\ m = 0
        /\ c.name = "metrics" => apc = "measuring" /\ metrics = <<>> /\ c.calibration = calibration
    BY <1>1, <2>1 DEF Loads
  <2>4. coverages # <<>> => apc = "waiting"
    BY <1>1, <1>2 DEF Counted, Ticks
  <2>5. c.name = "metrics" => m = 0
    BY <1>1, <1>3, <2>3 DEF Short
  <2>6. /\ apc = "waiting" /\ m = 0 => c.name = "start"
        /\ apc = "loading" /\ m = 0 => c.name = "loadImage"
        /\ apc = "measuring" /\ m = 0 => c.name = "metrics"
    BY <1>1, <1>2, <2>1 DEF Starts, Loads
  <2>7. results = <<>> /\ apc # "covering" /\ metrics = <<>>
    BY <1>1, <1>2 DEF Ticks, Loads
  <2>8. QED
    BY <2>2, <2>3, <2>4, <2>5, <2>6, <2>7
<1>7. /\ m > 0 => LastName' = LastName
      /\ \A i \in 1 .. m : i + 1 \in 1 .. Len(inputControl) /\ NameAt(i)' = NameAt(i + 1)
  BY <1>3 DEF NameAt, LastName
<1>8. Ticks'
  BY <1>1, <1>2, <1>3, <1>4, <1>5, <1>6, <1>7 DEF Ticks, Counted
<1>9. Starts'
  <2>1. \A i \in 1 .. m :
          NameAt(i)' = "start" => /\ apc = "waiting" /\ i = m
                                  /\ inputControl'[i].calibration = started
    BY <1>1, <1>3, <1>7 DEF Starts, NameAt
  <2>2. apc = "waiting" /\ m > 0 => LastName' = "start"
    BY <1>1, <1>2, <1>7 DEF Starts
  <2>3. apc = "waiting" /\ m = 0 => start' = started /\ calibrationShouldRun'
    BY <1>4, <1>5, <1>6
  <2>4. calibrationShouldRun' => \/ apc \in {"waiting", "covering"}
                                 \/ apc = "recalibrate" /\ attempt > 0
                                 \/ \E i \in 1 .. m : NameAt(i)' = "stop"
    <3>1. CASE c.name = "start"
      BY <1>6, <3>1
    <3>2. ASSUME calibrationShouldRun, c.name # "stop", NEW j \in 1 .. Len(inputControl),
                 NameAt(j) = "stop"
          PROVE  \E i \in 1 .. m : NameAt(i)' = "stop"
      <4>1. j # 1
        BY <3>2 DEF NameAt
      <4>2. j - 1 \in 1 .. m /\ (j - 1) + 1 = j
        BY <1>3, <3>2, <4>1
      <4>3. NameAt(j - 1)' = NameAt(j)
        BY <1>7, <4>2
      <4>4. QED
        BY <3>2, <4>2, <4>3
    <3>3. QED
      BY <1>1, <1>5, <3>1, <3>2 DEF Starts
  <2>5. m \in Nat /\ (inputControl' = <<>> <=> m = 0)
    BY <1>3
  <2>6. UNCHANGED <<apc, started, attempt, results>>
    BY <1>2
  <2>7. QED
    BY <2>1, <2>2, <2>3, <2>4, <2>5, <2>6 DEF Starts, NameAt, LastName
<1>10. Loads'
  <2>1. \A i \in 1 .. m :
          /\ NameAt(i)' = "loadImage" => apc = "loading" /\ i = m
          /\ NameAt(i)' # "metrics"
    <3>1. ASSUME NEW i \in 1 .. m PROVE NameAt(i + 1) = "metrics" => FALSE
      BY <1>1, <1>3, <1>7 DEF Loads, Short
    <3>2. QED
      BY <1>1, <1>3, <1>7, <3>1 DEF Loads
  <2>2. /\ apc = "loading" /\ m > 0 => LastName' = "loadImage"
        /\ apc = "measuring" /\ m > 0 => LastName' = "metrics"
    BY <1>1, <1>2, <1>7 DEF Loads
  <2>3. dpc' = "loading" => apc = "loading" /\ m = 0 /\ coverages = <<>>
    BY <1>4, <1>6
  <2>4. metrics' # <<>> => apc = "measuring" /\ m = 0
    BY <1>4, <1>6
  <2>5. apc \in {"drain", "load", "loading", "measuring"} => validationSetSize > 0
    BY <1>1 DEF Loads
  <2>6. m \in Nat /\ (inputControl' = <<>> <=> m = 0)
    BY <1>3
  <2>7. UNCHANGED <<apc, calibration, coverages, validationSetSize>>
    BY <1>2
  <2>8. QED
    BY <2>1, <2>2, <2>3, <2>4, <2>5, <2>6, <2>7 DEF Loads, NameAt, LastName
<1>11. Short'
  BY <1>1, <1>2, <1>3, <1>4, <1>5, <1>6, <1>7 DEF Short
<1>12. Counted'
  BY <1>1, <1>2, <1>3, <1>4, <1>6 DEF Counted, Short
<1>13. validationSetSize > 0 => Older'
  BY <1>1, <1>2, <1>4, <1>6, NumbersTyped DEF Older
<1>14. validationSetSize > 0 => Fresh'
  <2>1. SUFFICES ASSUME validationSetSize > 0 PROVE Fresh'
    OBVIOUS
  <2>2. calibration <= images.since => calibration <= images'.since
    BY <1>1, <1>4, <2>1, NumbersTyped DEF Older
  <2>3. c.name = "resetData" => calibration <= images'.since
    BY <1>1, <1>4, <2>1 DEF Older
  <2>4. CASE apc \in {"iterate", "drain", "load"} /\ LastName = "resetData"
    BY <1>2, <1>3, <1>7, <2>3, <2>4 DEF Fresh, LastName, NameAt
  <2>5. CASE /\ apc = "loading" /\ Len(inputControl) > 1
             /\ NameAt(Len(inputControl) - 1) = "resetData"
    <3>1. CASE m = 1
      <4>1. Len(inputControl) - 1 = 1
        BY <1>3, <3>1
      <4>2. c.name = "resetData"
        BY <2>5, <4>1 DEF NameAt
      <4>3. QED
        BY <1>2, <2>3, <4>2 DEF Fresh
    <3>2. CASE m > 1
      <4>1. m - 1 \in 1 .. m /\ (m - 1) + 1 = Len(inputControl) - 1
        BY <1>3, <3>2
      <4>2. inputControl'[m - 1].name = "resetData"
        BY <1>3, <2>5, <4>1 DEF NameAt
      <4>3. QED
        BY <1>2, <2>5, <3>2, <4>2 DEF Fresh, NameAt
    <3>3. m \in Nat /\ m + 1 > 1
      BY <1>3, <2>5
    <3>4. \A x \in Nat : x + 1 > 1 => x = 1 \/ x > 1
      OBVIOUS
    <3>5. m = 1 \/ m > 1
      BY <3>3, <3>4
    <3>6. QED
      BY <3>1, <3>2, <3>5
  <2>6. QED
    BY <1>1, <1>2, <2>1, <2>2, <2>4, <2>5 DEF Fresh
<1>15. validationSetSize > 0 => Applies'
  <2>1. SUFFICES ASSUME validationSetSize > 0 PROVE Applies'
    OBVIOUS
  <2>2. /\ NameAt(1) = c.name /\ 1 \in 1 .. Len(inputControl)
        /\ c.name = "apply" => c.calibration <= images.since
    BY <1>1, <1>3, <2>1 DEF Applies, NameAt
  <2>3. images.since \in Nat /\ images'.since \in Nat /\ images.since <= images'.since
    BY <1>1, <1>4, <2>1, NumbersTyped DEF Older
  <2>4. inputControl \in Seq(Orders)
    BY DEF AutoTypeOK, QueuesTyped
  <2>5. \A i \in 1 .. Len(inputControl) : inputControl[i].calibration \in Nat
    <3>1. \A i \in 1 .. Len(inputControl) : inputControl[i] \in Orders
      BY <2>4
    <3>2. QED
      BY <3>1 DEF Orders
  <2>6. device' <= images'.since
    BY <1>1, <1>3, <1>4, <2>1, <2>2, <2>3, <2>5, NumbersTyped DEF Applies
  <2>7. \A i \in 1 .. m : NameAt(i)' = "apply" => inputControl'[i].calibration <= images'.since
    <3>1. ASSUME NEW i \in 1 .. m, NameAt(i + 1) = "apply"
          PROVE  inputControl[i + 1].calibration <= images'.since
      BY <1>1, <1>7, <2>1, <2>3, <2>5, <3>1 DEF Applies
    <3>2. QED
      BY <1>3, <1>7, <3>1
  <2>8. metrics' # <<>> => /\ Head(metrics').of = calibration
                           /\ Head(metrics').images.number >= validationSetSize
                           /\ calibration <= Head(metrics').images.since
    BY <1>1, <1>4, <1>6, <2>1 DEF Counted, Fresh
  <2>9. QED
    BY <1>2, <2>6, <2>7, <2>8 DEF Applies, NameAt
<1>16. AppliedIsValidated' /\ ResultsAreOfThisAttempt'
  BY <1>1, <1>2, <1>3, <1>4, <1>5, <1>6, <1>7 DEF AppliedIsValidated, ResultsAreOfThisAttempt
<1> QED
  BY <1>2, <1>8, <1>9, <1>10, <1>11, <1>12, <1>13, <1>14, <1>15, <1>16 DEF PromptInv

----------------------------------------------------------------------------
(* The theorems. *)

LEMMA InitPrompt == AutoInit => PromptInv
<1> SUFFICES ASSUME AutoInit PROVE PromptInv
  OBVIOUS
<1> USE DEF AutoInit
<1>1. Len(inputControl) = 0 /\ ~NoResult.found
  BY ResultsHave
<1>2. Ticks /\ Starts /\ Loads /\ Short /\ Counted
  BY <1>1 DEF Ticks, Starts, Loads, Short, Counted
<1>3. Older /\ Fresh /\ Applies
  BY <1>1 DEF Older, Fresh, Applies, NoImages
<1> QED
  BY <1>2, <1>3 DEF PromptInv, AppliedIsValidated, ResultsAreOfThisAttempt

LEMMA NextPrompt ==
    ASSUME AutoCalibrationAssumption, AutoTypeOK, Prompt, PromptInv, [AutoNext]_autoVars
    PROVE  PromptInv'
<1>1. CASE gateControlArrives \/ framePasses \/ UNCHANGED autoVars
  <2>1. UNCHANGED <<chosen, auto, inputControl, answers, dynamic, autoHistory>>
    BY <1>1 DEF gateControlArrives, framePasses, autoVars
  <2>2. QED
    BY <2>1 DEF PromptInv, Ticks, Starts, Loads, Short, Counted, Older, Fresh, Applies, NameAt,
       LastName, AppliedIsValidated, ResultsAreOfThisAttempt, chosen, auto, answers, dynamic,
       autoHistory
<1>2. CASE coverageArrives
  <2>1. validationSetSize > 0 \/ validationSetSize = 0
    BY PromptFacts
  <2>2. QED
    BY <1>2, <2>1, CoverageWaitPrompt, CoverageUnsurePrompt, CoverageSurePrompt,
       CoverageApplyPrompt
<1>3. CASE AutoCalibration /\ ~coverageArrives
  BY <1>3, ValidatePrompt, RoundPrompt, IteratePrompt, IterateEndsPrompt, DrainPrompt,
     LoadImagePrompt, ImageLoadedPrompt, GetMetricsPrompt, MeasuredGoodPrompt, MeasuredBadPrompt,
     StartPrompt, GiveUpPrompt, ResultPrompt DEF AutoCalibration
<1>4. CASE DynamicCalibration
  BY <1>4, InitializePrompt, EvaluatePrompt, LoadedPrompt, TickPrompt, TickLoadsPrompt,
     CalibratePrompt DEF DynamicCalibration
<1> QED
  BY <1>1, <1>2, <1>3, <1>4 DEF AutoNext

LEMMA AutoInvariant == AutoSpec => []AutoIInv
<1>1. AutoInit => AutoIInv
  BY AutoCalibrationAssumption, InitAutoTyped, InitPrompt DEF AutoIInv
<1>2. AutoIInv /\ [AutoNext]_autoVars => AutoIInv'
  <2> SUFFICES ASSUME AutoIInv, [AutoNext]_autoVars PROVE AutoIInv'
    OBVIOUS
  <2>1. AutoTypeOK'
    BY AutoCalibrationAssumption, NextAutoTyped DEF AutoIInv
  <2>2. Prompt' = Prompt
    BY AutoStepFacts, DynamicStepFacts DEF AutoNext, autoVars, gateControlArrives, framePasses, chosen
  <2>3. Prompt => PromptInv'
    BY AutoCalibrationAssumption, NextPrompt DEF AutoIInv
  <2>4. QED
    BY <2>1, <2>2, <2>3 DEF AutoIInv
<1> QED
  BY <1>1, <1>2, PTL DEF AutoSpec

\* Types of AutoCalibration (AutoCalibration.cpp, DynamicCalibrationNode.cpp): the
\* queues of answers hold one, inputControl no more commands than its size.
THEOREM AutoTypeCorrect == AutoSpec => []AutoTypeOK
<1>1. AutoIInv => AutoTypeOK
  BY DEF AutoIInv
<1> QED
  BY <1>1, AutoInvariant, PTL

\* updateCalibrationProcess (AutoCalibration.cpp:280-287), when the node is prompt: with
\* any validation set, what is applied was measured on fresh images, as many as the set has.
THEOREM AutoAppliedIsValidated == AutoSpec => []AppliedIsValidated
<1>1. AutoIInv => AppliedIsValidated
  BY DEF AutoIInv, PromptInv, AppliedIsValidated
<1> QED
  BY <1>1, AutoInvariant, PTL

\* getNewCalibration (AutoCalibration.cpp:190-219): for any number of attempts, what
\* is applied is a result of the startCalibration sent last.
THEOREM AutoResultsAreOfThisAttempt == AutoSpec => []ResultsAreOfThisAttempt
<1>1. AutoIInv => ResultsAreOfThisAttempt
  BY DEF AutoIInv, PromptInv, ResultsAreOfThisAttempt
<1> QED
  BY <1>1, AutoInvariant, PTL

\* loadData (AutoCalibration.cpp:160-168): as many images are loaded as coverages have
\* come, and inputControl never drops a command.
THEOREM AutoLoadedWhenTold == AutoSpec => []LoadedWhenTold
<1>1. AutoIInv => LoadedWhenTold
  BY DEF AutoIInv, PromptInv, LoadedWhenTold, Short, Counted
<1> QED
  BY <1>1, AutoInvariant, PTL

=============================================================================

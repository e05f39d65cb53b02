------------------------------ MODULE SyncNode ------------------------------
(***************************************************************************)
(* The Sync node (src/pipeline/node/Sync.cpp): it takes one message from   *)
(* each input, and as long as their timestamps are too far apart replaces  *)
(* the oldest one by the next message of the same input.                   *)
(*                                                                         *)
(* A message is its timestamp; 0 stands for no message.  The inputs are    *)
(* non-blocking queues of maxSize Cap, so that a full one drops its oldest *)
(* message.  What feeds an input numbers its messages in increasing time.  *)
(***************************************************************************)
EXTENDS Integers, Sequences

CONSTANTS NInputs, Cap,
          Threshold,     \* syncThresholdNs
          SyncAttempts,  \* -1: until the messages are in sync
          MaxTs          \* bound: the latest timestamp

ASSUME SyncAssumption == /\ NInputs \in Nat \ {0} /\ Cap \in Nat \ {0} /\ Threshold \in Nat
                         /\ SyncAttempts \in Nat \cup {-1} /\ MaxTs \in Nat

Inputs == 1 .. NInputs
None == 0
NoFrames == [i \in Inputs |-> None]

VARIABLES queue, closed,   \* the input queues
          outClosed,       \* the queue behind the output is closed
          last,            \* the last timestamp each input received
          running,
          pc, k,           \* place of the node's thread; next input, or the one to refetch
          frames, attempts,
          discarded,       \* messages this round replaced
          group            \* the last group sent

env == <<queue, closed, outClosed, last, running>>
vars == <<queue, closed, outClosed, last, running, pc, k, frames, attempts, discarded, group>>

Init == /\ queue = [i \in Inputs |-> <<>>]
        /\ closed = [i \in Inputs |-> FALSE]
        /\ outClosed = FALSE /\ running = TRUE
        /\ last = NoFrames
        /\ pc = "loop" /\ k = 1 /\ frames = NoFrames /\ attempts = 0
        /\ discarded = [i \in Inputs |-> {}]
        /\ group = NoFrames

-----------------------------------------------------------------------------
(* The surroundings: messages arrive, the pipeline stops. *)

Pushed(q, t) == Append(IF Len(q) >= Cap THEN Tail(q) ELSE q, t)

receive(i, t) == /\ ~closed[i] /\ last[i] < t
                 /\ queue' = [queue EXCEPT ![i] = Pushed(@, t)]
                 /\ last' = [last EXCEPT ![i] = t]
                 /\ UNCHANGED <<closed, outClosed, running, pc, k, frames, attempts,
                                discarded, group>>

stop == /\ running /\ running' = FALSE
        /\ UNCHANGED <<queue, closed, outClosed, last, pc, k, frames, attempts, discarded,
                       group>>

closeInput(i) == /\ ~running /\ ~closed[i]
                 /\ closed' = [closed EXCEPT ![i] = TRUE]
                 /\ UNCHANGED <<queue, outClosed, last, running, pc, k, frames, attempts,
                                discarded, group>>

closeOutput == /\ ~outClosed /\ outClosed' = TRUE
               /\ UNCHANGED <<queue, closed, last, running, pc, k, frames, attempts,
                              discarded, group>>

-----------------------------------------------------------------------------
(* Sync::run. *)

mainLoop == /\ pc = "loop"
            /\ \/ /\ running /\ pc' = "collect" /\ k' = 1 /\ attempts' = 0
                  /\ frames' = NoFrames /\ discarded' = [i \in Inputs |-> {}]
               \/ ~running /\ pc' = "ended" /\ UNCHANGED <<frames, k, attempts, discarded>>
            /\ UNCHANGED <<env, group>>

\* inputs[name].get: blocks while the queue is empty.
Get(i) == /\ ~closed[i] /\ queue[i] # <<>>
          /\ frames' = [frames EXCEPT ![i] = Head(queue[i])]
          /\ queue' = [queue EXCEPT ![i] = Tail(@)]
          /\ UNCHANGED <<closed, outClosed, last, running>>

collect == /\ pc = "collect" /\ Get(k)
           /\ IF k < NInputs THEN k' = k + 1 /\ UNCHANGED pc
                             ELSE pc' = "sync" /\ UNCHANGED k
           /\ UNCHANGED <<attempts, discarded, group>>

\* attempts > properties.syncAttempts && properties.syncAttempts != -1
GiveUp == attempts > SyncAttempts /\ SyncAttempts # -1

\* maxTs - minTs < syncThresholdNs
InSync(f) == \A i, j \in Inputs : f[i] - f[j] < Threshold

\* Faulty variant: the newest message is replaced.
Newest(i) == \A j \in Inputs : frames[j] <= frames[i]

\* A message with the minimum timestamp; ties go by the order of a hash map.
Oldest(i) == \A j \in Inputs : frames[i] <= frames[j]

\* Send the group, or choose the message to replace.
evaluate == /\ pc = "sync"
            /\ \/ (GiveUp \/ InSync(frames)) /\ pc' = "send" /\ UNCHANGED k
               \/ /\ ~GiveUp /\ ~InSync(frames)
                  /\ k' \in {i \in Inputs : Oldest(i)}
                  /\ pc' = "refetch"
            /\ UNCHANGED <<env, frames, attempts, discarded, group>>

refetch == /\ pc = "refetch" /\ Get(k)
           /\ discarded' = [discarded EXCEPT ![k] = @ \cup {frames[k]}]
           /\ attempts' = attempts + 1
           /\ pc' = "sync" /\ UNCHANGED <<k, group>>

send == /\ pc = "send" /\ ~outClosed
        /\ group' = frames /\ pc' = "loop"
        /\ UNCHANGED <<env, frames, k, attempts, discarded>>

\* A queue throws when it is closed, and ends the node.  That a message is not a
\* Buffer (line 74) ends it in the same way, and is left out.
QueueException == /\ \/ pc \in {"collect", "refetch"} /\ closed[k]
                     \/ pc = "send" /\ outClosed
                  /\ pc' = "ended"
                  /\ UNCHANGED <<env, frames, k, attempts, discarded, group>>

\* A send may wait for room behind the output for ever, everything else goes on.
Unblocked == mainLoop \/ collect \/ evaluate \/ refetch \/ QueueException

NodeStep == Unblocked \/ send

Next == \/ \E i \in Inputs, t \in 1 .. MaxTs : receive(i, t)
        \/ stop \/ closeOutput \/ \E i \in Inputs : closeInput(i)
        \/ NodeStep

\* The node's thread runs, and a stop, once begun, closes every input, and the
\* input of the node behind.
Fairness == /\ WF_vars(Unblocked) /\ WF_vars(~running /\ closeOutput)
            /\ \A i \in Inputs : WF_vars(closeInput(i))

Spec == Init /\ [][Next]_vars /\ Fairness

-----------------------------------------------------------------------------
(* Properties. *)

\* The queues hold increasing timestamps within their bound, the frames are
\* those collected so far.
TypeOK == /\ queue \in [Inputs -> Seq(Nat)]
          /\ \A i \in Inputs : Len(queue[i]) <= Cap
          /\ last \in [Inputs -> Nat] /\ frames \in [Inputs -> Nat]
          /\ group \in [Inputs -> Nat]
          /\ closed \in [Inputs -> BOOLEAN] /\ outClosed \in BOOLEAN /\ running \in BOOLEAN
          /\ pc \in {"loop", "collect", "sync", "refetch", "send", "ended"}
          /\ k \in Inputs /\ attempts \in Nat
          /\ discarded \in [Inputs -> SUBSET Nat]

Waiting(i) == {queue[i][a] : a \in 1 .. Len(queue[i])}
Available(i) == discarded[i] \cup ({frames[i]} \ {None}) \cup Waiting(i)

(***************************************************************************)
(* Replacing the oldest message never throws away a match: no combination  *)
(* of messages taken this round or waiting in the input queues that uses a *)
(* replaced one is in sync.                                                *)
(***************************************************************************)
MissesNoMatch == \A f \in [Inputs -> 0 .. MaxTs] :
                    /\ \A i \in Inputs : f[i] \in Available(i)
                    /\ \E i \in Inputs : f[i] \in discarded[i]
                    => ~InSync(f)

\* A message is never part of two groups: each round starts afresh.
GroupsAdvance == pc \in {"collect", "sync", "refetch", "send"} =>
                    \A i \in Inputs : frames[i] # None => frames[i] > group[i]

\* With syncAttempts -1 (the default), only messages closer than the threshold are sent.
OnlySyncedSent == SyncAttempts = -1 /\ pc = "send" =>
                    \A i, j \in Inputs : frames[i] - frames[j] < Threshold

\* After a stop the node's thread ends, wherever it is blocked.
StopEndsNode == ~running ~> pc = "ended"

-----------------------------------------------------------------------------
(* What the documentation says, and the code does not do. *)

(***************************************************************************)
(* syncAttempts is the number of replaced messages, and with 0 the node    *)
(* sends the group as soon as it is filled.  The test is attempts >        *)
(* syncAttempts, so one more message is replaced.                          *)
(***************************************************************************)
ReplacedWithinAttempts == SyncAttempts # -1 => attempts <= SyncAttempts

(***************************************************************************)
(* syncThreshold is the maximal interval between the messages of a group:  *)
(* a group that exactly attains it is one to send.  The test is strict.    *)
(***************************************************************************)
MaximalIntervalAccepted ==
    pc = "refetch" => \E i, j \in Inputs : frames[i] - frames[j] > Threshold

=============================================================================

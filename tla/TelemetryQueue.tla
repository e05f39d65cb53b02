--------------------------- MODULE TelemetryQueue ---------------------------
(***************************************************************************)
(* The queue of telemetry events and the thread that uploads them          *)
(* (TelemetrySharedState in src/utility/Telemetry.cpp).  An event is a     *)
(* file of the run's directory; queuedFiles keeps the files' names in the  *)
(* order they were written, and a batch is read and posted without the     *)
(* mutex, while threads go on adding events.                               *)
(*                                                                         *)
(* Events are numbered.  Of the clock two facts are kept: whether the next *)
(* flush is due and whether uploads are paused.  Left out: the contents of *)
(* an event and its identifiers (TemporaryIdsManager).                     *)
(***************************************************************************)
EXTENDS Integers, Sequences, SequencesExt, FiniteSets

CONSTANTS flushAt, maxQueueSize, maxBatchSize,
          MaxEvents    \* bound: events ever sent

ASSUME QueueAssumption == /\ {flushAt, maxQueueSize, maxBatchSize} \subseteq Nat \ {0}
                          /\ MaxEvents \in Nat

VARIABLES queuedFiles, onDisk,
          stopRequested, flushRequested,
          due,            \* now >= nextFlushAt
          paused,         \* now < pausedUntil
          worker,         \* place of the worker thread
          final,          \* is this the flush after the loop?
          batchFiles,     \* the batch, of which reading - 1 files were read;
          reading, invalidFiles, events, index, deletableFiles, shouldRetry,
          made,           \* history: events ever sent
          lastPost,       \* history: the last event that was posted, and its answer
          settled         \* history: events answered for good, or given up

flush == <<batchFiles, reading, invalidFiles, events, index, deletableFiles, shouldRetry>>
clock == <<due, paused>>
requested == <<stopRequested, flushRequested>>
record == <<made, lastPost, settled>>
queueVars == <<queuedFiles, onDisk, requested, clock, worker, final, flush, record>>

QueueInit ==
    /\ queuedFiles = <<>> /\ onDisk = {}
    /\ stopRequested = FALSE /\ flushRequested = FALSE
    /\ due = FALSE /\ paused = FALSE
    /\ worker = "wait" /\ final = FALSE
    /\ batchFiles = <<>> /\ reading = 1 /\ invalidFiles = {} /\ events = <<>> /\ index = 1
    /\ deletableFiles = {} /\ shouldRetry = FALSE
    /\ made = 0 /\ lastPost = <<0, "final">> /\ settled = {}

\* The files of s that are not in gone, in the order of s.
Without(s, gone) ==
    LET left[i \in 0 .. Len(s)] ==
          IF i = 0 THEN <<>>
          ELSE IF s[i] \in gone THEN left[i - 1] ELSE Append(left[i - 1], s[i])
    IN  left[Len(s)]

----------------------------------------------------------------------------
(* Any thread: event.                                                      *)

\* A full queue loses its oldest event: what is left, and what is lost.
MakeRoom ==
    IF Len(queuedFiles) < maxQueueSize THEN <<queuedFiles, {}>>
    ELSE <<Tail(queuedFiles), {Head(queuedFiles)}>>

\* The file of the event may fail to be written; the oldest is lost all the same.
event ==
    /\ worker # "cleaned" /\ made < MaxEvents
    /\ made' = made + 1
    /\ LET kept == MakeRoom[1]
           lost == MakeRoom[2] IN
       \/ /\ queuedFiles' = Append(kept, made')
          /\ onDisk' = (onDisk \ lost) \cup {made'}
          /\ settled' = settled \cup lost
          /\ flushRequested' = (flushRequested \/ Len(queuedFiles') >= flushAt)
       \/ /\ queuedFiles' = kept
          /\ onDisk' = onDisk \ lost
          /\ settled' = settled \cup lost \cup {made'}
          /\ UNCHANGED flushRequested
    /\ UNCHANGED <<stopRequested, clock, worker, final, flush, lastPost>>

----------------------------------------------------------------------------
(* workerLoop.                                                             *)

\* The flush interval is over.
interval ==
    /\ worker \notin {"ended", "cleaned"} /\ ~due /\ due' = TRUE
    /\ UNCHANGED <<queuedFiles, onDisk, requested, paused, worker, final, flush, record>>

pauseOver ==
    /\ paused /\ paused' = FALSE
    /\ UNCHANGED <<queuedFiles, onDisk, requested, due, worker, final, flush, record>>

\* The wait is over for a stop, which flushes once more.
wakeUpToStop ==
    /\ worker = "wait" /\ stopRequested
    /\ worker' = "take" /\ final' = TRUE
    /\ UNCHANGED <<queuedFiles, onDisk, requested, clock, flush, record>>

\* Mutant: a stop is taken for a request to flush.
wakeUpAlways ==
    /\ worker = "wait" /\ (stopRequested \/ flushRequested \/ due)
    /\ worker' = IF paused THEN "wait" ELSE "take"
    /\ flushRequested' = FALSE /\ due' = FALSE
    /\ UNCHANGED <<queuedFiles, onDisk, stopRequested, paused, final, flush, record>>

\* ... or for a flush, which is put off while uploads are paused.
wakeUp ==
    /\ worker = "wait" /\ ~stopRequested /\ (flushRequested \/ due)
    /\ worker' = IF paused THEN "wait" ELSE "take"
    /\ flushRequested' = FALSE /\ due' = FALSE
    /\ UNCHANGED <<queuedFiles, onDisk, stopRequested, paused, final, flush, record>>

----------------------------------------------------------------------------
(* flushOneBatch.                                                          *)

\* The flush is over: its local variables end with it.
LeaveFlush ==
    /\ worker' = IF final THEN "ended" ELSE "wait"
    /\ batchFiles' = <<>> /\ reading' = 1 /\ invalidFiles' = {} /\ events' = <<>>
    /\ index' = 1 /\ deletableFiles' = {} /\ shouldRetry' = FALSE

\* Under the mutex: the names of the batch.
takeBatch ==
    /\ worker = "take"
    /\ IF queuedFiles = <<>> THEN LeaveFlush
       ELSE /\ worker' = "read"
            /\ batchFiles' = SubSeq(queuedFiles, 1, Min({Len(queuedFiles), maxBatchSize}))
            /\ UNCHANGED <<reading, invalidFiles, events, index, deletableFiles, shouldRetry>>
    /\ UNCHANGED <<queuedFiles, onDisk, requested, clock, final, record>>

\* Without it: a file may be gone, or be unreadable.
readFile ==
    /\ worker = "read" /\ reading <= Len(batchFiles)
    /\ LET f == batchFiles[reading] IN
        \/ f \in onDisk /\ events' = Append(events, f) /\ UNCHANGED invalidFiles
        \/ invalidFiles' = invalidFiles \cup {f} /\ UNCHANGED events
    /\ reading' = reading + 1
    /\ UNCHANGED <<queuedFiles, onDisk, requested, clock, worker, final, batchFiles, index,
                   deletableFiles, shouldRetry, record>>

deleteFilesLocked(files) ==
    /\ queuedFiles' = Without(queuedFiles, files)
    /\ onDisk' = onDisk \ files

\* Mutant: the invalid files stay in the batch, next to whose events they are.
RemainingWithInvalid == batchFiles

\* batchFiles.erase: the files whose contents are in events.
Remaining == Without(batchFiles, invalidFiles)

removeInvalid ==
    /\ worker = "read" /\ reading > Len(batchFiles)
    /\ deleteFilesLocked(invalidFiles)
    /\ settled' = settled \cup invalidFiles
    /\ IF events = <<>> THEN LeaveFlush
       ELSE /\ worker' = "post" /\ batchFiles' = Remaining
            /\ UNCHANGED <<reading, invalidFiles, events, index, deletableFiles, shouldRetry>>
    /\ UNCHANGED <<requested, clock, final, made, lastPost>>

\* The server's answer is final (accepted, or refused for good), or asks for
\* another try, as no answer and an exception do.
postEvent(answer) ==
    /\ worker = "post"
    /\ lastPost' = <<events[index], answer>>
    /\ \/ /\ answer = "final"
          /\ deletableFiles' = deletableFiles \cup {batchFiles[index]}
          /\ settled' = settled \cup {events[index]}
          /\ index' = index + 1
          /\ worker' = IF index = Len(events) THEN "finish" ELSE "post"
          /\ UNCHANGED shouldRetry
       \/ /\ answer = "retry"
          /\ shouldRetry' = TRUE /\ worker' = "finish"
          /\ UNCHANGED <<deletableFiles, settled, index>>
    /\ UNCHANGED <<queuedFiles, onDisk, requested, clock, final, batchFiles, reading,
                   invalidFiles, events, made>>

\* Mutant: as many events as were posted are taken from the front.
finishByCount ==
    /\ worker = "finish"
    /\ LET n == Min({Len(queuedFiles), Cardinality(deletableFiles)}) IN
         deleteFilesLocked({queuedFiles[i] : i \in 1 .. n})
    /\ paused' = shouldRetry
    /\ LeaveFlush
    /\ UNCHANGED <<requested, due, final, record>>

\* Under the mutex again: delete what was answered, by name, for others may
\* have dropped some of it; without a retry that is the whole batch.
finish ==
    /\ worker = "finish"
    /\ deleteFilesLocked(IF shouldRetry THEN deletableFiles ELSE ToSet(batchFiles))
    /\ paused' = shouldRetry
    /\ LeaveFlush
    /\ UNCHANGED <<requested, due, final, record>>

----------------------------------------------------------------------------
(* The destructor, at the end of the program.                              *)

requestStop ==
    /\ ~stopRequested
    /\ stopRequested' = TRUE /\ flushRequested' = TRUE
    /\ UNCHANGED <<queuedFiles, onDisk, clock, worker, final, flush, record>>

\* After the join.
cleanupRunDirectory ==
    /\ worker = "ended"
    /\ worker' = "cleaned" /\ onDisk' = {}
    /\ UNCHANGED <<queuedFiles, requested, clock, final, flush, record>>

Worker == \/ wakeUpToStop \/ wakeUp \/ takeBatch \/ readFile \/ removeInvalid \/ finish
          \/ \E answer \in {"final", "retry"} : postEvent(answer)

QueueNext ==
    \/ event \/ interval \/ pauseOver
    \/ Worker
    \/ requestStop \/ cleanupRunDirectory

QueueSpec == QueueInit /\ [][QueueNext]_queueVars

----------------------------------------------------------------------------
(* Properties.                                                             *)

\* No event vanishes: one that was sent is queued and on disk, or was answered
\* for good, or was given up (Telemetry.cpp:508-535, 700-714, 754-768).
EventsAreKept ==
    /\ worker # "cleaned" => onDisk = ToSet(queuedFiles)
    /\ 1 .. made \subseteq ToSet(queuedFiles) \cup settled

\* Events are posted in the order they were sent, and one again only if its
\* answer asked for it: not one that the batch had posted before it was left
\* for a retry, and none that was dropped meanwhile (Telemetry.cpp:748-770).
PostedInOrder ==
    [][\/ lastPost' = lastPost
       \/ lastPost[1] < lastPost'[1]
       \/ lastPost = <<lastPost'[1], "retry">>]_lastPost

\* If the server goes on answering for good, no event stays in the queue until
\* the end of the program, and the destructor's join returns: a flush that a
\* pause put off is not forgotten (Telemetry.cpp:453-463, 603-639).
UploadsGoOn ==
    /\ \A e \in 1 .. MaxEvents :
         e \in ToSet(queuedFiles) ~> e \notin ToSet(queuedFiles) \/ stopRequested
    /\ stopRequested ~> worker = "cleaned"

=============================================================================

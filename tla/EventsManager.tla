--------------------------- MODULE EventsManager ---------------------------
(***************************************************************************)
(* The events manager uploads events and snaps (an event with files) from  *)
(* one thread of its own.  A snap goes from snapBuffer to a batch with a    *)
(* thread of its own, whose groups (one per snap) have threads too, and    *)
(* from there, its files uploaded, to eventBuffer; events start there.     *)
(*                                                                         *)
(* An event or a snap is a model value, a request to the server a choice   *)
(* of answers.  A thread that evaluates a wait's predicate, and is about   *)
(* to sleep, is "armed": a notification sent without the mutex misses it.  *)
(* Left out: the values of the limits, names (two snaps never share a      *)
(* directory), snaps that an earlier process left in the cache.  The files *)
(* of one group succeed or fail together, and a group that runs has moved  *)
(* them.  Bound: a snap is read from the cache once.                       *)
(***************************************************************************)
EXTENDS Integers, Sequences, SequencesExt

CONSTANTS
    Events, Snaps,        \* what the program sends, each once
    Waiters,              \* threads that call waitForPendingUploads
    TimedWaiters,         \* those with a timeout
    Caching,              \* stands for setCacheIfCannotSend(true)
    Programs,             \* sets of items and waiters, and Caching: one program each
    maxGroupsPerBatch, eventsPerRequest,
    maxAttempts,          \* of uploadRetryPolicy
    EVENT_BUFFER_MAX_SIZE

ASSUME EventsAssumption ==
    /\ Events \cap Snaps = {}
    /\ TimedWaiters \subseteq Waiters
    /\ Programs \subseteq SUBSET (Events \cup Snaps \cup Waiters \cup {Caching})
    /\ {maxGroupsPerBatch, eventsPerRequest, maxAttempts, EVENT_BUFFER_MAX_SIZE}
           \subseteq Nat \ {0}

VARIABLES
    alive,                  \* no thread has dereferenced a null pointer
    cacheIfCannotSend,
    stopUploadThread, configurationLimitsFetched, connectionEstablished,
    waitingForPendingUploads, pendingUploadsFinished,
    snapBuffer, eventBuffer,
    uploadFileBatchFutures, \* the batches, finished and erased ones too, in order
    cache,                  \* state of each snap's directory
    pc,                     \* where the upload thread is
    eventBatch,             \* events of the request under way
    uploadFinished,         \* the upload thread's local
    wpc,                    \* where each waiter is
    told,                   \* history: callbacks called for each item
    fate,                   \* history: what became of each item
    reloaded,               \* history: snaps read from the cache
    before                  \* history: items sent before each wait

limits == <<alive, cacheIfCannotSend, stopUploadThread, configurationLimitsFetched>>
flags == <<connectionEstablished, waitingForPendingUploads, pendingUploadsFinished>>
buffers == <<snapBuffer, eventBuffer, uploadFileBatchFutures, cache>>
thread == <<pc, eventBatch, uploadFinished>>
waits == <<wpc, before>>
history == <<told, fate, reloaded>>
vars == <<limits, flags, buffers, thread, waits, history>>

Items == Events \cup Snaps

Init ==
    /\ alive = TRUE
    /\ stopUploadThread = FALSE
    /\ configurationLimitsFetched = FALSE
    /\ connectionEstablished = FALSE
    /\ waitingForPendingUploads = FALSE
    /\ pendingUploadsFinished = FALSE
    /\ snapBuffer = <<>>
    /\ eventBuffer = <<>>
    /\ uploadFileBatchFutures = <<>>
    /\ cache = [s \in Snaps |-> "none"]
    /\ pc = "limits"
    /\ eventBatch = <<>>
    /\ uploadFinished = FALSE
    /\ told = [i \in Items |-> "nothing"]
    /\ \E program \in Programs :
          /\ fate = [i \in Items |-> IF i \in program THEN "unsent" ELSE "never"]
          /\ cacheIfCannotSend = (Caching \in program)
          /\ wpc = [w \in Waiters |-> IF w \in program THEN "idle" ELSE "never"]
    /\ reloaded = {}
    /\ before = [w \in Waiters |-> {}]

----------------------------------------------------------------------------
(* The callers' threads.                                                   *)

\* uploadEventBatch holds eventBufferMutex for ever once it calls cacheEvents,
\* which locks it again.
EventBufferFree == pc # "stuck"

sendEvent(e) ==
    /\ configurationLimitsFetched
    /\ EventBufferFree
    /\ fate[e] = "unsent"
    /\ eventBuffer' = Append(eventBuffer, e)
    /\ fate' = [fate EXCEPT ![e] = "pending"]
    /\ UNCHANGED <<limits, flags, snapBuffer, uploadFileBatchFutures, cache, thread,
                   waits, told, reloaded>>

sendSnap(s) ==
    /\ configurationLimitsFetched
    /\ fate[s] = "unsent"
    /\ snapBuffer' = Append(snapBuffer, s)
    /\ fate' = [fate EXCEPT ![s] = "pending"]
    /\ UNCHANGED <<limits, flags, eventBuffer, uploadFileBatchFutures, cache, thread,
                   waits, told, reloaded>>

\* The destructor, up to its join of the upload thread.
stop ==
    /\ ~stopUploadThread
    /\ stopUploadThread' = TRUE
    /\ wpc' = [w \in Waiters |-> IF wpc[w] = "parked" THEN "woken" ELSE wpc[w]]
    /\ UNCHANGED <<alive, cacheIfCannotSend, configurationLimitsFetched, flags, buffers,
                   thread, before, history>>

Batches == ToSet(uploadFileBatchFutures)

\* Mutant: the batches are not asked.
checkBuffers == snapBuffer = <<>> /\ eventBuffer = <<>>

checkPendingUploadsFinished ==
    /\ snapBuffer = <<>>
    /\ \A b \in Batches : b.phase = "done"
    /\ eventBuffer = <<>>

\* pendingUploadsMutex is held from the test of the predicate to the sleep.
PendingMutexFree == \A w \in Waiters : wpc[w] # "armed"

MayLeave == pendingUploadsFinished \/ ~connectionEstablished \/ stopUploadThread

\* A waiter's first check, with the buffers' mutexes and without its own.
waitForPendingUploads(w) ==
    /\ wpc[w] = "idle"
    /\ EventBufferFree
    /\ before' = [before EXCEPT ![w] = {i \in Items : fate[i] = "pending"}]
    /\ wpc' = [wpc EXCEPT ![w] = IF checkPendingUploadsFinished THEN "finished" ELSE "begin"]
    /\ UNCHANGED <<limits, flags, buffers, thread, history>>

\* Mutant: the upload thread is never told that somebody waits.
DecideQuietly(w, leave, waiting) ==
    /\ wpc' = [wpc EXCEPT ![w] = IF leave THEN "recheck" ELSE "armed"]
    /\ UNCHANGED <<waitingForPendingUploads, limits, connectionEstablished, buffers,
                   thread, before, history>>

\* What a thread that holds the mutex does once it evaluated the predicate: to
\* leave is to clear the flag, for all who wait.
Decide(w, leave, waiting) ==
    /\ wpc' = [wpc EXCEPT ![w] = IF leave THEN "recheck" ELSE "armed"]
    /\ waitingForPendingUploads' = (waiting /\ ~leave)
    /\ UNCHANGED <<limits, connectionEstablished, buffers, thread, before, history>>

\* The result of the first check is stored; the wait begins unless it was
\* positive, and ends at once when the connection is down.  Only here the flag
\* is set.
waitBegins(w) ==
    /\ wpc[w] = "begin"
    /\ PendingMutexFree
    /\ pendingUploadsFinished' = FALSE
    /\ Decide(w, ~connectionEstablished \/ stopUploadThread, TRUE)

waitNotNeeded(w) ==
    /\ wpc[w] = "finished"
    /\ PendingMutexFree
    /\ pendingUploadsFinished' = TRUE
    /\ wpc' = [wpc EXCEPT ![w] = "true"]
    /\ UNCHANGED <<limits, connectionEstablished, waitingForPendingUploads, buffers,
                   thread, before, history>>

\* A notified waiter evaluates the predicate again; one that timed out leaves.
wakes(w) ==
    /\ PendingMutexFree
    /\ \/ wpc[w] = "woken" /\ Decide(w, MayLeave, waitingForPendingUploads)
       \/ wpc[w] = "parked" /\ w \in TimedWaiters /\ Decide(w, TRUE, waitingForPendingUploads)
    /\ UNCHANGED pendingUploadsFinished

park(w) ==
    /\ wpc[w] = "armed"
    /\ wpc' = [wpc EXCEPT ![w] = "parked"]
    /\ UNCHANGED <<limits, flags, buffers, thread, before, history>>

\* What a wait returns, after it released its mutex.
waitReturns(w) ==
    /\ wpc[w] = "recheck"
    /\ EventBufferFree
    /\ wpc' = [wpc EXCEPT ![w] = IF checkPendingUploadsFinished THEN "true" ELSE "idle"]
    /\ before' = IF checkPendingUploadsFinished THEN before ELSE [before EXCEPT ![w] = {}]
    /\ UNCHANGED <<limits, flags, buffers, thread, history>>

\* The thread may wait again.
waitsAgain(w) ==
    /\ wpc[w] = "true"
    /\ wpc' = [wpc EXCEPT ![w] = "idle"]
    /\ before' = [before EXCEPT ![w] = {}]
    /\ UNCHANGED <<limits, flags, buffers, thread, history>>

----------------------------------------------------------------------------
(* What callbacks are called, and what becomes of the items.               *)

\* Callbacks do not survive the cache.
Tell(told0, is, what) ==
    [i \in Items |-> IF i \in is \ reloaded
                     THEN IF told0[i] = "nothing" THEN what ELSE "twice"
                     ELSE told0[i]]

\* The fate of those of the items that are still pending.
Meets(fate0, is, what) ==
    [i \in Items |-> IF i \in is /\ fate0[i] = "pending" THEN what ELSE fate0[i]]

----------------------------------------------------------------------------
(* A batch of snaps: its thread, and the threads of its groups.            *)

NewBatch(snaps) == [snaps |-> snaps, phase |-> "prepare", attempt |-> 0,
                    group |-> [s \in ToSet(snaps) |-> "whole"], left |-> snaps]

\* What is left of a batch whose thread ended, and of its future once erased.
NoBatch == [snaps |-> <<>>, phase |-> "done", attempt |-> 0, group |-> <<>>, left |-> <<>>]

BatchOver(k, b) == uploadFileBatchFutures' = [uploadFileBatchFutures EXCEPT ![k] = b]

batchUnchanged == <<limits, flags, thread, waits>>

\* The batch is cached, when that is on, or dropped.
GiveUp(k, b) ==
    LET lost == {s \in ToSet(b.snaps) : b.group[s] \in {"whole", "failed"}} IN
    IF cacheIfCannotSend
    THEN /\ BatchOver(k, [b EXCEPT !.phase = "cache", !.attempt = 0])
         /\ fate' = fate
    ELSE /\ BatchOver(k, [b EXCEPT !.phase = "wind", !.attempt = 0])
         /\ fate' = Meets(fate, lost, "dropped")

\* The request that prepares a batch fails; maxAttempts failures end it.
prepareFails(k) ==
    LET b == [uploadFileBatchFutures[k] EXCEPT !.attempt = @ + 1] IN
    /\ b.phase = "prepare"
    /\ ~stopUploadThread
    /\ IF b.attempt >= maxAttempts
       THEN GiveUp(k, b) /\ told' = Tell(told, ToSet(b.snaps), "failure")
       ELSE BatchOver(k, b) /\ UNCHANGED <<told, fate>>
    /\ UNCHANGED <<snapBuffer, eventBuffer, cache, reloaded, batchUnchanged>>

\* Stop ends the attempts, and nobody is told.
prepareStops(k) ==
    LET b == uploadFileBatchFutures[k] IN
    /\ b.phase = "prepare"
    /\ stopUploadThread
    /\ BatchOver(k, NoBatch)
    /\ fate' = Meets(fate, ToSet(b.snaps), "abandoned")
    /\ UNCHANGED <<snapBuffer, eventBuffer, cache, told, reloaded, batchUnchanged>>

\* The server rejects some groups and takes the others, whose threads start:
\* their files are moved out of the snap.
prepareSucceeds(k) ==
    LET b == uploadFileBatchFutures[k] IN
    /\ b.phase = "prepare"
    /\ ~stopUploadThread
    /\ \E rejected \in SUBSET ToSet(b.snaps) :
        /\ BatchOver(k, [b EXCEPT !.phase = "upload", !.attempt = 0,
                                  !.group = [s \in ToSet(b.snaps) |->
                                      IF s \in rejected THEN "rejected" ELSE "running"]])
        /\ told' = Tell(told, rejected, "failure")
        /\ fate' = Meets(fate, rejected, "rejected")
    /\ UNCHANGED <<snapBuffer, eventBuffer, cache, reloaded, batchUnchanged>>

\* Mutant: the newest event goes first.
groupUploadsFirst(k, s) ==
    LET b == uploadFileBatchFutures[k] IN
    /\ b.phase \in {"upload", "wind"} /\ b.group[s] = "running" /\ EventBufferFree
    /\ eventBuffer' = <<s>> \o eventBuffer
    /\ BatchOver(k, [b EXCEPT !.group[s] = "uploaded"])
    /\ UNCHANGED <<snapBuffer, cache, history, batchUnchanged>>

\* All files are uploaded: the event moves to eventBuffer.
groupUploads(k, s) ==
    LET b == uploadFileBatchFutures[k] IN
    /\ b.phase \in {"upload", "wind"}
    /\ b.group[s] = "running"
    /\ EventBufferFree
    /\ eventBuffer' = Append(eventBuffer, s)
    /\ BatchOver(k, [b EXCEPT !.group[s] = "uploaded"])
    /\ UNCHANGED <<snapBuffer, cache, history, batchUnchanged>>

\* The server refuses the first file, and no file has been moved yet; or a
\* later file fails maxAttempts times or stop ends its attempts.
groupFails(k, s) ==
    LET b == uploadFileBatchFutures[k] IN
    /\ b.phase \in {"upload", "wind"}
    /\ b.group[s] = "running"
    /\ \E how \in {"whole", "failed"} :
        /\ BatchOver(k, [b EXCEPT !.group[s] = how])
        /\ fate' = IF b.phase = "wind" THEN Meets(fate, {s}, "dropped") ELSE fate
    /\ told' = Tell(told, {s}, "failure")
    /\ UNCHANGED <<snapBuffer, eventBuffer, cache, reloaded, batchUnchanged>>

\* The groups' results are awaited in order, up to the first failure.
batchFails(k) ==
    LET b == uploadFileBatchFutures[k] IN
    /\ b.phase = "upload"
    /\ \E j \in DOMAIN b.snaps :
        /\ b.group[b.snaps[j]] \in {"whole", "failed"}
        /\ \A i \in 1 .. j - 1 : b.group[b.snaps[i]] \in {"uploaded", "rejected"}
    /\ GiveUp(k, b)
    /\ UNCHANGED <<snapBuffer, eventBuffer, cache, told, reloaded, batchUnchanged>>

\* The batch ends when all its groups did: a future's destructor waits too.
batchEnds(k) ==
    LET b == uploadFileBatchFutures[k] IN
    /\ \/ /\ b.phase = "upload"
          /\ \A s \in ToSet(b.snaps) : b.group[s] \in {"uploaded", "rejected"}
       \/ /\ b.phase = "wind"
          /\ \A s \in ToSet(b.snaps) : b.group[s] # "running"
    /\ BatchOver(k, NoBatch)
    /\ UNCHANGED <<snapBuffer, eventBuffer, cache, history, batchUnchanged>>

----------------------------------------------------------------------------
(* The cache.  No mutex guards its directory.                              *)

\* cacheSnapData dereferences what a group moved away: the files of one that
\* started, the event of one that was uploaded.
cacheDies(k) ==
    LET b == uploadFileBatchFutures[k] IN
    /\ b.phase = "cache"
    /\ b.left # <<>>
    /\ b.group[Head(b.left)] \in {"running", "uploaded", "failed"}
    /\ alive' = FALSE
    /\ UNCHANGED <<cacheIfCannotSend, stopUploadThread, configurationLimitsFetched, flags,
                   buffers, thread, waits, history>>

\* A directory for the next snap.
cacheBegins(k) ==
    LET b == uploadFileBatchFutures[k] IN
    /\ b.phase = "cache"
    /\ b.left # <<>>
    /\ b.group[Head(b.left)] \in {"whole", "rejected"}
    /\ cache' = [cache EXCEPT ![Head(b.left)] = "partial"]
    /\ BatchOver(k, [b EXCEPT !.phase = "writing"])
    /\ UNCHANGED <<snapBuffer, eventBuffer, history, batchUnchanged>>

\* Its files.  When the directory has been removed nothing is written, which
\* nobody notices.
cacheWrites(k) ==
    LET b == uploadFileBatchFutures[k]
        s == Head(b.left) IN
    /\ b.phase = "writing"
    /\ \/ /\ cache[s] = "partial"
          /\ cache' = [cache EXCEPT ![s] = "whole"]
          /\ fate' = Meets(fate, {s}, "cached")
       \/ cache[s] # "partial" /\ UNCHANGED <<cache, fate>>
    /\ BatchOver(k, IF Len(b.left) = 1 THEN NoBatch
                    ELSE [b EXCEPT !.phase = "cache", !.left = Tail(@)])
    /\ UNCHANGED <<snapBuffer, eventBuffer, told, reloaded, batchUnchanged>>

----------------------------------------------------------------------------
(* The upload thread.                                                      *)

Goto(label) == pc' = label

\* fetchConfigurationLimits(true): tried until it succeeds, unless there is no
\* token or stop comes first.
limitsFetched ==
    /\ pc = "limits"
    /\ \/ /\ ~stopUploadThread
          /\ configurationLimitsFetched' = TRUE
          /\ Goto("fetch")
       \/ /\ UNCHANGED configurationLimitsFetched
          /\ Goto("ended")
    /\ UNCHANGED <<alive, cacheIfCannotSend, stopUploadThread, flags, buffers, eventBatch,
                   uploadFinished, waits, history>>

\* Mutant: the loop does not look at stop.
fetchUnstoppable ==
    /\ pc = "fetch"
    /\ \E ok \in BOOLEAN :
          /\ connectionEstablished' = ok
          /\ Goto(IF ok THEN "cached" ELSE "take")
    /\ UNCHANGED <<limits, waitingForPendingUploads, pendingUploadsFinished, buffers,
                   eventBatch, uploadFinished, waits, history>>

\* The end of the sleep of publishInterval, or stop, and fetchConfigurationLimits(false).
fetchConfigurationLimits ==
    /\ pc = "fetch"
    /\ \/ /\ stopUploadThread
          /\ Goto("ended")
          /\ UNCHANGED connectionEstablished
       \/ /\ ~stopUploadThread
          /\ \E ok \in BOOLEAN :
                /\ connectionEstablished' = ok
                /\ Goto(IF ok THEN "cached" ELSE "take")
    /\ UNCHANGED <<limits, waitingForPendingUploads, pendingUploadsFinished, buffers,
                   eventBatch, uploadFinished, waits, history>>

\* One directory of the cache becomes a snap again, without its callbacks, and
\* is removed.  One that is still being written yields what there is, which is
\* not the snap that was sent: its event is written out last.
uploadCachedSnaps(s) ==
    /\ pc = "cached"
    /\ cache[s] # "none"
    /\ s \notin reloaded
    /\ Len(snapBuffer) < maxGroupsPerBatch
    /\ snapBuffer' = Append(snapBuffer, s)
    /\ cache' = [cache EXCEPT ![s] = "none"]
    /\ reloaded' = reloaded \cup {s}
    /\ fate' = IF cache[s] = "partial" THEN Meets(fate, {s}, "lost") ELSE fate
    /\ UNCHANGED <<limits, flags, eventBuffer, uploadFileBatchFutures, thread, waits, told>>

cachedSnapsDone ==
    /\ pc = "cached"
    /\ \/ \A s \in Snaps \ reloaded : cache[s] # "whole"
       \/ Len(snapBuffer) >= maxGroupsPerBatch
    /\ Goto("take")
    /\ UNCHANGED <<limits, flags, buffers, eventBatch, uploadFinished, waits, history>>

Least(m, n) == IF m < n THEN m ELSE n

\* Mutant: a batch is taken before its future is there to be asked.
takeLater ==
    /\ pc = "take"
    /\ LET n == Least(Len(snapBuffer), maxGroupsPerBatch) IN
        /\ snapBuffer' = SubSeq(snapBuffer, n + 1, Len(snapBuffer))
        /\ UNCHANGED uploadFileBatchFutures
    /\ Goto("events")
    /\ UNCHANGED <<limits, flags, eventBuffer, cache, eventBatch, uploadFinished, waits, history>>

\* The oldest snaps become a batch, and its thread starts, under the mutexes
\* of both; then the futures that are ready are erased: NoBatch stands for
\* these and for the erased ones, which nobody can tell apart.
takeBatch ==
    /\ pc = "take"
    /\ LET n == Least(Len(snapBuffer), maxGroupsPerBatch)
           batch == NewBatch(SubSeq(snapBuffer, 1, n)) IN
        /\ snapBuffer' = SubSeq(snapBuffer, n + 1, Len(snapBuffer))
        /\ uploadFileBatchFutures' = IF n = 0 THEN uploadFileBatchFutures
                                     ELSE Append(uploadFileBatchFutures, batch)
    /\ Goto("events")
    /\ UNCHANGED <<limits, flags, eventBuffer, cache, eventBatch, uploadFinished, waits, history>>

\* uploadEventBatch: the oldest events are copied into a request.  No event is
\* ever in the cache, because cacheEvents, which would put it there, blocks.
readEvents ==
    /\ pc = "events"
    /\ eventBatch' = SubSeq(eventBuffer, 1, Least(Len(eventBuffer), eventsPerRequest))
    /\ Goto(IF eventBuffer = <<>> THEN "check" ELSE "post")
    /\ UNCHANGED <<limits, flags, buffers, uploadFinished, waits, history>>

\* The request fails, or its answer is lost.  A full buffer is given up:
\* dropped, or cached by a call that never returns.
postFails ==
    /\ pc = "post"
    /\ IF Len(eventBuffer) < EVENT_BUFFER_MAX_SIZE
       THEN UNCHANGED <<eventBuffer, told, fate>> /\ Goto("check")
       ELSE /\ told' = Tell(told, ToSet(eventBuffer), "failure")
            /\ IF cacheIfCannotSend
               THEN UNCHANGED <<eventBuffer, fate>> /\ Goto("stuck")
               ELSE /\ eventBuffer' = <<>>
                    /\ fate' = Meets(fate, ToSet(eventBuffer), "dropped")
                    /\ Goto("check")
    /\ eventBatch' = <<>>
    /\ UNCHANGED <<limits, flags, snapBuffer, uploadFileBatchFutures, cache, uploadFinished,
                   waits, reloaded>>

\* The answer names, by position, the events that are accepted; the callbacks
\* are looked up in eventBuffer at the same positions.
postSucceeds ==
    /\ pc = "post"
    /\ \E accepted \in SUBSET DOMAIN eventBatch :
        LET yes == {eventBuffer[j] : j \in accepted}
            no == {eventBuffer[j] : j \in DOMAIN eventBatch \ accepted} IN
        /\ told' = Tell(Tell(told, yes, "success"), no, "failure")
        /\ fate' = Meets(Meets(fate, {eventBatch[j] : j \in accepted}, "accepted"),
                         ToSet(eventBatch), "rejected")
    /\ eventBuffer' = SubSeq(eventBuffer, Len(eventBatch) + 1, Len(eventBuffer))
    /\ Goto("check")
    /\ eventBatch' = <<>>
    /\ UNCHANGED <<limits, flags, snapBuffer, uploadFileBatchFutures, cache, uploadFinished,
                   waits, reloaded>>

\* Whoever waits is told whether all is uploaded, or that the connection is down.
checkUploads ==
    /\ pc = "check"
    /\ uploadFinished' = (waitingForPendingUploads /\ checkPendingUploadsFinished)
    /\ Goto(IF waitingForPendingUploads THEN "publish" ELSE "fetch")
    /\ UNCHANGED <<limits, flags, buffers, eventBatch, waits, history>>

publish ==
    /\ pc = "publish"
    /\ PendingMutexFree
    /\ pendingUploadsFinished' = uploadFinished
    /\ Goto(IF uploadFinished \/ ~connectionEstablished THEN "notify" ELSE "fetch")
    /\ UNCHANGED <<limits, connectionEstablished, waitingForPendingUploads, buffers,
                   eventBatch, uploadFinished, waits, history>>

notify ==
    /\ pc = "notify"
    /\ wpc' = [w \in Waiters |-> IF wpc[w] = "parked" THEN "woken" ELSE wpc[w]]
    /\ Goto("fetch")
    /\ UNCHANGED <<limits, flags, buffers, eventBatch, uploadFinished, before, history>>

----------------------------------------------------------------------------
BatchStep(k) ==
    \/ prepareFails(k) \/ prepareStops(k) \/ prepareSucceeds(k)
    \/ \E s \in Snaps : /\ s \in DOMAIN uploadFileBatchFutures[k].group
                        /\ groupUploads(k, s) \/ groupFails(k, s)
    \/ batchFails(k) \/ batchEnds(k)
    \/ cacheDies(k) \/ cacheBegins(k) \/ cacheWrites(k)

UploadThread ==
    \/ limitsFetched \/ fetchConfigurationLimits
    \/ (\E s \in Snaps : uploadCachedSnaps(s)) \/ cachedSnapsDone
    \/ takeBatch
    \/ readEvents \/ postFails \/ postSucceeds
    \/ checkUploads \/ publish \/ notify

WaiterStep(w) ==
    \/ waitBegins(w) \/ waitNotNeeded(w) \/ park(w) \/ wakes(w) \/ waitReturns(w)

Next ==
    /\ alive
    /\ \/ \E e \in Events : sendEvent(e)
       \/ \E s \in Snaps : sendSnap(s)
       \/ stop
       \/ \E w \in Waiters : waitForPendingUploads(w) \/ WaiterStep(w) \/ waitsAgain(w)
       \/ \E k \in DOMAIN uploadFileBatchFutures : BatchStep(k)
       \/ UploadThread

Spec == Init /\ [][Next]_vars

\* Every thread that has begun goes on; requests are answered or time out.
\* One conjunct does for all batches: their steps are finitely many, so none
\* can be passed over for ever.
FairSpec ==
    /\ Spec
    /\ WF_vars(alive /\ UploadThread)
    /\ WF_vars(alive /\ \E k \in DOMAIN uploadFileBatchFutures : BatchStep(k))
    /\ \A w \in Waiters : WF_vars(alive /\ WaiterStep(w))

----------------------------------------------------------------------------
(* Properties.                                                             *)

\* Where an item is while the program is still concerned with it.
InBatch(i) == \E b \in Batches : i \in ToSet(b.snaps)
OnItsWay(i) == i \in ToSet(snapBuffer) \/ i \in ToSet(eventBuffer) \/ InBatch(i)

\* What has not met its fate is in a buffer or a batch.  What is counted as
\* cached is in the cache, whole, until it is read back; only a directory that
\* was read before it was complete costs a snap.
PendingHeld == \A i \in Items : fate[i] = "pending" => OnItsWay(i)
CachedHeld ==
    \A s \in Snaps :
        /\ fate[s] = "cached" /\ s \notin reloaded => cache[s] = "whole"
        /\ fate[s] = "lost" => s \in reloaded

\* Whatever sendEvent or sendSnap took is on its way until it met its fate: no
\* hand-over between the two buffers, the batches and the cache's directories
\* loses it unnoticed.  (What was read back is not followed further.)
NothingVanishes == PendingHeld /\ CachedHeld

\* What setCacheIfCannotSend promises of the snaps that get as far as the
\* cache: that they are in it (EventsManager.hpp:170).  The code does not
\* satisfy it: the upload thread may read and remove a directory that a batch is
\* still writing (EventsManager.cpp:1103-1127 between the lines 1049 and 1054).
CachedSnapsSurvive ==
    \A s \in Snaps : fate[s] # "lost"

\* A wait that returns true was called after nothing that is still on its way:
\* the three containers are looked at as one.
TrueMeansSettled ==
    \A w \in Waiters : wpc[w] = "true" => \A i \in before[w] : fate[i] # "pending"

\* A snap's callbacks are called once, and the one for success if and only if
\* the server accepted the snap and it was never in the cache: the answer to a
\* request is matched, by position, with a buffer that was unlocked since.
OneRightAnswer ==
    \A i \in Items :
        /\ told[i] # "twice"
        /\ told[i] = "success" => fate[i] = "accepted"
        /\ fate[i] = "accepted" => told[i] = "success" \/ i \in reloaded

\* A thread sleeps while everything is settled, or while the connection is down.
SleepsOn(w) ==
    /\ alive
    /\ ~stopUploadThread
    /\ wpc[w] = "parked"
    /\ checkPendingUploadsFinished \/ ~connectionEstablished

\* waitForPendingUploads promises to wait until uploads are finished or the
\* connection is dropped: nobody sleeps for ever after that.
EveryWaitEnds == \A w \in Waiters : ~ <>[]SleepsOn(w)

\* That is so for a thread that waits alone.  Of several, the one that leaves
\* first clears the flag for all.
Alone(w) == \A v \in Waiters \ {w} : wpc[v] = "never"
WaitEnds == \A w \in Waiters : ~ <>[](Alone(w) /\ SleepsOn(w))

\* The destructor's join returns, and so do the batches, unless the cache has
\* killed the process or blocked the thread.
StopEnds ==
    stopUploadThread ~> \/ ~alive
                        \/ pc = "stuck" /\ cacheIfCannotSend
                        \/ pc = "ended" /\ \A b \in Batches : b.phase = "done"

\* What setCacheIfCannotSend promises: while a snap whose upload failed waits
\* to be cached, the process lives to do it.
FailedSnapsAreCached ==
    \A s \in Snaps :
        cacheIfCannotSend /\ told[s] = "failure" /\ fate[s] = "pending" => alive

=============================================================================

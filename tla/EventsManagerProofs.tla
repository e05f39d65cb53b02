------------------------ MODULE EventsManagerProofs ------------------------
(***************************************************************************)
(* What is proved of the events manager, for any events, snaps, waiters,   *)
(* programs and limits: nothing that was sent vanishes before it met its   *)
(* fate, nobody is answered twice or wrongly, and a wait that returns true *)
(* waited for all that was sent before it.                                 *)
(*                                                                         *)
(* An item goes from place to place: snapBuffer, a batch, eventBuffer.     *)
(* What is pending is in one of them (Held), and, unless it was read from  *)
(* the cache, in just one where somebody may still answer for it (Unique). *)
(***************************************************************************)
EXTENDS EventsManager, SequenceTheorems, TLAPS

Phases == {"prepare", "upload", "wind", "cache", "writing", "done"}
GroupStates == {"whole", "running", "uploaded", "rejected", "failed"}
Groups == UNION {[S -> GroupStates] : S \in SUBSET Snaps}
BatchRecords == [snaps : Seq(Snaps), phase : Phases, attempt : Nat, group : Groups,
                 left : Seq(Snaps)]
Fates == {"unsent", "never", "pending", "accepted", "rejected", "dropped", "abandoned", "cached", "lost"}
Places == {"never", "idle", "begin", "finished", "armed", "parked", "woken", "recheck", "true"}

BuffersTyped ==
    /\ snapBuffer \in Seq(Snaps) /\ eventBuffer \in Seq(Items) /\ eventBatch \in Seq(Items)
    /\ uploadFileBatchFutures \in Seq(BatchRecords)
    /\ \A k \in 1 .. Len(uploadFileBatchFutures) :
          DOMAIN uploadFileBatchFutures[k].group = ToSet(uploadFileBatchFutures[k].snaps)

HistoryTyped ==
    /\ fate \in [Items -> Fates]
    /\ told \in [Items -> {"nothing", "success", "failure", "twice"}]
    /\ reloaded \subseteq Snaps
    /\ before \in [Waiters -> SUBSET Items]

ThreadsTyped ==
    /\ alive \in BOOLEAN /\ cacheIfCannotSend \in BOOLEAN /\ stopUploadThread \in BOOLEAN
    /\ configurationLimitsFetched \in BOOLEAN /\ connectionEstablished \in BOOLEAN
    /\ waitingForPendingUploads \in BOOLEAN /\ pendingUploadsFinished \in BOOLEAN
    /\ uploadFinished \in BOOLEAN
    /\ cache \in [Snaps -> {"none", "partial", "whole"}]
    /\ wpc \in [Waiters -> Places]
    /\ pc \in {"limits", "fetch", "cached", "take", "events", "post", "check", "publish", "notify",
               "stuck", "ended"}

EventsTypeOK == BuffersTyped /\ HistoryTyped /\ ThreadsTyped

\* An item is on its way, or was, only after it was sent.
Known(i) == fate[i] \notin {"unsent", "never"}
Sent ==
    /\ \A i \in Items : OnItsWay(i) => Known(i)
    /\ \A w \in Waiters : \A i \in before[w] : Known(i)
    /\ \A i \in Items : ~Known(i) => told[i] = "nothing"

\* The snaps of a batch that have not met their fate.
Cares(b) ==
    /\ b.phase = "done" => b.snaps = <<>> /\ b.left = <<>>
    /\ b.phase = "prepare" => \A s \in ToSet(b.snaps) : b.group[s] = "whole"
    /\ b.phase \in {"prepare", "upload", "wind"} => ToSet(b.left) = ToSet(b.snaps)
    /\ b.phase \in {"cache", "writing"} => ToSet(b.left) \subseteq ToSet(b.snaps)
    /\ b.phase = "writing" => b.left # <<>> /\ b.group[Head(b.left)] \in {"whole", "rejected"}
    /\ \A s \in ToSet(b.snaps) : fate[s] = "pending" =>
          /\ b.group[s] # "rejected"
          /\ b.group[s] = "uploaded" => s \in ToSet(eventBuffer)
          /\ b.phase = "wind" => b.group[s] \notin {"whole", "failed"}
          /\ b.phase \in {"cache", "writing"} => s \in ToSet(b.left)

Cared == \A k \in 1 .. Len(uploadFileBatchFutures) : Cares(uploadFileBatchFutures[k])

\* The request under way is the beginning of eventBuffer.
Posting ==
    pc = "post" => /\ Len(eventBatch) <= Len(eventBuffer)
                   /\ \A j \in 1 .. Len(eventBatch) : eventBatch[j] = eventBuffer[j]

Settled ==
    \A w \in Waiters : wpc[w] \in {"finished", "true"} => \A i \in before[w] : fate[i] # "pending"

Held == Sent /\ Cared /\ Posting /\ Settled /\ PendingHeld

Once(q, i) == \A m, n \in 1 .. Len(q) : q[m] = i /\ q[n] = i => m = n
Unanswered(i) == fate[i] = "pending" /\ told[i] = "nothing"

\* Somebody in the batch may still answer for the snap, or send it on.
Live(b, s) == b.phase = "prepare" \/ b.group[s] = "running"

\* An item that did not come from the cache is in one place.
UniqueIn(i) ==
    /\ i \in ToSet(snapBuffer) =>
          /\ Unanswered(i) /\ Once(snapBuffer, i) /\ i \notin ToSet(eventBuffer) /\ ~InBatch(i)
    /\ i \in ToSet(eventBuffer) => (pc # "stuck" => Unanswered(i)) /\ Once(eventBuffer, i)
    /\ \A k \in 1 .. Len(uploadFileBatchFutures) :
          LET b == uploadFileBatchFutures[k] IN
          i \in ToSet(b.snaps) =>
              /\ Live(b, i) => Unanswered(i) /\ i \notin ToSet(eventBuffer)
              /\ i \in ToSet(eventBuffer) => b.group[i] = "uploaded"
              /\ \A l \in 1 .. Len(uploadFileBatchFutures) :
                    i \in ToSet(uploadFileBatchFutures[l].snaps) => k = l

Unique == \A i \in Items \ reloaded : UniqueIn(i)

ItemsInv == BuffersTyped /\ HistoryTyped /\ Held /\ Unique /\ OneRightAnswer

\* What is in the cache was sent.
InCache == \A s \in Snaps : cache[s] # "none" => Known(s)

\* The directory that a batch is writing is there, unless its snap is lost.
Writes ==
    \A k \in 1 .. Len(uploadFileBatchFutures) :
        LET b == uploadFileBatchFutures[k] IN
        b.phase = "writing" /\ fate[Head(b.left)] = "pending" => cache[Head(b.left)] = "partial"

\* What a batch has yet to cache, it has not cached.
ToCache ==
    \A k \in 1 .. Len(uploadFileBatchFutures) :
        LET b == uploadFileBatchFutures[k] IN
        \A s \in ToSet(b.left) \ reloaded : fate[s] # "cached" /\ Once(b.left, s)

CacheInv == Writes /\ ToCache /\ CachedHeld

EventsIInv == ThreadsTyped /\ InCache /\ CacheInv /\ ItemsInv

----------------------------------------------------------------------------
(* Sequences as sets.                                                      *)

LEMMA ElementsOf ==
    ASSUME NEW S, NEW q \in Seq(S)
    PROVE  /\ ToSet(q) \subseteq S /\ Len(q) \in Nat /\ DOMAIN q = 1 .. Len(q)
           /\ \A x : x \in ToSet(q) <=> \E i \in 1 .. Len(q) : q[i] = x
           /\ q = <<>> <=> ToSet(q) = {}
<1>1. DOMAIN q = 1 .. Len(q) /\ Len(q) \in Nat /\ \A i \in 1 .. Len(q) : q[i] \in S
  OBVIOUS
<1>2. /\ ToSet(q) \subseteq S
      /\ \A x : x \in ToSet(q) <=> \E i \in 1 .. Len(q) : q[i] = x
  BY <1>1 DEF ToSet
<1>3. q # <<>> => 1 \in 1 .. Len(q)
  BY <1>1
<1>4. q # <<>> => ToSet(q) # {}
  BY <1>2, <1>3
<1>5. q = <<>> => ToSet(q) = {}
  BY DEF ToSet
<1> QED
  BY <1>1, <1>2, <1>4, <1>5

LEMMA NoElements == ToSet(<<>>) = {}
BY DEF ToSet

LEMMA AppendElements ==
    ASSUME NEW S, NEW q \in Seq(S), NEW x \in S
    PROVE  /\ Append(q, x) \in Seq(S) /\ ToSet(Append(q, x)) = ToSet(q) \cup {x}
           /\ \A y : y # x /\ Once(q, y) => Once(Append(q, x), y)
           /\ x \notin ToSet(q) => Once(Append(q, x), x)
<1> DEFINE p == Append(q, x)
<1>1. /\ p \in Seq(S) /\ Len(p) = Len(q) + 1 /\ Len(q) \in Nat /\ p[Len(q) + 1] = x
      /\ \A i \in 1 .. Len(q) : p[i] = q[i]
  OBVIOUS
<1> HIDE DEF p
<1>2. \A i \in 1 .. Len(p) : i \in 1 .. Len(q) \/ i = Len(q) + 1
  BY <1>1
<1>3. 1 .. Len(q) \subseteq 1 .. Len(p) /\ Len(q) + 1 \in 1 .. Len(p)
  BY <1>1
<1>4. \A y : y \in ToSet(p) <=> y \in ToSet(q) \/ y = x
  BY <1>1, <1>2, <1>3, ElementsOf
<1>5. \A y : y # x /\ Once(q, y) => Once(p, y)
  BY <1>1, <1>2 DEF Once
<1>6. x \notin ToSet(q) => Once(p, x)
  BY <1>1, <1>2, ElementsOf DEF Once
<1> QED
  BY <1>1, <1>4, <1>5, <1>6 DEF p

LEMMA TailElements ==
    ASSUME NEW S, NEW q \in Seq(S), q # <<>>
    PROVE  /\ Head(q) \in ToSet(q) /\ Tail(q) \in Seq(S)
           /\ ToSet(Tail(q)) \subseteq ToSet(q)
           /\ \A y \in ToSet(q) : y = Head(q) \/ y \in ToSet(Tail(q))
           /\ Len(q) = 1 => \A y \in ToSet(q) : y = Head(q)
<1>1. /\ Tail(q) \in Seq(S) /\ Len(Tail(q)) = Len(q) - 1 /\ Head(q) = q[1]
      /\ Len(q) \in Nat /\ Len(q) > 0
      /\ \A i \in 1 .. Len(Tail(q)) : i + 1 \in 1 .. Len(q) /\ Tail(q)[i] = q[i + 1]
  OBVIOUS
<1>2. Head(q) \in ToSet(q)
  BY <1>1, ElementsOf
<1>3. ToSet(Tail(q)) \subseteq ToSet(q)
  <2>1. \A x : x \in ToSet(Tail(q)) => \E i \in 1 .. Len(Tail(q)) : Tail(q)[i] = x
    BY <1>1, ElementsOf
  <2>2. \A x : (\E i \in 1 .. Len(q) : q[i] = x) => x \in ToSet(q)
    BY ElementsOf
  <2>3. QED
    BY <1>1, <2>1, <2>2
<1>4. ASSUME NEW y \in ToSet(q), y # Head(q) PROVE y \in ToSet(Tail(q))
  <2>1. PICK i \in 1 .. Len(q) : q[i] = y
    BY ElementsOf
  <2>2. i # 1
    BY <1>1, <1>4, <2>1
  <2>3. i - 1 \in 1 .. Len(Tail(q)) /\ (i - 1) + 1 = i
    BY <1>1, <2>2
  <2>4. Tail(q)[i - 1] = y
    BY <1>1, <2>1, <2>3
  <2>5. \A x : (\E j \in 1 .. Len(Tail(q)) : Tail(q)[j] = x) => x \in ToSet(Tail(q))
    BY <1>1, ElementsOf
  <2>6. QED
    BY <2>3, <2>4, <2>5
<1>5. Len(q) = 1 => \A y \in ToSet(q) : y = Head(q)
  <2>1. \A y \in ToSet(q) : \E i \in 1 .. Len(q) : q[i] = y
    BY ElementsOf
  <2>2. QED
    BY <1>1, <2>1
<1> QED
  BY <1>1, <1>2, <1>3, <1>4, <1>5

LEMMA TailOnce ==
    ASSUME NEW S, NEW q \in Seq(S), q # <<>>, NEW x \in ToSet(Tail(q)), Once(q, x)
    PROVE  x # Head(q) /\ Once(Tail(q), x)
<1>1. /\ Tail(q) \in Seq(S) /\ Len(Tail(q)) = Len(q) - 1 /\ Head(q) = q[1] /\ 1 \in 1 .. Len(q)
      /\ Len(q) \in Nat
      /\ \A i \in 1 .. Len(Tail(q)) : i + 1 \in 1 .. Len(q) /\ Tail(q)[i] = q[i + 1]
  OBVIOUS
<1>2. PICK i \in 1 .. Len(Tail(q)) : Tail(q)[i] = x
  BY <1>1, ElementsOf
<1>3. i + 1 # 1
  BY <1>1
<1>4. x # Head(q)
  BY <1>1, <1>2, <1>3 DEF Once
<1>5. ASSUME NEW m \in 1 .. Len(Tail(q)), NEW n \in 1 .. Len(Tail(q)), Tail(q)[m] = x, Tail(q)[n] = x
      PROVE  m = n
  <2>1. m + 1 = n + 1
    BY <1>1, <1>5 DEF Once
  <2>2. QED
    BY <1>1, <2>1
<1> QED
  BY <1>4, <1>5 DEF Once

\* A sequence in two parts.
LEMMA PartsElements ==
    ASSUME NEW S, NEW q \in Seq(S), NEW n \in 0 .. Len(q)
    PROVE  LET first == SubSeq(q, 1, n)
               rest == SubSeq(q, n + 1, Len(q)) IN
           /\ first \in Seq(S) /\ rest \in Seq(S) /\ Len(first) = n
           /\ \A i \in 1 .. n : first[i] = q[i]
           /\ ToSet(q) = ToSet(first) \cup ToSet(rest)
           /\ \A y : Once(q, y) => /\ Once(first, y) /\ Once(rest, y)
                                   /\ ~(y \in ToSet(first) /\ y \in ToSet(rest))
<1> DEFINE first == SubSeq(q, 1, n)
           rest == SubSeq(q, n + 1, Len(q))
<1>0. Len(q) \in Nat /\ n \in Nat /\ n <= Len(q) /\ \A i \in 1 .. Len(q) : q[i] \in S
  OBVIOUS
<1>1. first = [i \in 1 .. n |-> q[i]]
  BY <1>0
<1>2. /\ first \in Seq(S) /\ Len(first) = n /\ \A i \in 1 .. n : first[i] = q[i]
  BY <1>0, <1>1
<1>3. rest = [i \in 1 .. Len(q) - n |-> q[n + i]]
  <2>1. rest = [i \in 1 .. Len(q) - (n + 1) + 1 |-> q[i + (n + 1) - 1]]
    BY <1>0
  <2>2. Len(q) - (n + 1) + 1 = Len(q) - n /\ \A i \in 1 .. Len(q) - n : i + (n + 1) - 1 = n + i
    BY <1>0
  <2>3. QED
    BY <2>1, <2>2
<1>4. Len(q) - n \in Nat /\ \A i \in 1 .. Len(q) - n : n + i \in 1 .. Len(q)
  BY <1>0
<1>5. rest \in Seq(S) /\ Len(rest) = Len(q) - n /\ \A i \in 1 .. Len(q) - n : rest[i] = q[n + i]
  BY <1>0, <1>3, <1>4
<1> HIDE DEF first, rest
<1>6. \A i \in 1 .. Len(q) : i \in 1 .. n \/ (i - n \in 1 .. Len(q) - n /\ n + (i - n) = i)
  BY <1>0
<1>7. 1 .. n \subseteq 1 .. Len(q)
  BY <1>0
<1>8. ASSUME NEW y PROVE y \in ToSet(q) <=> y \in ToSet(first) \/ y \in ToSet(rest)
  <2>1. ASSUME y \in ToSet(q) PROVE y \in ToSet(first) \/ y \in ToSet(rest)
    <3>1. PICK i \in 1 .. Len(q) : q[i] = y
      BY <2>1, ElementsOf
    <3>2. CASE i \in 1 .. n
      <4>1. first[i] = y /\ i \in 1 .. Len(first)
        BY <1>2, <3>1, <3>2
      <4>2. QED
        BY <1>2, <4>1, ElementsOf
    <3>3. CASE i - n \in 1 .. Len(q) - n /\ n + (i - n) = i
      <4>1. rest[i - n] = y /\ i - n \in 1 .. Len(rest)
        BY <1>5, <3>1, <3>3
      <4>2. QED
        BY <1>5, <4>1, ElementsOf
    <3>4. QED
      BY <1>6, <3>2, <3>3
  <2>2. y \in ToSet(first) => y \in ToSet(q)
    BY <1>2, <1>7, ElementsOf
  <2>3. y \in ToSet(rest) => y \in ToSet(q)
    BY <1>4, <1>5, ElementsOf, SMTT(20)
  <2>4. QED
    BY <2>1, <2>2, <2>3
<1>9. ASSUME NEW y, Once(q, y)
      PROVE  Once(first, y) /\ Once(rest, y) /\ ~(y \in ToSet(first) /\ y \in ToSet(rest))
  <2>1. Once(first, y)
    BY <1>2, <1>7, <1>9 DEF Once
  <2>2. Once(rest, y)
    <3>1. ASSUME NEW i \in 1 .. Len(rest), NEW j \in 1 .. Len(rest), rest[i] = y, rest[j] = y
          PROVE  i = j
      <4>1. n + i \in 1 .. Len(q) /\ n + j \in 1 .. Len(q) /\ q[n + i] = y /\ q[n + j] = y
        BY <1>4, <1>5, <3>1
      <4>2. n + i = n + j
        BY <1>9, <4>1 DEF Once
      <4>3. QED
        BY <1>0, <1>4, <1>5, <4>2
    <3>2. QED
      BY <3>1 DEF Once
  <2>3. ASSUME y \in ToSet(first), y \in ToSet(rest) PROVE FALSE
    <3>1. PICK i \in 1 .. n : q[i] = y
      BY <1>2, <2>3, ElementsOf
    <3>2. PICK j \in 1 .. Len(q) - n : q[n + j] = y
      BY <1>5, <2>3, ElementsOf
    <3>3. i = n + j
      BY <1>4, <1>7, <1>9, <3>1, <3>2 DEF Once
    <3>4. QED
      BY <1>0, <3>3
  <2>4. QED
    BY <2>1, <2>2, <2>3
<1>10. ToSet(q) = ToSet(first) \cup ToSet(rest)
  BY <1>8
<1> QED
  BY <1>2, <1>5, <1>9, <1>10 DEF first, rest

----------------------------------------------------------------------------
(* Callbacks and fates.                                                    *)

LEMMA TellIs ==
    ASSUME NEW t \in [Items -> {"nothing", "success", "failure", "twice"}], NEW is,
           NEW what \in {"success", "failure"}
    PROVE  /\ Tell(t, is, what) \in [Items -> {"nothing", "success", "failure", "twice"}]
           /\ \A i \in Items : i \in is \ reloaded =>
                 Tell(t, is, what)[i] = IF t[i] = "nothing" THEN what ELSE "twice"
           /\ \A i \in Items : i \notin is \ reloaded => Tell(t, is, what)[i] = t[i]
BY DEF Tell

LEMMA MeetsIs ==
    ASSUME NEW f \in [Items -> Fates], NEW is, NEW what \in Fates
    PROVE  /\ Meets(f, is, what) \in [Items -> Fates]
           /\ \A i \in Items : i \in is /\ f[i] = "pending" => Meets(f, is, what)[i] = what
           /\ \A i \in Items : i \notin is \/ f[i] # "pending" => Meets(f, is, what)[i] = f[i]
BY DEF Meets

----------------------------------------------------------------------------
(* What a step may do to a batch, and to the items in it.                  *)

LEMMA BatchesAre ==
    /\ BuffersTyped => \A i : InBatch(i) <=> \E k \in 1 .. Len(uploadFileBatchFutures) :
                                                i \in ToSet(uploadFileBatchFutures[k].snaps)
    /\ BuffersTyped' => \A i : InBatch(i)' <=> \E k \in 1 .. Len(uploadFileBatchFutures') :
                                                i \in ToSet(uploadFileBatchFutures'[k].snaps)
BY ElementsOf DEF BuffersTyped, InBatch, Batches

LEMMA BatchIs ==
    ASSUME ItemsInv, NEW k \in 1 .. Len(uploadFileBatchFutures), NEW b, b = uploadFileBatchFutures[k]
    PROVE  /\ b \in BatchRecords /\ DOMAIN b.group = ToSet(b.snaps) /\ Cares(b)
           /\ b.snaps \in Seq(Snaps) /\ ToSet(b.snaps) \subseteq Snaps
           /\ b.left \in Seq(Snaps) /\ ToSet(b.left) \subseteq ToSet(b.snaps)
           /\ \A i \in ToSet(b.snaps) : InBatch(i) /\ i \in Items
           /\ \A i \in ToSet(b.snaps) \ reloaded : Live(b, i) => Unanswered(i)
<1>1. b \in BatchRecords /\ DOMAIN b.group = ToSet(b.snaps)
  BY DEF ItemsInv, BuffersTyped
<1>2. Cares(b)
  BY DEF ItemsInv, Held, Cared
<1>3. b.snaps \in Seq(Snaps) /\ b.left \in Seq(Snaps) /\ b.phase \in Phases
  BY <1>1 DEF BatchRecords
<1>4. ToSet(b.snaps) \subseteq Snaps
  BY <1>3, ElementsOf
<1>5. \A i \in ToSet(b.snaps) : InBatch(i) /\ i \in Items
  BY <1>4, BatchesAre DEF ItemsInv, Items
<1>6. \A i \in ToSet(b.snaps) \ reloaded : Live(b, i) => Unanswered(i)
  BY <1>5 DEF ItemsInv, Unique, UniqueIn
<1>7. ToSet(b.left) \subseteq ToSet(b.snaps)
  BY <1>2, <1>3, NoElements DEF Cares, Phases
<1> QED
  BY <1>1, <1>2, <1>3, <1>4, <1>5, <1>6, <1>7

\* A step of the thread of batch k, or of one of its groups, that leaves c.
BatchBecomes(k, c) ==
    LET b == uploadFileBatchFutures[k] IN
    /\ uploadFileBatchFutures' = [uploadFileBatchFutures EXCEPT ![k] = c]
    /\ c \in BatchRecords /\ DOMAIN c.group = ToSet(c.snaps) /\ (c.snaps = b.snaps \/ c.snaps = <<>>)
    /\ UNCHANGED <<snapBuffer, eventBuffer, reloaded, pc, eventBatch, wpc, before>>
    /\ HistoryTyped'

\* Fates are met once, and not by what was uploaded.
FatesMet(b, c) ==
    \A i \in Items : fate'[i] # fate[i] =>
        /\ fate[i] = "pending" /\ fate'[i] \notin {"unsent", "never", "pending", "accepted"}
        /\ i \in ToSet(b.snaps) /\ b.group[i] # "uploaded"
        /\ i \in ToSet(c.snaps) => ~Live(c, i)

\* Callbacks are called for what nobody else answers for.
CallbacksCalled(b, c) ==
    \A i \in Items : told'[i] # told[i] =>
        /\ i \in ToSet(b.snaps) \ reloaded /\ Live(b, i) /\ told'[i] = "failure"
        /\ i \in ToSet(c.snaps) => ~Live(c, i)

Follows(b, c) ==
    /\ Cares(c)'
    /\ c.snaps = <<>> => \A s \in ToSet(b.snaps) : fate'[s] = "pending" => s \in ToSet(eventBuffer)
    /\ \A i \in ToSet(c.snaps) : /\ Live(c, i) => Live(b, i)
                                 /\ b.group[i] = "uploaded" => c.group[i] = "uploaded"

LEMMA BatchKeeps ==
    ASSUME ItemsInv, NEW k \in 1 .. Len(uploadFileBatchFutures), NEW b, b = uploadFileBatchFutures[k],
           NEW c, BatchBecomes(k, c), FatesMet(b, c), CallbacksCalled(b, c), Follows(b, c)
    PROVE  ItemsInv'
<1> DEFINE F == uploadFileBatchFutures
<1>1. /\ F \in Seq(BatchRecords) /\ F' = [F EXCEPT ![k] = c] /\ c \in BatchRecords
      /\ UNCHANGED <<snapBuffer, eventBuffer, reloaded, pc, eventBatch, wpc, before>>
      /\ HistoryTyped /\ HistoryTyped'
      /\ c.snaps = b.snaps \/ c.snaps = <<>>
  BY DEF BatchBecomes, ItemsInv, BuffersTyped
<1>2. /\ F' \in Seq(BatchRecords) /\ Len(F') = Len(F) /\ F'[k] = c
      /\ \A l \in 1 .. Len(F) : l # k => F'[l] = F[l]
  BY <1>1
<1>3. BuffersTyped'
  BY <1>1, <1>2 DEF BatchBecomes, ItemsInv, BuffersTyped
<1>4. /\ b \in BatchRecords /\ Cares(b) /\ \A i \in ToSet(b.snaps) : InBatch(i) /\ i \in Items
      /\ \A i \in ToSet(b.snaps) \ reloaded : Live(b, i) => Unanswered(i)
  BY BatchIs
<1>5. /\ ToSet(c.snaps) \subseteq ToSet(b.snaps)
  BY <1>1, NoElements
<1>6. \A i \in Items : fate'[i] = "pending" => fate[i] = "pending"
  BY DEF FatesMet
<1>7. \A i \in Items : (Known(i) => Known(i)') /\ (~Known(i) => fate'[i] = fate[i])
  BY DEF FatesMet, Known
<1>8. \A i \in Items : InBatch(i)' => InBatch(i)
  BY <1>2, <1>3, <1>5, BatchesAre DEF ItemsInv
<1>9. Sent'
  <2>1. \A i \in Items : OnItsWay(i)' => Known(i)'
    BY <1>1, <1>7, <1>8 DEF OnItsWay, ItemsInv, Held, Sent
  <2>2. \A w \in Waiters : \A i \in before'[w] : Known(i)'
    BY <1>1, <1>7 DEF HistoryTyped, ItemsInv, Held, Sent
  <2>3. ASSUME NEW i \in Items, ~Known(i)' PROVE told'[i] = "nothing"
    <3>1. ~Known(i)
      BY <1>7, <2>3
    <3>2. ~InBatch(i) /\ told[i] = "nothing"
      BY <3>1 DEF OnItsWay, ItemsInv, Held, Sent
    <3>3. told'[i] = told[i]
      BY <1>4, <3>2 DEF CallbacksCalled
    <3>4. QED
      BY <3>2, <3>3
  <2>4. QED
    BY <2>1, <2>2, <2>3 DEF Sent
<1>10. Cared'
  <2>1. ASSUME NEW l \in 1 .. Len(F), l # k PROVE Cares(F[l])'
    <3>1. F'[l] = F[l]
      BY <1>2, <2>1
    <3>2. Cares(F[l]) /\ \A i \in ToSet(F[l].snaps) : i \in Items
      BY <2>1, BatchIs
    <3> DEFINE d == F[l]
    <3>3. \A i \in ToSet(d.snaps) : fate'[i] = "pending" => fate[i] = "pending"
      BY <1>6, <3>2
    <3> HIDE DEF d
    <3>4. F'[l] = d
      BY <3>1 DEF d
    <3>5. Cares(d)
      BY <3>2 DEF d
    <3>6. QED
      BY <1>1, <3>3, <3>4, <3>5 DEF Cares
  <2>2. Cares(F[k])'
    BY <1>2 DEF Follows, Cares
  <2>3. QED
    BY <1>2, <2>1, <2>2 DEF Cared
<1>11. Posting' /\ Settled'
  BY <1>1, <1>6 DEF HistoryTyped, ItemsInv, Held, Posting, Settled
<1>12. PendingHeld'
  <2>1. ASSUME NEW i \in Items, fate'[i] = "pending" PROVE OnItsWay(i)'
    <3>1. OnItsWay(i)
      BY <1>6, <2>1 DEF ItemsInv, Held, PendingHeld
    <3>2. CASE i \in ToSet(snapBuffer) \/ i \in ToSet(eventBuffer)
      BY <1>1, <3>2 DEF OnItsWay
    <3>3. ASSUME NEW l \in 1 .. Len(F), i \in ToSet(F[l].snaps) PROVE OnItsWay(i)'
      <4>1. CASE l # k
        <5>1. i \in ToSet(F'[l].snaps) /\ l \in 1 .. Len(F')
          BY <1>2, <3>3, <4>1
        <5>2. QED
          BY <1>3, <5>1, BatchesAre DEF OnItsWay
      <4>2. CASE l = k /\ c.snaps = b.snaps
        <5>1. i \in ToSet(F'[k].snaps) /\ k \in 1 .. Len(F')
          BY <1>2, <3>3, <4>2
        <5>2. QED
          BY <1>3, <5>1, BatchesAre DEF OnItsWay
      <4>3. CASE l = k /\ c.snaps = <<>>
        BY <1>1, <2>1, <3>3, <4>3 DEF OnItsWay, Follows
      <4>4. QED
        BY <1>1, <4>1, <4>2, <4>3
    <3>4. QED
      BY <3>1, <3>2, <3>3, BatchesAre DEF OnItsWay, ItemsInv
  <2>2. QED
    BY <2>1 DEF PendingHeld
<1>13. ASSUME NEW i \in Items \ reloaded, i \notin ToSet(b.snaps)
       PROVE  told'[i] = told[i] /\ fate'[i] = fate[i] /\ (Unanswered(i)' <=> Unanswered(i))
  BY <1>13 DEF FatesMet, CallbacksCalled, Unanswered
<1>14. Unique'
  <2> SUFFICES ASSUME NEW i \in Items \ reloaded PROVE UniqueIn(i)'
    BY <1>1 DEF Unique
  <2>1. UniqueIn(i)
    BY DEF ItemsInv, Unique
  <2>2. i \in ToSet(snapBuffer)' =>
          Unanswered(i)' /\ Once(snapBuffer, i)' /\ i \notin ToSet(eventBuffer)' /\ ~InBatch(i)'
    <3>1. i \in ToSet(snapBuffer) => ~InBatch(i) /\ i \notin ToSet(b.snaps)
      BY <1>4, <2>1 DEF UniqueIn
    <3>2. QED
      BY <1>1, <1>8, <1>13, <2>1, <3>1 DEF UniqueIn, Once
  <2>3. i \in ToSet(eventBuffer)' => (pc' # "stuck" => Unanswered(i)') /\ Once(eventBuffer, i)'
    <3>1. ASSUME i \in ToSet(eventBuffer), i \in ToSet(b.snaps)
          PROVE  told'[i] = told[i] /\ fate'[i] = fate[i]
      <4>1. b.group[i] = "uploaded"
        BY <2>1, <3>1 DEF UniqueIn
      <4>2. ~Live(b, i)
        BY <1>4, <3>1, <4>1 DEF Live, Cares
      <4>3. QED
        BY <4>1, <4>2 DEF FatesMet, CallbacksCalled
    <3>2. i \in ToSet(eventBuffer) => told'[i] = told[i] /\ fate'[i] = fate[i]
      BY <1>13, <3>1
    <3>3. QED
      BY <1>1, <2>1, <3>2 DEF UniqueIn, Once, Unanswered
  <2>4. ASSUME NEW l \in 1 .. Len(F), i \in ToSet(F'[l].snaps)
        PROVE  /\ Live(F'[l], i) => Unanswered(i)' /\ i \notin ToSet(eventBuffer)'
               /\ i \in ToSet(eventBuffer)' => F'[l].group[i] = "uploaded"
               /\ \A m \in 1 .. Len(F) : i \in ToSet(F'[m].snaps) => l = m
    <3>1. \A m \in 1 .. Len(F) : i \in ToSet(F'[m].snaps) => i \in ToSet(F[m].snaps)
      BY <1>2, <1>5
    <3>2. /\ Live(F[l], i) => Unanswered(i) /\ i \notin ToSet(eventBuffer)
          /\ i \in ToSet(eventBuffer) => F[l].group[i] = "uploaded"
          /\ \A m \in 1 .. Len(F) : i \in ToSet(F[m].snaps) => l = m
      BY <2>1, <2>4, <3>1 DEF UniqueIn
    <3>3. CASE l = k
      <4>1. i \in ToSet(c.snaps) /\ F'[l] = c /\ F[l] = b
        BY <1>2, <2>4, <3>3
      <4>2. Live(c, i) => Live(b, i) /\ fate'[i] = fate[i] /\ told'[i] = told[i]
        BY <4>1 DEF Follows, FatesMet, CallbacksCalled
      <4>3. b.group[i] = "uploaded" => c.group[i] = "uploaded"
        BY <4>1 DEF Follows
      <4>4. QED
        BY <1>1, <3>1, <3>2, <4>1, <4>2, <4>3 DEF Unanswered
    <3>4. CASE l # k
      <4>1. F'[l] = F[l] /\ i \notin ToSet(b.snaps)
        BY <1>2, <3>1, <3>2, <3>4
      <4>2. QED
        BY <1>1, <1>13, <3>1, <3>2, <4>1
    <3>5. QED
      BY <3>3, <3>4
  <2>5. QED
    BY <1>2, <2>2, <2>3, <2>4 DEF UniqueIn
<1>15. OneRightAnswer'
  <2> SUFFICES ASSUME NEW i \in Items
               PROVE  /\ told'[i] # "twice"
                      /\ told'[i] = "success" => fate'[i] = "accepted"
                      /\ fate'[i] = "accepted" => told'[i] = "success" \/ i \in reloaded'
    BY DEF OneRightAnswer
  <2>1. /\ told[i] # "twice"
        /\ told[i] = "success" => fate[i] = "accepted"
        /\ fate[i] = "accepted" => told[i] = "success" \/ i \in reloaded
    BY DEF ItemsInv, OneRightAnswer
  <2>2. fate[i] = "accepted" => fate'[i] = "accepted"
    BY DEF FatesMet
  <2>3. fate'[i] = "accepted" => fate[i] = "accepted"
    BY DEF FatesMet
  <2>4. ASSUME told'[i] # told[i] PROVE told'[i] = "failure" /\ fate[i] = "pending"
    BY <1>4, <2>4 DEF CallbacksCalled, Unanswered
  <2>5. QED
    BY <1>1, <2>1, <2>2, <2>3, <2>4
<1> QED
  BY <1>1, <1>3, <1>9, <1>10, <1>11, <1>12, <1>14, <1>15 DEF ItemsInv, Held

----------------------------------------------------------------------------
(* The steps of a batch and of its groups.                                 *)

Elsewhere == UNCHANGED <<snapBuffer, eventBuffer, reloaded, pc, eventBatch, wpc, before>>

\* The callbacks of some of a batch's snaps, that nobody else answers for.
LEMMA FailuresTold ==
    ASSUME ItemsInv, NEW k \in 1 .. Len(uploadFileBatchFutures), NEW b, b = uploadFileBatchFutures[k],
           NEW is, is \subseteq ToSet(b.snaps), \A i \in is : Live(b, i),
           told' = Tell(told, is, "failure")
    PROVE  /\ told' \in [Items -> {"nothing", "success", "failure", "twice"}]
           /\ \A i \in Items : told'[i] # told[i] =>
                 i \in is /\ i \in ToSet(b.snaps) \ reloaded /\ Live(b, i) /\ told'[i] = "failure"
<1>1. told \in [Items -> {"nothing", "success", "failure", "twice"}]
  BY DEF ItemsInv, HistoryTyped
<1>2. /\ told' \in [Items -> {"nothing", "success", "failure", "twice"}]
      /\ \A i \in Items : i \in is \ reloaded =>
            told'[i] = IF told[i] = "nothing" THEN "failure" ELSE "twice"
      /\ \A i \in Items : i \notin is \ reloaded => told'[i] = told[i]
  BY <1>1, TellIs
<1>3. \A i \in is \ reloaded : Unanswered(i)
  BY BatchIs
<1> QED
  BY <1>2, <1>3 DEF Unanswered

LEMMA GiveUpKeeps ==
    ASSUME ItemsInv, NEW k \in 1 .. Len(uploadFileBatchFutures), NEW b, b = uploadFileBatchFutures[k],
           NEW d, d \in BatchRecords, d.snaps = b.snaps, d.group = b.group, d.left = b.left,
           b.phase \in {"prepare", "upload"},
           GiveUp(k, d), Elsewhere,
           told' \in [Items -> {"nothing", "success", "failure", "twice"}],
           \A i \in Items : told'[i] # told[i] =>
               /\ i \in ToSet(b.snaps) \ reloaded /\ Live(b, i) /\ told'[i] = "failure"
               /\ b.phase = "prepare"
    PROVE  ItemsInv'
<1> DEFINE lost == {s \in ToSet(b.snaps) : b.group[s] \in {"whole", "failed"}}
<1>1. PICK c : /\ c = IF cacheIfCannotSend THEN [d EXCEPT !.phase = "cache", !.attempt = 0]
                                           ELSE [d EXCEPT !.phase = "wind", !.attempt = 0]
               /\ uploadFileBatchFutures' = [uploadFileBatchFutures EXCEPT ![k] = c]
  BY DEF GiveUp, BatchOver
<1>2. /\ c \in BatchRecords /\ c.snaps = b.snaps /\ c.group = b.group /\ c.left = b.left
      /\ c.phase = IF cacheIfCannotSend THEN "cache" ELSE "wind"
  BY <1>1 DEF BatchRecords, Phases
<1>3. /\ b \in BatchRecords /\ DOMAIN b.group = ToSet(b.snaps) /\ Cares(b)
      /\ ToSet(b.left) \subseteq ToSet(b.snaps)
      /\ \A i \in ToSet(b.snaps) : i \in Items
  BY BatchIs
<1>4. fate \in [Items -> Fates] /\ HistoryTyped
  BY DEF ItemsInv, HistoryTyped
<1>5. /\ cacheIfCannotSend => fate' = fate
      /\ ~cacheIfCannotSend => fate' = Meets(fate, lost, "dropped")
  BY DEF GiveUp
<1>6. /\ fate' \in [Items -> Fates]
      /\ \A i \in Items : fate'[i] # fate[i] =>
            /\ ~cacheIfCannotSend /\ fate[i] = "pending" /\ fate'[i] = "dropped"
            /\ i \in ToSet(b.snaps) /\ b.group[i] \in {"whole", "failed"}
      /\ \A i \in ToSet(b.snaps) : ~cacheIfCannotSend /\ b.group[i] \in {"whole", "failed"} =>
            fate'[i] # "pending"
  <2>1. "dropped" \in Fates
    BY DEF Fates
  <2>2. /\ Meets(fate, lost, "dropped") \in [Items -> Fates]
        /\ \A i \in Items : i \in lost /\ fate[i] = "pending" => Meets(fate, lost, "dropped")[i] = "dropped"
        /\ \A i \in Items : i \notin lost \/ fate[i] # "pending" =>
              Meets(fate, lost, "dropped")[i] = fate[i]
    BY <1>4, <2>1, MeetsIs
  <2>3. CASE cacheIfCannotSend
    BY <1>4, <1>5, <2>3
  <2>4. CASE ~cacheIfCannotSend
    BY <1>3, <1>5, <2>2, <2>4
  <2>5. QED
    BY <2>3, <2>4
<1>7. BatchBecomes(k, c)
  <2>1. HistoryTyped'
    BY <1>4, <1>6 DEF Elsewhere, HistoryTyped
  <2>2. QED
    BY <1>1, <1>2, <1>3, <2>1 DEF BatchBecomes, Elsewhere
<1>8. \A i \in ToSet(b.snaps) : b.phase = "prepare" => b.group[i] = "whole"
  BY <1>3 DEF Cares
<1>9. \A i \in ToSet(b.snaps) : Live(c, i) <=> b.group[i] = "running"
  BY <1>2 DEF Live
<1>10. FatesMet(b, c)
  BY <1>2, <1>6, <1>9 DEF FatesMet
<1>11. CallbacksCalled(b, c)
  BY <1>2, <1>8, <1>9 DEF CallbacksCalled
<1>12. Follows(b, c)
  <2>1. Cares(c)'
    <3>1. \A i \in ToSet(b.snaps) : fate'[i] = "pending" => fate[i] = "pending"
      BY <1>3, <1>6
    <3>2. \A i \in ToSet(b.snaps) : fate'[i] = "pending" /\ c.phase = "wind" =>
             b.group[i] \notin {"whole", "failed"}
      BY <1>2, <1>6
    <3>3. ToSet(b.left) = ToSet(b.snaps)
      BY <1>3 DEF Cares
    <3>4. QED
      BY <1>2, <1>3, <3>1, <3>2, <3>3 DEF Cares, Elsewhere
  <2>2. \A i \in ToSet(c.snaps) : /\ Live(c, i) => Live(b, i)
                                  /\ b.group[i] = "uploaded" => c.group[i] = "uploaded"
    BY <1>2, <1>9 DEF Live
  <2>3. c.snaps = <<>> => ToSet(b.snaps) = {}
    BY <1>2, NoElements
  <2>4. QED
    BY <2>1, <2>2, <2>3 DEF Follows
<1> QED
  BY <1>7, <1>10, <1>11, <1>12, BatchKeeps

LEMMA PrepareFailsKeeps ==
    ASSUME ItemsInv, NEW k \in 1 .. Len(uploadFileBatchFutures), prepareFails(k)
    PROVE  ItemsInv'
<1>1. PICK b : b = uploadFileBatchFutures[k]
  OBVIOUS
<1>2. PICK d : d = [b EXCEPT !.attempt = @ + 1]
  OBVIOUS
<1>3. b \in BatchRecords /\ DOMAIN b.group = ToSet(b.snaps) /\ Cares(b)
  BY <1>1, BatchIs
<1>4. /\ d \in BatchRecords /\ d.snaps = b.snaps /\ d.group = b.group /\ d.left = b.left
      /\ d.phase = b.phase
  BY <1>2, <1>3 DEF BatchRecords
<1>5. /\ b.phase = "prepare" /\ Elsewhere
      /\ IF d.attempt >= maxAttempts
         THEN GiveUp(k, d) /\ told' = Tell(told, ToSet(d.snaps), "failure")
         ELSE BatchOver(k, d) /\ UNCHANGED <<told, fate>>
  BY <1>1, <1>2, <1>4 DEF prepareFails, Elsewhere, batchUnchanged, thread, waits
<1>6. CASE GiveUp(k, d) /\ told' = Tell(told, ToSet(d.snaps), "failure")
  <2>1. \A i \in ToSet(b.snaps) : Live(b, i)
    BY <1>5 DEF Live
  <2>2. /\ told' \in [Items -> {"nothing", "success", "failure", "twice"}]
        /\ \A i \in Items : told'[i] # told[i] =>
              i \in ToSet(b.snaps) \ reloaded /\ Live(b, i) /\ told'[i] = "failure"
    BY <1>1, <1>4, <1>6, <2>1, FailuresTold
  <2>3. QED
    BY <1>1, <1>4, <1>5, <1>6, <2>2, GiveUpKeeps
<1>7. CASE BatchOver(k, d) /\ UNCHANGED <<told, fate>>
  <2>1. BatchBecomes(k, d)
    BY <1>1, <1>3, <1>4, <1>5, <1>7 DEF BatchBecomes, BatchOver, Elsewhere, ItemsInv, HistoryTyped
  <2>2. FatesMet(b, d) /\ CallbacksCalled(b, d)
    BY <1>7 DEF FatesMet, CallbacksCalled
  <2>3. Cares(d)'
    BY <1>3, <1>4, <1>5, <1>7 DEF Cares, Elsewhere
  <2>4. Follows(b, d)
    BY <1>4, <2>3, NoElements DEF Follows, Live
  <2>5. QED
    BY <1>1, <2>1, <2>2, <2>4, BatchKeeps
<1> QED
  BY <1>5, <1>6, <1>7

LEMMA BatchFailsKeeps ==
    ASSUME ItemsInv, NEW k \in 1 .. Len(uploadFileBatchFutures), batchFails(k)
    PROVE  ItemsInv'
<1>1. PICK b : b = uploadFileBatchFutures[k]
  OBVIOUS
<1>2. b \in BatchRecords
  BY <1>1, BatchIs
<1>3. b.phase = "upload" /\ GiveUp(k, b) /\ told' = told /\ Elsewhere
  BY <1>1 DEF batchFails, Elsewhere, batchUnchanged, thread, waits
<1>4. told' \in [Items -> {"nothing", "success", "failure", "twice"}]
  BY <1>3 DEF ItemsInv, HistoryTyped
<1> QED
  BY <1>1, <1>2, <1>3, <1>4, GiveUpKeeps

LEMMA NoBatchIs ==
    /\ NoBatch \in BatchRecords /\ NoBatch.snaps = <<>> /\ DOMAIN NoBatch.group = ToSet(NoBatch.snaps)
    /\ ToSet(NoBatch.snaps) = {} /\ Cares(NoBatch)'
<1>1. <<>> \in Groups
  <2>1. <<>> = [s \in {} |-> "whole"]
    OBVIOUS
  <2>2. [s \in {} |-> "whole"] \in [{} -> GroupStates] /\ {} \in SUBSET Snaps
    OBVIOUS
  <2>3. QED
    BY <2>1, <2>2 DEF Groups
<1>2. <<>> \in Seq(Snaps) /\ ToSet(<<>>) = {} /\ DOMAIN <<>> = {}
  BY NoElements
<1>3. NoBatch \in BatchRecords
  BY <1>1, <1>2 DEF NoBatch, BatchRecords, Phases
<1>4. /\ NoBatch.snaps = <<>> /\ NoBatch.group = <<>> /\ NoBatch.left = <<>>
      /\ NoBatch.phase = "done"
  BY DEF NoBatch
<1>5. Cares(NoBatch)'
  BY <1>2, <1>4 DEF Cares
<1> QED
  BY <1>2, <1>3, <1>4, <1>5

\* The end of a batch whose snaps have met their fate or are in eventBuffer.
LEMMA BatchOverKeeps ==
    ASSUME ItemsInv, NEW k \in 1 .. Len(uploadFileBatchFutures), NEW b, b = uploadFileBatchFutures[k],
           BatchOver(k, NoBatch), Elsewhere, told' = told,
           fate' \in [Items -> Fates],
           \A i \in Items : fate'[i] # fate[i] =>
               /\ fate[i] = "pending" /\ fate'[i] \notin {"unsent", "never", "pending", "accepted"}
               /\ i \in ToSet(b.snaps) /\ b.group[i] # "uploaded",
           \A i \in ToSet(b.snaps) : fate'[i] = "pending" => i \in ToSet(eventBuffer)
    PROVE  ItemsInv'
<1>1. PICK c : c = NoBatch
  OBVIOUS
<1>2. c \in BatchRecords /\ c.snaps = <<>> /\ DOMAIN c.group = ToSet(c.snaps) /\ ToSet(c.snaps) = {}
  BY <1>1, NoBatchIs
<1>3. Cares(c)'
  BY <1>1, NoBatchIs DEF Cares, NoBatch
<1>4. BatchBecomes(k, c)
  BY <1>1, <1>2 DEF BatchBecomes, BatchOver, Elsewhere, ItemsInv, HistoryTyped
<1>5. FatesMet(b, c) /\ CallbacksCalled(b, c) /\ Follows(b, c)
  BY <1>2, <1>3 DEF FatesMet, CallbacksCalled, Follows
<1> QED
  BY <1>4, <1>5, BatchKeeps

\* The same, for a fate that some of the snaps meet.
LEMMA FatesMetAre ==
    ASSUME ItemsInv, NEW is, is \subseteq Items, NEW what \in Fates, fate' = Meets(fate, is, what)
    PROVE  /\ fate' \in [Items -> Fates]
           /\ \A i \in Items : fate'[i] # fate[i] => fate[i] = "pending" /\ fate'[i] = what /\ i \in is
           /\ \A i \in is : fate[i] = "pending" => fate'[i] = what
           /\ what # "pending" => \A i \in is : fate'[i] # "pending"
<1>1. fate \in [Items -> Fates]
  BY DEF ItemsInv, HistoryTyped
<1>2. /\ fate' \in [Items -> Fates]
      /\ \A i \in Items : i \in is /\ fate[i] = "pending" => fate'[i] = what
      /\ \A i \in Items : i \notin is \/ fate[i] # "pending" => fate'[i] = fate[i]
  BY <1>1, MeetsIs
<1> QED
  BY <1>2

LEMMA PrepareStopsKeeps ==
    ASSUME ItemsInv, NEW k \in 1 .. Len(uploadFileBatchFutures), prepareStops(k)
    PROVE  ItemsInv'
<1>1. PICK b : b = uploadFileBatchFutures[k]
  OBVIOUS
<1>2. Cares(b) /\ ToSet(b.snaps) \subseteq Items
  BY <1>1, BatchIs
<1>3. /\ b.phase = "prepare" /\ Elsewhere /\ BatchOver(k, NoBatch) /\ told' = told
      /\ fate' = Meets(fate, ToSet(b.snaps), "abandoned")
  BY <1>1 DEF prepareStops, Elsewhere, batchUnchanged, thread, waits
<1>4. "abandoned" \in Fates
  BY DEF Fates
<1>5. /\ fate' \in [Items -> Fates]
      /\ \A i \in Items : fate'[i] # fate[i] =>
            fate[i] = "pending" /\ fate'[i] = "abandoned" /\ i \in ToSet(b.snaps)
      /\ \A i \in ToSet(b.snaps) : fate'[i] # "pending"
  BY <1>2, <1>3, <1>4, FatesMetAre
<1>6. \A i \in ToSet(b.snaps) : b.group[i] = "whole"
  BY <1>2, <1>3 DEF Cares
<1> QED
  BY <1>1, <1>3, <1>5, <1>6, BatchOverKeeps

LEMMA BatchEndsKeeps ==
    ASSUME ItemsInv, NEW k \in 1 .. Len(uploadFileBatchFutures), batchEnds(k)
    PROVE  ItemsInv'
<1>1. PICK b : b = uploadFileBatchFutures[k]
  OBVIOUS
<1>2. /\ b \in BatchRecords /\ DOMAIN b.group = ToSet(b.snaps) /\ Cares(b)
      /\ ToSet(b.snaps) \subseteq Items
  BY <1>1, BatchIs
<1>3. /\ Elsewhere /\ BatchOver(k, NoBatch) /\ told' = told /\ fate' = fate
      /\ \/ b.phase = "upload" /\ \A s \in ToSet(b.snaps) : b.group[s] \in {"uploaded", "rejected"}
         \/ b.phase = "wind" /\ \A s \in ToSet(b.snaps) : b.group[s] # "running"
  BY <1>1 DEF batchEnds, Elsewhere, batchUnchanged, thread, waits, history
<1>4. \A s \in ToSet(b.snaps) : b.group[s] \in GroupStates
  BY <1>2 DEF BatchRecords, Groups
<1>5. ASSUME NEW s \in ToSet(b.snaps), fate[s] = "pending" PROVE s \in ToSet(eventBuffer)
  <2>1. /\ b.group[s] # "rejected" /\ (b.group[s] = "uploaded" => s \in ToSet(eventBuffer))
        /\ b.phase = "wind" => b.group[s] \notin {"whole", "failed"}
    BY <1>2, <1>5 DEF Cares
  <2>2. QED
    BY <1>3, <1>4, <2>1 DEF GroupStates
<1>6. fate' \in [Items -> Fates]
  BY <1>3 DEF ItemsInv, HistoryTyped
<1> QED
  BY <1>1, <1>3, <1>5, <1>6, BatchOverKeeps

LEMMA CacheWritesKeeps ==
    ASSUME ItemsInv, Writes, NEW k \in 1 .. Len(uploadFileBatchFutures), cacheWrites(k)
    PROVE  ItemsInv'
<1>1. PICK b : b = uploadFileBatchFutures[k]
  OBVIOUS
<1>2. /\ b \in BatchRecords /\ DOMAIN b.group = ToSet(b.snaps) /\ Cares(b)
      /\ ToSet(b.snaps) \subseteq Items /\ b.left \in Seq(Snaps) /\ ToSet(b.left) \subseteq ToSet(b.snaps)
  BY <1>1, BatchIs
<1>3. PICK s : s = Head(b.left)
  OBVIOUS
<1>4. /\ b.phase = "writing" /\ Elsewhere /\ told' = told
      /\ fate' = Meets(fate, {s}, "cached") \/ (fate' = fate /\ cache[s] # "partial")
      /\ BatchOver(k, IF Len(b.left) = 1 THEN NoBatch
                      ELSE [b EXCEPT !.phase = "cache", !.left = Tail(@)])
  BY <1>1, <1>3 DEF cacheWrites, Elsewhere, batchUnchanged, thread, waits
<1>5. b.left # <<>> /\ b.group[s] \in {"whole", "rejected"}
  BY <1>2, <1>3, <1>4 DEF Cares
<1>6. /\ s \in ToSet(b.left) /\ s \in ToSet(b.snaps) /\ Tail(b.left) \in Seq(Snaps)
      /\ ToSet(Tail(b.left)) \subseteq ToSet(b.left)
      /\ \A y \in ToSet(b.left) : y = s \/ y \in ToSet(Tail(b.left))
      /\ Len(b.left) = 1 => \A y \in ToSet(b.left) : y = s
  BY <1>2, <1>3, <1>5, TailElements
<1>7. /\ fate' \in [Items -> Fates]
      /\ \A i \in Items : fate'[i] # fate[i] => fate[i] = "pending" /\ fate'[i] = "cached" /\ i = s
      /\ fate'[s] # "pending"
  <2>1. CASE fate' = Meets(fate, {s}, "cached")
    <3>1. PICK is : is = {s}
      OBVIOUS
    <3>2. is \subseteq Items /\ fate' = Meets(fate, is, "cached") /\ "cached" \in Fates
      BY <1>2, <1>6, <2>1, <3>1 DEF Fates
    <3>3. /\ fate' \in [Items -> Fates]
          /\ \A i \in Items : fate'[i] # fate[i] => fate[i] = "pending" /\ fate'[i] = "cached" /\ i \in is
          /\ \A i \in is : fate'[i] # "pending"
      BY <3>2, FatesMetAre
    <3>4. QED
      BY <3>1, <3>3
  <2>2. CASE fate' = fate /\ cache[s] # "partial"
    <3>1. fate[s] # "pending"
      BY <1>1, <1>3, <1>4, <2>2 DEF Writes
    <3>2. QED
      BY <2>2, <3>1 DEF ItemsInv, HistoryTyped
  <2>3. QED
    BY <1>4, <2>1, <2>2
<1>8. \A i \in ToSet(b.snaps) : fate'[i] = "pending" => fate[i] = "pending" /\ i # s
  BY <1>2, <1>7
<1>9. CASE Len(b.left) = 1
  <2>1. \A i \in ToSet(b.snaps) : fate[i] = "pending" => i = s
    BY <1>2, <1>4, <1>6, <1>9 DEF Cares
  <2>2. BatchOver(k, NoBatch)
    BY <1>4, <1>9
  <2>3. QED
    BY <1>1, <1>4, <1>5, <1>6, <1>7, <1>8, <2>1, <2>2, BatchOverKeeps
<1>10. CASE Len(b.left) # 1
  <2>1. PICK c : c = [b EXCEPT !.phase = "cache", !.left = Tail(@)]
    OBVIOUS
  <2>2. /\ c \in BatchRecords /\ c.snaps = b.snaps /\ c.group = b.group /\ c.left = Tail(b.left)
        /\ c.phase = "cache"
    BY <1>2, <1>6, <2>1 DEF BatchRecords, Phases
  <2>3. BatchBecomes(k, c)
    BY <1>1, <1>2, <1>4, <1>7, <1>10, <2>1, <2>2
    DEF BatchBecomes, BatchOver, Elsewhere, ItemsInv, HistoryTyped
  <2>4. FatesMet(b, c) /\ CallbacksCalled(b, c)
    BY <1>4, <1>5, <1>6, <1>7, <2>2 DEF FatesMet, CallbacksCalled, Live
  <2>5. \A i \in ToSet(b.snaps) : fate'[i] = "pending" => i \in ToSet(Tail(b.left))
    BY <1>2, <1>4, <1>6, <1>8 DEF Cares
  <2>6. Cares(c)'
    BY <1>2, <1>4, <1>6, <1>8, <2>2, <2>5 DEF Cares, Elsewhere
  <2>7. Follows(b, c)
    BY <1>4, <2>2, <2>6, NoElements DEF Follows, Live
  <2>8. QED
    BY <1>1, <2>3, <2>4, <2>7, BatchKeeps
<1> QED
  BY <1>9, <1>10

LEMMA CacheBeginsKeeps ==
    ASSUME ItemsInv, NEW k \in 1 .. Len(uploadFileBatchFutures), cacheBegins(k)
    PROVE  ItemsInv'
<1>1. PICK b : b = uploadFileBatchFutures[k]
  OBVIOUS
<1>2. PICK c : c = [b EXCEPT !.phase = "writing"]
  OBVIOUS
<1>3. b \in BatchRecords /\ DOMAIN b.group = ToSet(b.snaps) /\ Cares(b)
  BY <1>1, BatchIs
<1>4. /\ c \in BatchRecords /\ c.snaps = b.snaps /\ c.group = b.group /\ c.left = b.left
      /\ c.phase = "writing"
  BY <1>2, <1>3 DEF BatchRecords, Phases
<1>5. /\ b.phase = "cache" /\ Elsewhere /\ told' = told /\ fate' = fate /\ BatchOver(k, c)
      /\ b.left # <<>> /\ b.group[Head(b.left)] \in {"whole", "rejected"}
  BY <1>1, <1>2 DEF cacheBegins, Elsewhere, batchUnchanged, thread, waits, history
<1>6. BatchBecomes(k, c)
  BY <1>1, <1>3, <1>4, <1>5 DEF BatchBecomes, BatchOver, Elsewhere, ItemsInv, HistoryTyped
<1>7. FatesMet(b, c) /\ CallbacksCalled(b, c)
  BY <1>5 DEF FatesMet, CallbacksCalled
<1>8. Cares(c)'
  BY <1>3, <1>4, <1>5 DEF Cares, Elsewhere
<1>9. Follows(b, c)
  BY <1>4, <1>5, <1>8, NoElements DEF Follows, Live
<1> QED
  BY <1>1, <1>6, <1>7, <1>9, BatchKeeps

\* A record of a batch with other states of its groups.
LEMMA RegroupedIs ==
    ASSUME NEW b \in BatchRecords, DOMAIN b.group = ToSet(b.snaps), NEW s \in ToSet(b.snaps),
           NEW how \in GroupStates, NEW c, c = [b EXCEPT !.group[s] = how]
    PROVE  /\ c \in BatchRecords /\ c.snaps = b.snaps /\ c.left = b.left /\ c.phase = b.phase
           /\ DOMAIN c.group = ToSet(b.snaps) /\ c.group[s] = how
           /\ \A i \in ToSet(b.snaps) : i # s => c.group[i] = b.group[i]
<1>1. b.group \in Groups /\ b.snaps \in Seq(Snaps) /\ b.left \in Seq(Snaps)
  BY DEF BatchRecords
<1>2. ToSet(b.snaps) \in SUBSET Snaps
  BY <1>1, ElementsOf
<1>3. b.group \in [ToSet(b.snaps) -> GroupStates]
  BY <1>1 DEF Groups
<1>4. PICK g : g = [b.group EXCEPT ![s] = how]
  OBVIOUS
<1>5. /\ g \in [ToSet(b.snaps) -> GroupStates] /\ g[s] = how
      /\ \A i \in ToSet(b.snaps) : i # s => g[i] = b.group[i]
  BY <1>3, <1>4
<1>6. g \in Groups
  BY <1>2, <1>5 DEF Groups
<1>7. c = [b EXCEPT !.group = g]
  BY <1>4 DEF BatchRecords
<1> QED
  BY <1>5, <1>6, <1>7 DEF BatchRecords

LEMMA GroupFailsKeeps ==
    ASSUME ItemsInv, NEW k \in 1 .. Len(uploadFileBatchFutures),
           NEW s \in DOMAIN uploadFileBatchFutures[k].group, groupFails(k, s)
    PROVE  ItemsInv'
<1>1. PICK b : b = uploadFileBatchFutures[k]
  OBVIOUS
<1>2. /\ b \in BatchRecords /\ DOMAIN b.group = ToSet(b.snaps) /\ Cares(b) /\ s \in ToSet(b.snaps)
      /\ ToSet(b.snaps) \subseteq Items
  BY <1>1, BatchIs
<1>3. PICK how \in {"whole", "failed"} :
          /\ BatchOver(k, [b EXCEPT !.group[s] = how])
          /\ fate' = IF b.phase = "wind" THEN Meets(fate, {s}, "dropped") ELSE fate
  BY <1>1 DEF groupFails
<1>4. PICK c : c = [b EXCEPT !.group[s] = how]
  OBVIOUS
<1>5. PICK is : is = {s}
  OBVIOUS
<1>6. /\ c \in BatchRecords /\ c.snaps = b.snaps /\ c.left = b.left /\ c.phase = b.phase
      /\ DOMAIN c.group = ToSet(b.snaps) /\ c.group[s] = how
      /\ \A i \in ToSet(b.snaps) : i # s => c.group[i] = b.group[i]
  <2>1. how \in GroupStates
    BY DEF GroupStates
  <2>2. QED
    BY <1>2, <1>4, <2>1, RegroupedIs
<1>7. /\ b.phase \in {"upload", "wind"} /\ b.group[s] = "running" /\ Elsewhere
      /\ told' = Tell(told, is, "failure") /\ BatchOver(k, c)
      /\ fate' = IF b.phase = "wind" THEN Meets(fate, is, "dropped") ELSE fate
  BY <1>1, <1>3, <1>4, <1>5 DEF groupFails, Elsewhere, batchUnchanged, thread, waits
<1>8. /\ told' \in [Items -> {"nothing", "success", "failure", "twice"}]
      /\ \A i \in Items : told'[i] # told[i] =>
            i = s /\ i \in ToSet(b.snaps) \ reloaded /\ told'[i] = "failure"
  <2>1. is \subseteq ToSet(b.snaps) /\ \A i \in is : Live(b, i)
    BY <1>2, <1>5, <1>7 DEF Live
  <2>2. /\ told' \in [Items -> {"nothing", "success", "failure", "twice"}]
        /\ \A i \in Items : told'[i] # told[i] =>
              i \in is /\ i \in ToSet(b.snaps) \ reloaded /\ Live(b, i) /\ told'[i] = "failure"
    BY <1>1, <1>7, <2>1, FailuresTold
  <2>3. QED
    BY <1>5, <2>2
<1>9. /\ fate' \in [Items -> Fates]
      /\ \A i \in Items : fate'[i] # fate[i] => fate[i] = "pending" /\ fate'[i] = "dropped" /\ i = s
      /\ b.phase = "wind" => fate'[s] # "pending"
  <2>1. CASE b.phase = "wind"
    <3>1. is \subseteq Items /\ "dropped" \in Fates /\ fate' = Meets(fate, is, "dropped")
      BY <1>2, <1>5, <1>7, <2>1 DEF Fates
    <3>2. /\ fate' \in [Items -> Fates]
          /\ \A i \in Items : fate'[i] # fate[i] => fate[i] = "pending" /\ fate'[i] = "dropped" /\ i \in is
          /\ \A i \in is : fate'[i] # "pending"
      BY <3>1, FatesMetAre
    <3>3. QED
      BY <1>5, <3>2
  <2>2. CASE b.phase # "wind"
    BY <1>7, <2>2 DEF ItemsInv, HistoryTyped
  <2>3. QED
    BY <2>1, <2>2
<1>10. BatchBecomes(k, c)
  BY <1>1, <1>2, <1>6, <1>7, <1>8, <1>9
  DEF BatchBecomes, BatchOver, Elsewhere, ItemsInv, HistoryTyped
<1>11. FatesMet(b, c) /\ CallbacksCalled(b, c)
  <2>1. Live(b, s) /\ ~Live(c, s)
    BY <1>6, <1>7 DEF Live
  <2>2. FatesMet(b, c)
    BY <1>2, <1>7, <1>9, <2>1 DEF FatesMet
  <2>3. CallbacksCalled(b, c)
    BY <1>8, <2>1 DEF CallbacksCalled
  <2>4. QED
    BY <2>2, <2>3
<1>12. Follows(b, c)
  <2>1. \A i \in ToSet(b.snaps) : fate'[i] = "pending" => fate[i] = "pending"
    BY <1>2, <1>9
  <2>2. Cares(c)'
    BY <1>2, <1>6, <1>7, <1>9, <2>1 DEF Cares, Elsewhere
  <2>3. \A i \in ToSet(c.snaps) : /\ Live(c, i) => Live(b, i)
                                  /\ b.group[i] = "uploaded" => c.group[i] = "uploaded"
    BY <1>6, <1>7 DEF Live
  <2>4. c.snaps = <<>> => ToSet(b.snaps) = {}
    BY <1>6, NoElements
  <2>5. QED
    BY <2>2, <2>3, <2>4 DEF Follows
<1> QED
  BY <1>1, <1>10, <1>11, <1>12, BatchKeeps

LEMMA PrepareSucceedsKeeps ==
    ASSUME ItemsInv, NEW k \in 1 .. Len(uploadFileBatchFutures), prepareSucceeds(k)
    PROVE  ItemsInv'
<1>1. PICK b : b = uploadFileBatchFutures[k]
  OBVIOUS
<1>2. /\ b \in BatchRecords /\ DOMAIN b.group = ToSet(b.snaps) /\ Cares(b)
      /\ ToSet(b.snaps) \subseteq Items /\ ToSet(b.snaps) \subseteq Snaps
  BY <1>1, BatchIs
<1>3. PICK rejected \in SUBSET ToSet(b.snaps) :
          /\ BatchOver(k, [b EXCEPT !.phase = "upload", !.attempt = 0,
                                    !.group = [s \in ToSet(b.snaps) |->
                                        IF s \in rejected THEN "rejected" ELSE "running"]])
          /\ told' = Tell(told, rejected, "failure")
          /\ fate' = Meets(fate, rejected, "rejected")
  BY <1>1 DEF prepareSucceeds
<1>4. PICK g : g = [s \in ToSet(b.snaps) |-> IF s \in rejected THEN "rejected" ELSE "running"]
  OBVIOUS
<1>5. PICK c : c = [b EXCEPT !.phase = "upload", !.attempt = 0, !.group = g]
  OBVIOUS
<1>6. g \in [ToSet(b.snaps) -> GroupStates] /\ g \in Groups
  BY <1>2, <1>4 DEF GroupStates, Groups
<1>7. /\ c \in BatchRecords /\ c.snaps = b.snaps /\ c.group = g /\ c.left = b.left
      /\ c.phase = "upload"
  BY <1>2, <1>5, <1>6 DEF BatchRecords, Phases
<1>8. b.phase = "prepare" /\ Elsewhere /\ BatchOver(k, c)
  BY <1>1, <1>3, <1>4, <1>5 DEF prepareSucceeds, Elsewhere, batchUnchanged, thread, waits
<1>9. /\ told' \in [Items -> {"nothing", "success", "failure", "twice"}]
      /\ \A i \in Items : told'[i] # told[i] =>
            i \in rejected /\ i \in ToSet(b.snaps) \ reloaded /\ Live(b, i) /\ told'[i] = "failure"
  <2>1. \A i \in rejected : Live(b, i)
    BY <1>8 DEF Live
  <2>2. QED
    BY <1>1, <1>3, <2>1, FailuresTold
<1>10. /\ fate' \in [Items -> Fates]
       /\ \A i \in Items : fate'[i] # fate[i] =>
             fate[i] = "pending" /\ fate'[i] = "rejected" /\ i \in rejected
       /\ \A i \in rejected : fate'[i] # "pending"
  <2>1. rejected \subseteq Items /\ "rejected" \in Fates
    BY <1>2 DEF Fates
  <2>2. QED
    BY <1>3, <2>1, FatesMetAre
<1>11. BatchBecomes(k, c)
  BY <1>1, <1>6, <1>7, <1>8, <1>9, <1>10 DEF BatchBecomes, BatchOver, Elsewhere, ItemsInv, HistoryTyped
<1>12. \A i \in ToSet(b.snaps) : b.group[i] = "whole"
  BY <1>2, <1>8 DEF Cares
<1>13. \A i \in ToSet(b.snaps) : /\ i \in rejected => c.group[i] = "rejected" /\ ~Live(c, i)
                                 /\ i \notin rejected => c.group[i] = "running"
  BY <1>4, <1>7 DEF Live
<1>14. FatesMet(b, c) /\ CallbacksCalled(b, c)
  <2>1. FatesMet(b, c)
    BY <1>7, <1>10, <1>12, <1>13 DEF FatesMet
  <2>2. CallbacksCalled(b, c)
    BY <1>7, <1>9, <1>13 DEF CallbacksCalled
  <2>3. QED
    BY <2>1, <2>2
<1>15. Follows(b, c)
  <2>1. \A i \in ToSet(b.snaps) : fate'[i] = "pending" => i \notin rejected
    BY <1>2, <1>10
  <2>2. ToSet(b.left) = ToSet(b.snaps)
    BY <1>2, <1>8 DEF Cares
  <2>3. Cares(c)'
    BY <1>7, <1>13, <2>1, <2>2 DEF Cares
  <2>4. \A i \in ToSet(c.snaps) : /\ Live(c, i) => Live(b, i)
                                  /\ b.group[i] = "uploaded" => c.group[i] = "uploaded"
    BY <1>7, <1>8, <1>12 DEF Live
  <2>5. c.snaps = <<>> => ToSet(b.snaps) = {}
    BY <1>7, NoElements
  <2>6. QED
    BY <2>3, <2>4, <2>5 DEF Follows
<1> QED
  BY <1>1, <1>11, <1>14, <1>15, BatchKeeps

\* The snap leaves its batch for the end of eventBuffer.
LEMMA GroupUploadsKeeps ==
    ASSUME ItemsInv, NEW k \in 1 .. Len(uploadFileBatchFutures),
           NEW s \in DOMAIN uploadFileBatchFutures[k].group, groupUploads(k, s)
    PROVE  ItemsInv'
<1> DEFINE F == uploadFileBatchFutures
<1>1. PICK b : b = F[k]
  OBVIOUS
<1>2. /\ b \in BatchRecords /\ DOMAIN b.group = ToSet(b.snaps) /\ Cares(b) /\ s \in ToSet(b.snaps)
      /\ s \in Items /\ InBatch(s)
      /\ s \notin reloaded => (Live(b, s) => Unanswered(s))
  BY <1>1, BatchIs
<1>3. PICK c : c = [b EXCEPT !.group[s] = "uploaded"]
  OBVIOUS
<1>4. /\ c \in BatchRecords /\ c.snaps = b.snaps /\ c.left = b.left /\ c.phase = b.phase
      /\ DOMAIN c.group = ToSet(b.snaps) /\ c.group[s] = "uploaded"
      /\ \A i \in ToSet(b.snaps) : i # s => c.group[i] = b.group[i]
  <2>1. "uploaded" \in GroupStates
    BY DEF GroupStates
  <2>2. QED
    BY <1>2, <1>3, <2>1, RegroupedIs
<1>5. /\ b.phase \in {"upload", "wind"} /\ b.group[s] = "running" /\ pc # "stuck"
      /\ eventBuffer' = Append(eventBuffer, s) /\ F' = [F EXCEPT ![k] = c]
      /\ UNCHANGED <<snapBuffer, told, fate, reloaded, pc, eventBatch, wpc, before>>
  BY <1>1, <1>3 DEF groupUploads, BatchOver, EventBufferFree, batchUnchanged, thread, waits, history
<1>6. /\ F \in Seq(BatchRecords) /\ eventBuffer \in Seq(Items) /\ HistoryTyped
  BY DEF ItemsInv, BuffersTyped
<1>7. /\ F' \in Seq(BatchRecords) /\ Len(F') = Len(F) /\ F'[k] = c
      /\ \A l \in 1 .. Len(F) : l # k => F'[l] = F[l]
      /\ \A l \in 1 .. Len(F) : F'[l].snaps = F[l].snaps
  BY <1>1, <1>4, <1>5, <1>6
<1>8. /\ eventBuffer' \in Seq(Items) /\ ToSet(eventBuffer') = ToSet(eventBuffer) \cup {s}
      /\ \A i : i # s /\ Once(eventBuffer, i) => Once(eventBuffer', i)
      /\ s \notin ToSet(eventBuffer) => Once(eventBuffer', s)
  BY <1>2, <1>5, <1>6, AppendElements
<1>9. BuffersTyped' /\ HistoryTyped'
  BY <1>4, <1>5, <1>6, <1>7, <1>8 DEF ItemsInv, BuffersTyped, HistoryTyped
<1>10. \A i : InBatch(i)' <=> InBatch(i)
  BY <1>7, <1>9, BatchesAre DEF ItemsInv
<1>11. \A i : OnItsWay(i)' <=> OnItsWay(i)
  BY <1>2, <1>5, <1>8, <1>10 DEF OnItsWay
<1>12. Sent' /\ PendingHeld' /\ Settled'
  BY <1>5, <1>11 DEF ItemsInv, Held, Sent, Known, PendingHeld, Settled
<1>13. Posting'
  <2>1. Len(eventBuffer') = Len(eventBuffer) + 1 /\ Len(eventBuffer) \in Nat
        /\ \A j \in 1 .. Len(eventBuffer) : eventBuffer'[j] = eventBuffer[j]
    BY <1>2, <1>5, <1>6
  <2>2. Len(eventBatch) \in Nat
    BY DEF ItemsInv, BuffersTyped
  <2>3. Posting
    BY DEF ItemsInv, Held
  <2>4. QED
    BY <1>5, <2>1, <2>2, <2>3 DEF Posting
<1>14. Cared'
  <2>1. ASSUME NEW l \in 1 .. Len(F), l # k PROVE Cares(F[l])'
    <3>1. PICK d : d = F[l]
      OBVIOUS
    <3>2. Cares(d) /\ F'[l] = d
      BY <1>7, <2>1, <3>1, BatchIs
    <3>3. Cares(d)'
      BY <1>5, <1>8, <3>2 DEF Cares
    <3>4. QED
      BY <3>2, <3>3 DEF Cares
  <2>2. Cares(c)'
    BY <1>2, <1>4, <1>5, <1>8 DEF Cares
  <2>3. Cares(F[k])'
    BY <1>7, <2>2 DEF Cares
  <2>4. QED
    BY <1>7, <2>1, <2>3 DEF Cared
<1>15. Unique'
  <2> SUFFICES ASSUME NEW i \in Items \ reloaded PROVE UniqueIn(i)'
    BY <1>5 DEF Unique
  <2>1. UniqueIn(i)
    BY DEF ItemsInv, Unique
  <2>2. i = s => Unanswered(i) /\ i \notin ToSet(eventBuffer)
    BY <1>1, <1>2, <1>5, <2>1 DEF Live, UniqueIn
  <2>3. Unanswered(i)' <=> Unanswered(i)
    BY <1>5 DEF Unanswered
  <2>4. i \in ToSet(snapBuffer)' =>
          Unanswered(i)' /\ Once(snapBuffer, i)' /\ i \notin ToSet(eventBuffer)' /\ ~InBatch(i)'
    BY <1>2, <1>5, <1>8, <1>10, <2>1, <2>3 DEF UniqueIn, Once
  <2>5. i \in ToSet(eventBuffer)' => (pc' # "stuck" => Unanswered(i)') /\ Once(eventBuffer, i)'
    <3>1. i \in ToSet(eventBuffer') => Once(eventBuffer', i)
      BY <1>8, <2>1, <2>2 DEF UniqueIn
    <3>2. i \in ToSet(eventBuffer') => (pc' # "stuck" => Unanswered(i)')
      BY <1>5, <1>8, <2>1, <2>2, <2>3 DEF UniqueIn
    <3>3. QED
      BY <3>1, <3>2 DEF Once
  <2>6. ASSUME NEW l \in 1 .. Len(F), i \in ToSet(F'[l].snaps)
        PROVE  /\ Live(F'[l], i) => Unanswered(i)' /\ i \notin ToSet(eventBuffer)'
               /\ i \in ToSet(eventBuffer)' => F'[l].group[i] = "uploaded"
               /\ \A m \in 1 .. Len(F) : i \in ToSet(F'[m].snaps) => l = m
    <3>1. /\ Live(F[l], i) => Unanswered(i) /\ i \notin ToSet(eventBuffer)
          /\ i \in ToSet(eventBuffer) => F[l].group[i] = "uploaded"
          /\ \A m \in 1 .. Len(F) : i \in ToSet(F[m].snaps) => l = m
      BY <1>7, <2>1, <2>6 DEF UniqueIn
    <3>2. CASE i = s
      <4>1. l = k
        BY <1>1, <1>2, <3>1, <3>2
      <4>2. F'[l] = c /\ ~Live(c, i)
        BY <1>4, <1>5, <1>7, <3>2, <4>1 DEF Live
      <4>3. QED
        BY <1>4, <1>7, <3>1, <3>2, <4>2
    <3>3. CASE i # s
      <4>1. Live(F'[l], i) => Live(F[l], i)
        BY <1>1, <1>4, <1>7, <2>6, <3>3 DEF Live
      <4>2. F[l].group[i] = "uploaded" => F'[l].group[i] = "uploaded"
        BY <1>1, <1>4, <1>7, <2>6, <3>3
      <4>3. i \in ToSet(eventBuffer') => i \in ToSet(eventBuffer)
        BY <1>8, <3>3
      <4>4. QED
        BY <1>7, <2>3, <3>1, <4>1, <4>2, <4>3
    <3>4. QED
      BY <3>2, <3>3
  <2>7. QED
    BY <1>7, <2>4, <2>5, <2>6 DEF UniqueIn
<1>16. OneRightAnswer'
  BY <1>5 DEF ItemsInv, OneRightAnswer
<1> QED
  BY <1>9, <1>12, <1>13, <1>14, <1>15, <1>16 DEF ItemsInv, Held

----------------------------------------------------------------------------
(* The steps of the callers and of the upload thread.                      *)

\* A step that moves, tells and sends nothing.
LEMMA QuietKeeps ==
    ASSUME ItemsInv,
           UNCHANGED <<snapBuffer, eventBuffer, uploadFileBatchFutures, told, fate, reloaded>>,
           pc' # "stuck" => pc # "stuck",
           eventBatch' \in Seq(Items), Posting',
           before' \in [Waiters -> SUBSET Items], \A w \in Waiters : \A i \in before'[w] : Known(i),
           Settled'
    PROVE  ItemsInv'
<1>1. BuffersTyped'
  BY DEF ItemsInv, BuffersTyped
<1>2. HistoryTyped'
  BY DEF ItemsInv, HistoryTyped
<1>3. \A i : (InBatch(i)' <=> InBatch(i)) /\ (OnItsWay(i)' <=> OnItsWay(i))
  BY DEF InBatch, Batches, OnItsWay
<1>4. Sent' /\ PendingHeld'
  BY <1>3 DEF ItemsInv, Held, Sent, Known, PendingHeld
<1>5. Cared'
  <2>1. ASSUME NEW k \in 1 .. Len(uploadFileBatchFutures) PROVE Cares(uploadFileBatchFutures[k])'
    <3>1. PICK b : b = uploadFileBatchFutures[k]
      OBVIOUS
    <3>2. Cares(b)
      BY <3>1, BatchIs
    <3>3. Cares(b)'
      BY <3>2 DEF Cares
    <3>4. QED
      BY <3>1, <3>3 DEF Cares
  <2>2. QED
    BY <2>1 DEF Cared
<1>6. Unique'
  <2> SUFFICES ASSUME NEW i \in Items \ reloaded PROVE UniqueIn(i)'
    BY DEF Unique
  <2>1. UniqueIn(i)
    BY DEF ItemsInv, Unique
  <2>2. QED
    BY <1>3, <2>1 DEF UniqueIn, Once, Unanswered, Live
<1>7. OneRightAnswer'
  BY DEF ItemsInv, OneRightAnswer
<1> QED
  BY <1>1, <1>2, <1>4, <1>5, <1>6, <1>7 DEF ItemsInv, Held

\* What sendEvent and sendSnap do.
LEMMA SendKeeps ==
    ASSUME ItemsInv, NEW x \in Items, fate[x] = "unsent", fate' = [fate EXCEPT ![x] = "pending"],
           UNCHANGED <<uploadFileBatchFutures, eventBatch, pc, wpc, before, told, reloaded>>,
           \/ x \in Snaps /\ snapBuffer' = Append(snapBuffer, x) /\ eventBuffer' = eventBuffer
           \/ eventBuffer' = Append(eventBuffer, x) /\ snapBuffer' = snapBuffer /\ pc # "stuck"
    PROVE  ItemsInv'
<1>1. snapBuffer \in Seq(Snaps) /\ eventBuffer \in Seq(Items) /\ fate \in [Items -> Fates]
  BY DEF ItemsInv, BuffersTyped, HistoryTyped
<1>2. /\ fate' \in [Items -> Fates] /\ fate'[x] = "pending"
      /\ \A i \in Items : i # x => fate'[i] = fate[i]
  BY <1>1 DEF Fates
<1>3. ~Known(x) /\ ~OnItsWay(x) /\ told[x] = "nothing"
  BY DEF Known, ItemsInv, Held, Sent
<1>4. /\ x \notin ToSet(snapBuffer) /\ x \notin ToSet(eventBuffer) /\ ~InBatch(x)
      /\ \A w \in Waiters : x \notin before[w]
  BY <1>3 DEF OnItsWay, ItemsInv, Held, Sent
<1>5. /\ snapBuffer' \in Seq(Snaps) /\ eventBuffer' \in Seq(Items)
      /\ ToSet(snapBuffer') \cup ToSet(eventBuffer') = ToSet(snapBuffer) \cup ToSet(eventBuffer) \cup {x}
      /\ \A i : i # x => /\ i \in ToSet(snapBuffer') <=> i \in ToSet(snapBuffer)
                         /\ i \in ToSet(eventBuffer') <=> i \in ToSet(eventBuffer)
      /\ \A i : i # x /\ Once(eventBuffer, i) => Once(eventBuffer', i)
      /\ \A i : i # x /\ Once(snapBuffer, i) => Once(snapBuffer', i)
      /\ x \in ToSet(snapBuffer') => Once(snapBuffer', x) /\ x \notin ToSet(eventBuffer')
      /\ x \in ToSet(eventBuffer') => Once(eventBuffer', x) /\ x \notin ToSet(snapBuffer') /\ pc # "stuck"
  <2>1. CASE x \in Snaps /\ snapBuffer' = Append(snapBuffer, x) /\ eventBuffer' = eventBuffer
    BY <1>1, <1>4, <2>1, AppendElements
  <2>2. CASE eventBuffer' = Append(eventBuffer, x) /\ snapBuffer' = snapBuffer /\ pc # "stuck"
    BY <1>1, <1>4, <2>2, AppendElements
  <2>3. QED
    BY <2>1, <2>2
<1>6. BuffersTyped' /\ HistoryTyped'
  BY <1>2, <1>5 DEF ItemsInv, BuffersTyped, HistoryTyped
<1>7. \A i : InBatch(i)' <=> InBatch(i)
  BY DEF InBatch, Batches
<1>8. \A i : OnItsWay(i)' <=> OnItsWay(i) \/ i = x
  BY <1>5, <1>7 DEF OnItsWay
<1>9. Sent' /\ PendingHeld'
  <2>1. \A i \in Items : Known(i)' <=> Known(i) \/ i = x
    BY <1>2 DEF Known
  <2>2. \A i \in Items : OnItsWay(i)' => Known(i)'
    BY <1>8, <2>1 DEF ItemsInv, Held, Sent
  <2>3. \A w \in Waiters : \A i \in before[w] : i \in Items /\ Known(i)
    BY DEF ItemsInv, HistoryTyped, Held, Sent
  <2>4. \A i \in Items : ~Known(i)' => told[i] = "nothing"
    BY <2>1 DEF ItemsInv, Held, Sent
  <2>5. Sent'
    BY <2>1, <2>2, <2>3, <2>4 DEF Sent
  <2>6. PendingHeld'
    BY <1>2, <1>8 DEF ItemsInv, Held, PendingHeld
  <2>7. QED
    BY <2>5, <2>6
<1>10. Cared'
  <2>1. ASSUME NEW k \in 1 .. Len(uploadFileBatchFutures) PROVE Cares(uploadFileBatchFutures[k])'
    <3>1. PICK b : b = uploadFileBatchFutures[k]
      OBVIOUS
    <3>2. Cares(b) /\ \A i \in ToSet(b.snaps) : InBatch(i) /\ i \in Items
      BY <3>1, BatchIs
    <3>3. \A i \in ToSet(b.snaps) :
             fate'[i] = fate[i] /\ (i \in ToSet(eventBuffer) => i \in ToSet(eventBuffer'))
      BY <1>2, <1>4, <1>5, <3>2
    <3>4. Cares(b)'
      BY <3>2, <3>3 DEF Cares
    <3>5. QED
      BY <3>1, <3>4 DEF Cares
  <2>2. QED
    BY <2>1 DEF Cared
<1>11. Posting'
  <2>1. Len(eventBuffer') >= Len(eventBuffer) /\ Len(eventBuffer) \in Nat
        /\ \A j \in 1 .. Len(eventBuffer) : eventBuffer'[j] = eventBuffer[j]
    BY <1>1
  <2>2. Len(eventBatch) \in Nat /\ Len(eventBuffer') \in Nat
    BY <1>5 DEF ItemsInv, BuffersTyped
  <2>3. Posting
    BY DEF ItemsInv, Held
  <2>4. QED
    BY <2>1, <2>2, <2>3 DEF Posting
<1>12. Settled'
  BY <1>2, <1>4 DEF ItemsInv, HistoryTyped, Held, Settled
<1>13. Unique'
  <2> SUFFICES ASSUME NEW i \in Items \ reloaded PROVE UniqueIn(i)'
    BY DEF Unique
  <2>1. UniqueIn(i)
    BY DEF ItemsInv, Unique
  <2>2. CASE i = x
    <3>1. Unanswered(i)'
      BY <1>2, <1>3, <2>2 DEF Unanswered
    <3>2. ~InBatch(i)' /\ \A k \in 1 .. Len(uploadFileBatchFutures') :
                               i \notin ToSet(uploadFileBatchFutures'[k].snaps)
      BY <1>4, <1>6, <1>7, <2>2, BatchesAre
    <3>3. QED
      BY <1>5, <2>2, <3>1, <3>2 DEF UniqueIn, Once
  <2>3. CASE i # x
    <3>1. Unanswered(i)' <=> Unanswered(i)
      BY <1>2, <2>3 DEF Unanswered
    <3>2. QED
      BY <1>5, <1>7, <2>1, <2>3, <3>1 DEF UniqueIn, Once, Live
  <2>4. QED
    BY <2>2, <2>3
<1>14. OneRightAnswer'
  BY <1>2, <1>3 DEF ItemsInv, OneRightAnswer
<1> QED
  BY <1>6, <1>9, <1>10, <1>11, <1>12, <1>13, <1>14 DEF ItemsInv, Held

\* A snap from the cache joins snapBuffer.
LEMMA UploadCachedSnapsKeeps ==
    ASSUME ItemsInv, NEW s \in Snaps, Known(s), uploadCachedSnaps(s)
    PROVE  ItemsInv'
<1>1. /\ pc = "cached" /\ snapBuffer' = Append(snapBuffer, s) /\ reloaded' = reloaded \cup {s}
      /\ UNCHANGED <<eventBuffer, uploadFileBatchFutures, told, pc, eventBatch, wpc, before>>
  BY DEF uploadCachedSnaps, thread, waits
<1>2. snapBuffer \in Seq(Snaps) /\ s \in Items
  BY DEF ItemsInv, BuffersTyped, Items
<1>3. /\ fate' \in [Items -> Fates]
      /\ \A i \in Items : fate'[i] # fate[i] => i = s /\ fate[i] = "pending" /\ fate'[i] = "lost"
  <2>1. CASE fate' = Meets(fate, {s}, "lost")
    <3>1. PICK is : is = {s}
      OBVIOUS
    <3>2. is \subseteq Items /\ fate' = Meets(fate, is, "lost") /\ "lost" \in Fates
      BY <1>2, <2>1, <3>1 DEF Fates
    <3>3. /\ fate' \in [Items -> Fates]
          /\ \A i \in Items : fate'[i] # fate[i] =>
                fate[i] = "pending" /\ fate'[i] = "lost" /\ i \in is
      BY <3>2, FatesMetAre
    <3>4. \A i \in is : i = s
      BY <3>1
    <3>5. QED
      BY <3>3, <3>4
  <2>2. CASE fate' = fate
    BY <2>2 DEF ItemsInv, HistoryTyped
  <2>3. QED
    BY <2>1, <2>2 DEF uploadCachedSnaps
<1>4. \A i \in Items : /\ fate'[i] = "pending" => fate[i] = "pending"
                       /\ Known(i)' <=> Known(i)
  BY <1>3 DEF Known
<1>5. /\ snapBuffer' \in Seq(Snaps) /\ ToSet(snapBuffer') = ToSet(snapBuffer) \cup {s}
      /\ \A i : i # s /\ Once(snapBuffer, i) => Once(snapBuffer', i)
  BY <1>1, <1>2, AppendElements
<1>6. BuffersTyped' /\ HistoryTyped'
  BY <1>1, <1>3, <1>5 DEF ItemsInv, BuffersTyped, HistoryTyped
<1>7. \A i : InBatch(i)' <=> InBatch(i)
  BY <1>1 DEF InBatch, Batches
<1>8. \A i : OnItsWay(i)' <=> OnItsWay(i) \/ i = s
  BY <1>1, <1>5, <1>7 DEF OnItsWay
<1>9. Sent' /\ PendingHeld'
  <2>1. PendingHeld'
    BY <1>4, <1>8 DEF ItemsInv, Held, PendingHeld
  <2>2. \A w \in Waiters : \A i \in before[w] : i \in Items /\ Known(i)
    BY DEF ItemsInv, HistoryTyped, Held, Sent
  <2>3. Sent'
    BY <1>1, <1>4, <1>8, <2>2 DEF ItemsInv, Held, Sent
  <2>4. QED
    BY <2>1, <2>3
<1>10. Cared' /\ Posting' /\ Settled'
  <2>1. ASSUME NEW k \in 1 .. Len(uploadFileBatchFutures) PROVE Cares(uploadFileBatchFutures[k])'
    <3>1. PICK b : b = uploadFileBatchFutures[k]
      OBVIOUS
    <3>2. Cares(b) /\ \A i \in ToSet(b.snaps) : i \in Items
      BY <3>1, BatchIs
    <3>3. Cares(b)'
      BY <1>1, <1>4, <3>2 DEF Cares
    <3>4. QED
      BY <1>1, <3>1, <3>3 DEF Cares
  <2>2. Cared'
    BY <1>1, <2>1 DEF Cared
  <2>3. Posting'
    BY <1>1 DEF ItemsInv, Held, Posting
  <2>4. Settled'
    BY <1>1, <1>4 DEF ItemsInv, HistoryTyped, Held, Settled
  <2>5. QED
    BY <2>2, <2>3, <2>4
<1>11. Unique'
  <2> SUFFICES ASSUME NEW i \in Items \ reloaded, i # s PROVE UniqueIn(i)'
    BY <1>1 DEF Unique
  <2>1. UniqueIn(i)
    BY DEF ItemsInv, Unique
  <2>2. QED
    BY <1>1, <1>5, <1>7, <1>3, <2>1 DEF UniqueIn, Once, Unanswered, Live
<1>12. OneRightAnswer'
  BY <1>1, <1>3 DEF ItemsInv, OneRightAnswer
<1> QED
  BY <1>6, <1>9, <1>10, <1>11, <1>12 DEF ItemsInv, Held

LEMMA NewBatchIs ==
    ASSUME NEW first \in Seq(Snaps), NEW c, c = NewBatch(first)
    PROVE  /\ c \in BatchRecords /\ c.snaps = first /\ c.phase = "prepare"
           /\ DOMAIN c.group = ToSet(first) /\ Cares(c)'
<1>1. ToSet(first) \in SUBSET Snaps
  BY ElementsOf
<1>2. PICK g : g = [s \in ToSet(first) |-> "whole"]
  OBVIOUS
<1>3. g \in [ToSet(first) -> GroupStates] /\ g \in Groups /\ \A s \in ToSet(first) : g[s] = "whole"
  BY <1>1, <1>2 DEF GroupStates, Groups
<1>4. c = [snaps |-> first, phase |-> "prepare", attempt |-> 0, group |-> g, left |-> first]
  BY <1>2 DEF NewBatch
<1>5. /\ c.snaps = first /\ c.phase = "prepare" /\ c.group = g /\ c.left = first
      /\ c \in BatchRecords
  BY <1>3, <1>4 DEF BatchRecords, Phases
<1>6. Cares(c)'
  BY <1>3, <1>5 DEF Cares
<1> QED
  BY <1>3, <1>5, <1>6

LEMMA TakeBatchKeeps ==
    ASSUME ItemsInv, takeBatch
    PROVE  ItemsInv'
<1> DEFINE F == uploadFileBatchFutures
<1>1. PICK n : n = Least(Len(snapBuffer), maxGroupsPerBatch)
  OBVIOUS
<1>2. PICK first : first = SubSeq(snapBuffer, 1, n)
  OBVIOUS
<1>3. PICK c : c = NewBatch(first)
  OBVIOUS
<1>4. /\ pc = "take" /\ pc' = "events"
      /\ snapBuffer' = SubSeq(snapBuffer, n + 1, Len(snapBuffer))
      /\ F' = IF n = 0 THEN F ELSE Append(F, c)
      /\ UNCHANGED <<eventBuffer, told, fate, reloaded, eventBatch, wpc, before>>
  BY <1>1, <1>2, <1>3 DEF takeBatch, Goto, waits, history
<1>5. snapBuffer \in Seq(Snaps) /\ Len(snapBuffer) \in Nat /\ F \in Seq(BatchRecords)
  BY DEF ItemsInv, BuffersTyped
<1>6. maxGroupsPerBatch \in Nat
  BY EventsAssumption
<1>7. n \in 0 .. Len(snapBuffer)
  BY <1>1, <1>5, <1>6 DEF Least
<1>8. /\ first \in Seq(Snaps) /\ snapBuffer' \in Seq(Snaps) /\ Len(first) = n
      /\ ToSet(snapBuffer) = ToSet(first) \cup ToSet(snapBuffer')
      /\ \A y : Once(snapBuffer, y) => /\ Once(first, y) /\ Once(snapBuffer', y)
                                       /\ ~(y \in ToSet(first) /\ y \in ToSet(snapBuffer'))
  BY <1>2, <1>4, <1>5, <1>7, PartsElements
<1>9. /\ c \in BatchRecords /\ c.snaps = first /\ c.phase = "prepare"
      /\ DOMAIN c.group = ToSet(first) /\ Cares(c)'
  BY <1>3, <1>8, NewBatchIs
<1>10. n = 0 => ToSet(first) = {}
  <2>1. \A x : x \in ToSet(first) <=> \E i \in 1 .. Len(first) : first[i] = x
    BY <1>8, ElementsOf
  <2>2. n = 0 => 1 .. Len(first) = {}
    BY <1>8
  <2>3. QED
    BY <2>1, <2>2
<1>11. /\ F' \in Seq(BatchRecords) /\ Len(F) \in Nat /\ Len(F') \in Nat
       /\ n = 0 => F' = F
       /\ n # 0 => Len(F') = Len(F) + 1 /\ F'[Len(F) + 1] = c
       /\ \A l \in 1 .. Len(F) : l \in 1 .. Len(F') /\ F'[l] = F[l]
  BY <1>4, <1>5, <1>9
<1>12. \A l \in 1 .. Len(F') : \/ l \in 1 .. Len(F) /\ F'[l] = F[l]
                               \/ n # 0 /\ l = Len(F) + 1 /\ F'[l] = c
  <2>1. CASE n = 0
    BY <1>4, <2>1
  <2>2. CASE n # 0
    <3>1. \A l \in 1 .. Len(F') : l \in 1 .. Len(F) \/ l = Len(F) + 1
      BY <1>11, <2>2
    <3>2. QED
      BY <1>11, <2>2, <3>1
  <2>3. QED
    BY <2>1, <2>2
<1>13. BuffersTyped' /\ HistoryTyped'
  <2>1. \A l \in 1 .. Len(F) : DOMAIN F[l].group = ToSet(F[l].snaps)
    BY DEF ItemsInv, BuffersTyped
  <2>2. \A l \in 1 .. Len(F') : DOMAIN F'[l].group = ToSet(F'[l].snaps)
    BY <1>9, <1>12, <2>1
  <2>3. QED
    BY <1>4, <1>8, <1>11, <2>2 DEF ItemsInv, BuffersTyped, HistoryTyped
<1>14. \A i : InBatch(i)' <=> InBatch(i) \/ i \in ToSet(first)
  <2>1. ASSUME NEW i, InBatch(i)' PROVE InBatch(i) \/ i \in ToSet(first)
    <3>1. PICK l \in 1 .. Len(F') : i \in ToSet(F'[l].snaps)
      BY <1>13, <2>1, BatchesAre
    <3>2. QED
      BY <1>9, <1>12, <3>1, BatchesAre DEF ItemsInv
  <2>2. ASSUME NEW i, InBatch(i) PROVE InBatch(i)'
    <3>1. PICK l \in 1 .. Len(F) : i \in ToSet(F[l].snaps)
      BY <2>2, BatchesAre DEF ItemsInv
    <3>2. l \in 1 .. Len(F') /\ i \in ToSet(F'[l].snaps)
      BY <1>11, <3>1
    <3>3. QED
      BY <1>13, <3>2, BatchesAre
  <2>3. ASSUME NEW i \in ToSet(first) PROVE InBatch(i)'
    <3>1. Len(F) + 1 \in 1 .. Len(F') /\ i \in ToSet(F'[Len(F) + 1].snaps)
      BY <1>9, <1>10, <1>11, <2>3
    <3>2. QED
      BY <1>13, <3>1, BatchesAre
  <2>4. QED
    BY <2>1, <2>2, <2>3
<1>15. \A i : OnItsWay(i)' <=> OnItsWay(i)
  BY <1>4, <1>8, <1>14 DEF OnItsWay
<1>16. Sent' /\ PendingHeld' /\ Posting' /\ Settled'
  BY <1>4, <1>15 DEF ItemsInv, Held, Sent, Known, PendingHeld, Posting, Settled
<1>17. Cared'
  <2>1. ASSUME NEW l \in 1 .. Len(F'), l \in 1 .. Len(F), F'[l] = F[l] PROVE Cares(F[l])'
    <3>1. PICK d : d = F[l]
      OBVIOUS
    <3>2. Cares(d) /\ F'[l] = d
      BY <2>1, <3>1, BatchIs
    <3>3. Cares(d)'
      BY <1>4, <3>2 DEF Cares
    <3>4. QED
      BY <3>2, <3>3 DEF Cares
  <2>2. ASSUME NEW l \in 1 .. Len(F'), F'[l] = c PROVE Cares(F[l])'
    BY <1>9, <2>2 DEF Cares
  <2>3. QED
    BY <1>12, <2>1, <2>2 DEF Cared
<1>18. Unique'
  <2> SUFFICES ASSUME NEW i \in Items \ reloaded PROVE UniqueIn(i)'
    BY <1>4 DEF Unique
  <2>1. UniqueIn(i)
    BY DEF ItemsInv, Unique
  <2>2. Unanswered(i)' <=> Unanswered(i)
    BY <1>4 DEF Unanswered
  <2>3. i \in ToSet(first) =>
          Unanswered(i) /\ i \notin ToSet(eventBuffer) /\ ~InBatch(i) /\ i \notin ToSet(snapBuffer')
    BY <1>8, <2>1 DEF UniqueIn
  <2>4. i \in ToSet(snapBuffer)' =>
          Unanswered(i)' /\ Once(snapBuffer, i)' /\ i \notin ToSet(eventBuffer)' /\ ~InBatch(i)'
    <3>1. i \in ToSet(snapBuffer') =>
             /\ Unanswered(i) /\ i \notin ToSet(eventBuffer) /\ ~InBatch(i) /\ i \notin ToSet(first)
             /\ Once(snapBuffer', i)
      BY <1>8, <2>1 DEF UniqueIn
    <3>2. QED
      BY <1>4, <1>14, <2>2, <3>1 DEF Once
  <2>5. i \in ToSet(eventBuffer)' => (pc' # "stuck" => Unanswered(i)') /\ Once(eventBuffer, i)'
    BY <1>4, <2>1, <2>2 DEF UniqueIn, Once
  <2>6. \A l \in 1 .. Len(F) : i \in ToSet(F[l].snaps) => InBatch(i)
    BY BatchesAre DEF ItemsInv
  <2>7. ASSUME NEW l \in 1 .. Len(F'), i \in ToSet(F'[l].snaps)
        PROVE  /\ Live(F'[l], i) => Unanswered(i)' /\ i \notin ToSet(eventBuffer)'
               /\ i \in ToSet(eventBuffer)' => F'[l].group[i] = "uploaded"
               /\ \A m \in 1 .. Len(F') : i \in ToSet(F'[m].snaps) => l = m
    <3>1. CASE l \in 1 .. Len(F) /\ F'[l] = F[l]
      <4>1. InBatch(i) /\ i \notin ToSet(first)
        BY <2>3, <2>6, <2>7, <3>1
      <4>2. \A m \in 1 .. Len(F') : i \in ToSet(F'[m].snaps) => m \in 1 .. Len(F) /\ F'[m] = F[m]
        BY <1>9, <1>12, <4>1
      <4>3. /\ Live(F[l], i) => Unanswered(i) /\ i \notin ToSet(eventBuffer)
            /\ i \in ToSet(eventBuffer) => F[l].group[i] = "uploaded"
            /\ \A m \in 1 .. Len(F) : i \in ToSet(F[m].snaps) => l = m
        BY <2>1, <2>7, <3>1 DEF UniqueIn
      <4>4. QED
        BY <1>4, <2>2, <3>1, <4>2, <4>3
    <3>2. CASE n # 0 /\ l = Len(F) + 1 /\ F'[l] = c
      <4>1. i \in ToSet(first)
        BY <1>9, <2>7, <3>2
      <4>2. Unanswered(i) /\ i \notin ToSet(eventBuffer) /\ ~InBatch(i)
        BY <2>3, <4>1
      <4>3. \A m \in 1 .. Len(F') : i \in ToSet(F'[m].snaps) => m = l
        BY <1>12, <2>6, <3>2, <4>2
      <4>4. QED
        BY <1>4, <2>2, <4>2, <4>3
    <3>3. QED
      BY <1>12, <3>1, <3>2
  <2>8. QED
    BY <2>4, <2>5, <2>7 DEF UniqueIn
<1>19. OneRightAnswer'
  BY <1>4 DEF ItemsInv, OneRightAnswer
<1> QED
  BY <1>13, <1>16, <1>17, <1>18, <1>19 DEF ItemsInv, Held

\* An answer for the oldest items of eventBuffer, or for all of them.
LEMMA AnswerKeeps ==
    ASSUME ItemsInv, pc = "post", NEW is,
           UNCHANGED <<snapBuffer, uploadFileBatchFutures, reloaded, wpc, before>>,
           eventBatch' = <<>>, pc' = "check", eventBuffer' \in Seq(Items), HistoryTyped',
           ToSet(eventBuffer) = is \cup ToSet(eventBuffer'),
           \A i \in Items : Once(eventBuffer, i) =>
               Once(eventBuffer', i) /\ ~(i \in is /\ i \in ToSet(eventBuffer')),
           \A i \in Items : fate'[i] # fate[i] =>
               fate[i] = "pending" /\ fate'[i] \notin {"unsent", "never", "pending"},
           \A i \in Items : i \notin is => fate'[i] = fate[i] /\ told'[i] = told[i],
           \A i \in Items : i \in is => fate'[i] # "pending",
           OneRightAnswer'
    PROVE  ItemsInv'
<1>1. BuffersTyped'
  BY DEF ItemsInv, BuffersTyped
<1>2. \A i : InBatch(i)' <=> InBatch(i)
  BY DEF InBatch, Batches
<1>3. /\ \A i : OnItsWay(i)' => OnItsWay(i)
      /\ \A i : OnItsWay(i) => OnItsWay(i)' \/ i \in is
  BY <1>2 DEF OnItsWay
<1>4. \A i \in Items : (Known(i)' <=> Known(i)) /\ (fate'[i] = "pending" => fate[i] = "pending")
  BY DEF Known
<1>5. Sent'
  <2>1. \A i \in Items : OnItsWay(i)' => Known(i)'
    BY <1>3, <1>4 DEF ItemsInv, Held, Sent
  <2>2. \A w \in Waiters : \A i \in before[w] : i \in Items /\ Known(i)
    BY DEF ItemsInv, HistoryTyped, Held, Sent
  <2>3. ASSUME NEW i \in Items, ~Known(i) PROVE told'[i] = "nothing"
    <3>1. ~OnItsWay(i) /\ told[i] = "nothing"
      BY <2>3 DEF ItemsInv, Held, Sent
    <3>2. i \notin is
      BY <3>1 DEF OnItsWay
    <3>3. QED
      BY <3>1, <3>2
  <2>4. QED
    BY <1>4, <2>1, <2>2, <2>3 DEF Sent
<1>6. PendingHeld'
  BY <1>3, <1>4 DEF ItemsInv, Held, PendingHeld
<1>7. Cared'
  <2>1. ASSUME NEW k \in 1 .. Len(uploadFileBatchFutures) PROVE Cares(uploadFileBatchFutures[k])'
    <3>1. PICK b : b = uploadFileBatchFutures[k]
      OBVIOUS
    <3>2. Cares(b) /\ \A i \in ToSet(b.snaps) : i \in Items
      BY <3>1, BatchIs
    <3>3. \A i \in ToSet(b.snaps) : fate'[i] = "pending" =>
             fate[i] = "pending" /\ (i \in ToSet(eventBuffer) => i \in ToSet(eventBuffer'))
      BY <1>4, <3>2
    <3>4. Cares(b)'
      BY <3>2, <3>3 DEF Cares
    <3>5. QED
      BY <3>1, <3>4 DEF Cares
  <2>2. QED
    BY <2>1 DEF Cared
<1>8. Posting'
  BY DEF Posting
<1>9. Settled'
  BY <1>4 DEF ItemsInv, HistoryTyped, Held, Settled
<1>10. Unique'
  <2> SUFFICES ASSUME NEW i \in Items \ reloaded PROVE UniqueIn(i)'
    BY DEF Unique
  <2>1. UniqueIn(i)
    BY DEF ItemsInv, Unique
  <2>2. i \notin is => (Unanswered(i)' <=> Unanswered(i))
    BY DEF Unanswered
  <2>3. i \in is \/ i \in ToSet(eventBuffer') => i \in ToSet(eventBuffer)
    OBVIOUS
  <2>4. i \in ToSet(snapBuffer)' =>
          Unanswered(i)' /\ Once(snapBuffer, i)' /\ i \notin ToSet(eventBuffer)' /\ ~InBatch(i)'
    BY <1>2, <2>1, <2>2, <2>3 DEF UniqueIn, Once
  <2>5. i \in ToSet(eventBuffer)' => (pc' # "stuck" => Unanswered(i)') /\ Once(eventBuffer, i)'
    <3>1. i \in ToSet(eventBuffer') => Once(eventBuffer', i) /\ i \notin is /\ Unanswered(i)
      BY <2>1, <2>3 DEF UniqueIn
    <3>2. QED
      BY <2>2, <3>1 DEF Once
  <2>6. ASSUME NEW l \in 1 .. Len(uploadFileBatchFutures), i \in ToSet(uploadFileBatchFutures[l].snaps)
        PROVE  /\ Live(uploadFileBatchFutures[l], i) => Unanswered(i)' /\ i \notin ToSet(eventBuffer')
               /\ i \in ToSet(eventBuffer') => uploadFileBatchFutures[l].group[i] = "uploaded"
               /\ \A m \in 1 .. Len(uploadFileBatchFutures) :
                     i \in ToSet(uploadFileBatchFutures[m].snaps) => l = m
    BY <2>1, <2>2, <2>3, <2>6 DEF UniqueIn
  <2>7. QED
    BY <2>4, <2>5, <2>6 DEF UniqueIn, Live
<1> QED
  BY <1>1, <1>5, <1>6, <1>7, <1>8, <1>9, <1>10 DEF ItemsInv, Held

LEMMA PostFailsKeeps ==
    ASSUME ItemsInv, postFails
    PROVE  ItemsInv'
<1>1. /\ pc = "post" /\ eventBatch' = <<>>
      /\ UNCHANGED <<snapBuffer, uploadFileBatchFutures, reloaded, wpc, before>>
  BY DEF postFails, waits
<1>2. /\ eventBuffer \in Seq(Items) /\ fate \in [Items -> Fates] /\ HistoryTyped
      /\ told \in [Items -> {"nothing", "success", "failure", "twice"}]
  BY DEF ItemsInv, BuffersTyped, HistoryTyped
<1>3. PICK is : is = ToSet(eventBuffer)
  OBVIOUS
<1>4. is \subseteq Items /\ \A i \in is \ reloaded : Unanswered(i) /\ Once(eventBuffer, i)
  <2>1. is \subseteq Items
    BY <1>2, <1>3, ElementsOf
  <2>2. QED
    BY <1>1, <1>3, <2>1 DEF ItemsInv, Unique, UniqueIn
<1>5. CASE UNCHANGED <<eventBuffer, told, fate>> /\ Goto("check")
  <2>1. pc' = "check" /\ eventBatch' \in Seq(Items) /\ Posting'
    BY <1>1, <1>5 DEF Goto, Posting
  <2>2. before' \in [Waiters -> SUBSET Items] /\ Settled'
    BY <1>1, <1>5 DEF ItemsInv, HistoryTyped, Held, Settled
  <2>3. \A w \in Waiters : \A i \in before'[w] : Known(i)
    BY <1>1 DEF ItemsInv, Held, Sent
  <2>4. QED
    BY <1>1, <1>5, <2>1, <2>2, <2>3, QuietKeeps
<1>6. ASSUME told' = Tell(told, is, "failure")
      PROVE  /\ told' \in [Items -> {"nothing", "success", "failure", "twice"}]
             /\ \A i \in Items : i \in is \ reloaded => told'[i] = "failure"
             /\ \A i \in Items : i \notin is \ reloaded => told'[i] = told[i]
  <2>1. \A i \in is \ reloaded : told[i] = "nothing"
    BY <1>4 DEF Unanswered
  <2>2. QED
    BY <1>2, <1>6, <2>1, TellIs
<1>7. OneRightAnswer
  BY DEF ItemsInv
<1>8. CASE told' = Tell(told, is, "failure") /\ UNCHANGED <<eventBuffer, fate>> /\ Goto("stuck")
  <2>1. /\ told' \in [Items -> {"nothing", "success", "failure", "twice"}]
        /\ \A i \in Items : i \in is \ reloaded => told'[i] = "failure"
        /\ \A i \in Items : i \notin is \ reloaded => told'[i] = told[i]
    BY <1>6, <1>8
  <2>2. pc' = "stuck" /\ BuffersTyped' /\ HistoryTyped'
    BY <1>1, <1>2, <1>8, <2>1 DEF Goto, ItemsInv, BuffersTyped, HistoryTyped
  <2>3. \A i : (InBatch(i)' <=> InBatch(i)) /\ (OnItsWay(i)' <=> OnItsWay(i))
    BY <1>1, <1>8 DEF InBatch, Batches, OnItsWay
  <2>4. \A i \in is : Known(i)
    BY <1>3, <1>4 DEF OnItsWay, ItemsInv, Held, Sent
  <2>5. Sent' /\ PendingHeld' /\ Settled'
    BY <1>1, <1>8, <2>1, <2>3, <2>4 DEF ItemsInv, Held, Sent, Known, PendingHeld, Settled
  <2>6. Cared' /\ Posting'
    BY <1>1, <1>8, <2>2 DEF ItemsInv, Held, Cared, Cares, Posting
  <2>7. Unique'
    <3> SUFFICES ASSUME NEW i \in Items \ reloaded PROVE UniqueIn(i)'
      BY <1>1 DEF Unique
    <3>1. UniqueIn(i)
      BY DEF ItemsInv, Unique
    <3>2. i \notin ToSet(eventBuffer) => (Unanswered(i)' <=> Unanswered(i))
      BY <1>3, <1>8, <2>1 DEF Unanswered
    <3>3. QED
      BY <1>1, <1>8, <2>2, <2>3, <3>1, <3>2 DEF UniqueIn, Once, Live
  <2>8. OneRightAnswer'
    <3>1. \A i \in is \ reloaded : fate[i] = "pending"
      BY <1>4 DEF Unanswered
    <3>2. \A i \in Items \ is : told'[i] = told[i]
      BY <2>1
    <3>3. \A i \in Items : i \in is \ reloaded \/ told'[i] = told[i]
      BY <2>1
    <3>4. QED
      BY <1>1, <1>7, <1>8, <2>1, <3>1, <3>3 DEF OneRightAnswer
  <2>9. QED
    BY <2>2, <2>5, <2>6, <2>7, <2>8 DEF ItemsInv, Held
<1>9. CASE /\ told' = Tell(told, is, "failure") /\ eventBuffer' = <<>>
           /\ fate' = Meets(fate, is, "dropped") /\ Goto("check")
  <2>1. /\ told' \in [Items -> {"nothing", "success", "failure", "twice"}]
        /\ \A i \in Items : i \in is \ reloaded => told'[i] = "failure"
        /\ \A i \in Items : i \notin is \ reloaded => told'[i] = told[i]
    BY <1>6, <1>9
  <2>2. "dropped" \in Fates
    BY DEF Fates
  <2>3. /\ fate' \in [Items -> Fates]
        /\ \A i \in Items : fate'[i] # fate[i] => fate[i] = "pending" /\ fate'[i] = "dropped" /\ i \in is
        /\ \A i \in is : fate'[i] # "pending"
    BY <1>4, <1>9, <2>2, FatesMetAre
  <2>4. HistoryTyped'
    BY <1>1, <1>2, <2>1, <2>3 DEF HistoryTyped
  <2>5. OneRightAnswer'
    <3>1. \A i \in is \ reloaded : fate[i] = "pending"
      BY <1>4 DEF Unanswered
    <3>2. \A i \in Items : i \in is \ reloaded \/ told'[i] = told[i]
      BY <2>1
    <3>3. \A i \in Items : fate'[i] = "accepted" <=> fate[i] = "accepted"
      BY <2>3
    <3>4. QED
      BY <1>1, <1>7, <2>1, <3>1, <3>2, <3>3 DEF OneRightAnswer
  <2>6. /\ eventBuffer' \in Seq(Items) /\ ToSet(eventBuffer') = {} /\ pc' = "check"
        /\ \A i : Once(eventBuffer', i)
    BY <1>9, NoElements DEF Once, Goto
  <2>7. \A i \in Items : i \notin is => fate'[i] = fate[i] /\ told'[i] = told[i]
    BY <2>1, <2>3
  <2>8. \A i \in Items : fate'[i] # fate[i] =>
           fate[i] = "pending" /\ fate'[i] \notin {"unsent", "never", "pending"}
    BY <2>3
  <2>9. ToSet(eventBuffer) = is \cup ToSet(eventBuffer')
    BY <1>3, <2>6
  <2>10. QED
    BY <1>1, <2>3, <2>4, <2>5, <2>6, <2>7, <2>8, <2>9, AnswerKeeps
<1> QED
  BY <1>3, <1>5, <1>8, <1>9 DEF postFails

LEMMA PostSucceedsKeeps ==
    ASSUME ItemsInv, postSucceeds
    PROVE  ItemsInv'
<1> DEFINE Answers(accepted, yes, no) ==
             /\ yes = {eventBuffer[j] : j \in accepted}
             /\ no = {eventBuffer[j] : j \in DOMAIN eventBatch \ accepted}
             /\ told' = Tell(Tell(told, yes, "success"), no, "failure")
             /\ fate' = Meets(Meets(fate, {eventBatch[j] : j \in accepted}, "accepted"),
                              ToSet(eventBatch), "rejected")
<1>0. PICK accepted \in SUBSET DOMAIN eventBatch : \E yes, no : Answers(accepted, yes, no)
  BY DEF postSucceeds
<1>a. PICK yes, no : Answers(accepted, yes, no)
  BY <1>0
<1>b. PICK n, is : n = Len(eventBatch) /\ is = ToSet(eventBatch)
  OBVIOUS
<1>1. /\ n = Len(eventBatch) /\ is = ToSet(eventBatch)
      /\ yes = {eventBuffer[j] : j \in accepted}
      /\ no = {eventBuffer[j] : j \in DOMAIN eventBatch \ accepted}
      /\ told' = Tell(Tell(told, yes, "success"), no, "failure")
      /\ fate' = Meets(Meets(fate, {eventBatch[j] : j \in accepted}, "accepted"), is, "rejected")
  BY <1>a, <1>b
<1>2. /\ pc = "post" /\ pc' = "check" /\ eventBatch' = <<>>
      /\ eventBuffer' = SubSeq(eventBuffer, n + 1, Len(eventBuffer))
      /\ UNCHANGED <<snapBuffer, uploadFileBatchFutures, reloaded, wpc, before>>
  BY <1>1 DEF postSucceeds, Goto, waits
<1>3. /\ eventBuffer \in Seq(Items) /\ eventBatch \in Seq(Items) /\ HistoryTyped
      /\ fate \in [Items -> Fates]
      /\ told \in [Items -> {"nothing", "success", "failure", "twice"}]
  BY DEF ItemsInv, BuffersTyped, HistoryTyped
<1>4. /\ n \in Nat /\ DOMAIN eventBatch = 1 .. n /\ Len(eventBuffer) \in Nat /\ n <= Len(eventBuffer)
      /\ \A j \in 1 .. n : eventBatch[j] = eventBuffer[j] /\ j \in 1 .. Len(eventBuffer)
  <2>1. Posting
    BY DEF ItemsInv, Held
  <2>2. n \in Nat /\ DOMAIN eventBatch = 1 .. n /\ Len(eventBuffer) \in Nat
    BY <1>1, <1>3
  <2>3. QED
    BY <1>1, <1>2, <2>1, <2>2 DEF Posting
<1>5. PICK first : first = SubSeq(eventBuffer, 1, n)
  OBVIOUS
<1>6. /\ first \in Seq(Items) /\ eventBuffer' \in Seq(Items) /\ Len(first) = n
      /\ \A j \in 1 .. n : first[j] = eventBuffer[j]
      /\ ToSet(eventBuffer) = ToSet(first) \cup ToSet(eventBuffer')
      /\ \A y : Once(eventBuffer, y) => /\ Once(first, y) /\ Once(eventBuffer', y)
                                        /\ ~(y \in ToSet(first) /\ y \in ToSet(eventBuffer'))
  <2>1. n \in 0 .. Len(eventBuffer)
    BY <1>4
  <2>2. PICK rest : rest = SubSeq(eventBuffer, n + 1, Len(eventBuffer))
    OBVIOUS
  <2>3. /\ first \in Seq(Items) /\ rest \in Seq(Items) /\ Len(first) = n
        /\ \A j \in 1 .. n : first[j] = eventBuffer[j]
        /\ ToSet(eventBuffer) = ToSet(first) \cup ToSet(rest)
        /\ \A y : Once(eventBuffer, y) => /\ Once(first, y) /\ Once(rest, y)
                                          /\ ~(y \in ToSet(first) /\ y \in ToSet(rest))
    BY <1>3, <1>5, <2>1, <2>2, PartsElements
  <2>4. QED
    BY <1>2, <2>2, <2>3
<1>7. \A x : x \in is <=> \E j \in 1 .. n : eventBuffer[j] = x
  BY <1>1, <1>3, <1>4, ElementsOf
<1>8. ToSet(first) = is
  <2>1. \A x : x \in ToSet(first) <=> \E j \in 1 .. n : first[j] = x
    BY <1>6, ElementsOf
  <2>2. \A x : x \in ToSet(first) <=> x \in is
    BY <1>6, <1>7, <2>1
  <2>3. QED
    BY <2>2
<1>9. is \subseteq Items /\ \A i \in is \ reloaded : Unanswered(i) /\ Once(eventBuffer, i)
  <2>1. is \subseteq Items
    BY <1>1, <1>3, ElementsOf
  <2>2. is \subseteq ToSet(eventBuffer)
    BY <1>6, <1>8
  <2>3. QED
    BY <1>2, <2>1, <2>2 DEF ItemsInv, Unique, UniqueIn
<1>10. /\ \A x : x \in yes <=> \E j \in accepted : eventBuffer[j] = x
       /\ \A x : x \in no <=> \E j \in 1 .. n : j \notin accepted /\ eventBuffer[j] = x
       /\ accepted \subseteq 1 .. n
  BY <1>1, <1>4
<1>11. \A x : x \in is <=> x \in yes \/ x \in no
  BY <1>7, <1>10
<1>12. \A i \in is \ reloaded : ~(i \in yes /\ i \in no)
  BY <1>4, <1>9, <1>10 DEF Once
<1>13. yes = {eventBatch[j] : j \in accepted}
  BY <1>1, <1>4, <1>10
<1>14. PICK told1 : told1 = Tell(told, yes, "success")
  OBVIOUS
<1>15. /\ told1 \in [Items -> {"nothing", "success", "failure", "twice"}]
       /\ \A i \in Items : i \in yes \ reloaded =>
             told1[i] = IF told[i] = "nothing" THEN "success" ELSE "twice"
       /\ \A i \in Items : i \notin yes \ reloaded => told1[i] = told[i]
  BY <1>3, <1>14, TellIs
<1>16. /\ told' \in [Items -> {"nothing", "success", "failure", "twice"}]
       /\ \A i \in Items : i \in no \ reloaded =>
             told'[i] = IF told1[i] = "nothing" THEN "failure" ELSE "twice"
       /\ \A i \in Items : i \notin no \ reloaded => told'[i] = told1[i]
  <2>1. told' = Tell(told1, no, "failure")
    BY <1>1, <1>14
  <2>2. QED
    BY <1>15, <2>1, TellIs
<1>17. /\ \A i \in is \ reloaded : i \in yes => told'[i] = "success"
       /\ \A i \in is \ reloaded : i \notin yes => told'[i] = "failure"
       /\ \A i \in Items : i \notin is \/ i \in reloaded => told'[i] = told[i]
  <2>1. \A i \in is \ reloaded : told[i] = "nothing" /\ i \in Items
    BY <1>9 DEF Unanswered
  <2>2. \A i \in is \ reloaded : i \in yes => told'[i] = "success"
    BY <1>12, <1>15, <1>16, <2>1
  <2>3. \A i \in is \ reloaded : i \notin yes => told'[i] = "failure"
    BY <1>11, <1>15, <1>16, <2>1
  <2>4. \A i \in Items : i \notin is \/ i \in reloaded => told'[i] = told[i]
    BY <1>11, <1>15, <1>16
  <2>5. QED
    BY <2>2, <2>3, <2>4
<1>18. PICK fate1 : fate1 = Meets(fate, yes, "accepted")
  OBVIOUS
<1>19. /\ fate1 \in [Items -> Fates]
       /\ \A i \in Items : i \in yes /\ fate[i] = "pending" => fate1[i] = "accepted"
       /\ \A i \in Items : i \notin yes \/ fate[i] # "pending" => fate1[i] = fate[i]
  <2>1. "accepted" \in Fates /\ fate \in [Items -> Fates]
    BY <1>3 DEF Fates
  <2>2. QED
    BY ONLY <1>18, <2>1, MeetsIs
<1>20. /\ fate' \in [Items -> Fates]
       /\ \A i \in Items : i \in is /\ fate1[i] = "pending" => fate'[i] = "rejected"
       /\ \A i \in Items : i \notin is \/ fate1[i] # "pending" => fate'[i] = fate1[i]
  <2>1. "rejected" \in Fates /\ fate' = Meets(fate1, is, "rejected")
    BY <1>1, <1>13, <1>18 DEF Fates
  <2>2. QED
    BY <1>19, <2>1, MeetsIs
<1>21. /\ \A i \in Items : i \in yes /\ fate[i] = "pending" => fate'[i] = "accepted"
       /\ \A i \in Items : i \in is /\ i \notin yes /\ fate[i] = "pending" => fate'[i] = "rejected"
       /\ \A i \in Items : i \notin is \/ fate[i] # "pending" => fate'[i] = fate[i]
  <2>1. \A i \in Items : i \in yes /\ fate[i] = "pending" => fate'[i] = "accepted"
    BY <1>19, <1>20
  <2>2. \A i \in Items : i \in is /\ i \notin yes /\ fate[i] = "pending" => fate'[i] = "rejected"
    BY <1>19, <1>20
  <2>3. \A i \in Items : i \notin is \/ fate[i] # "pending" => fate'[i] = fate[i]
    BY <1>11, <1>19, <1>20
  <2>4. QED
    BY <2>1, <2>2, <2>3
<1>22. /\ \A i \in Items : fate'[i] # fate[i] =>
             fate[i] = "pending" /\ fate'[i] \notin {"unsent", "never", "pending"}
       /\ \A i \in Items : i \notin is => fate'[i] = fate[i] /\ told'[i] = told[i]
       /\ \A i \in Items : i \in is => fate'[i] # "pending"
  BY <1>17, <1>21
<1>23. HistoryTyped'
  BY <1>2, <1>3, <1>16, <1>20 DEF HistoryTyped
<1>24. OneRightAnswer'
  <2> SUFFICES ASSUME NEW i \in Items
               PROVE  /\ told'[i] # "twice"
                      /\ told'[i] = "success" => fate'[i] = "accepted"
                      /\ fate'[i] = "accepted" => told'[i] = "success" \/ i \in reloaded
    BY <1>2 DEF OneRightAnswer
  <2>1. /\ told[i] # "twice"
        /\ told[i] = "success" => fate[i] = "accepted"
        /\ fate[i] = "accepted" => told[i] = "success" \/ i \in reloaded
    BY DEF ItemsInv, OneRightAnswer
  <2>2. CASE i \in is \ reloaded
    <3>1. fate[i] = "pending"
      BY <1>9, <2>2 DEF Unanswered
    <3>2. QED
      BY <1>17, <1>21, <2>2, <3>1
  <2>3. CASE i \in reloaded
    <3>1. told'[i] = told[i]
      BY <1>17, <2>3
    <3>2. told[i] = "success" => fate'[i] = "accepted"
      BY <1>21, <2>1
    <3>3. QED
      BY <2>1, <2>3, <3>1, <3>2
  <2>4. CASE i \notin is
    BY <1>22, <2>1, <2>4
  <2>5. QED
    BY <2>2, <2>3, <2>4
<1>25. \A i \in Items : Once(eventBuffer, i) =>
          Once(eventBuffer', i) /\ ~(i \in is /\ i \in ToSet(eventBuffer'))
  BY <1>6, <1>8
<1>26. ToSet(eventBuffer) = is \cup ToSet(eventBuffer')
  BY <1>6, <1>8
<1> QED
  BY <1>2, <1>6, <1>22, <1>23, <1>24, <1>25, <1>26, AnswerKeeps

\* A step of a waiter to p, with the items that bs names to wait for.
LEMMA WaiterKeeps ==
    ASSUME ItemsInv, wpc \in [Waiters -> Places], NEW w \in Waiters, NEW p, NEW bs \in SUBSET Items,
           UNCHANGED <<snapBuffer, eventBuffer, uploadFileBatchFutures, told, fate, reloaded, pc,
                       eventBatch>>,
           wpc' = [wpc EXCEPT ![w] = p], before' = [before EXCEPT ![w] = bs],
           \A i \in bs : Known(i),
           p \in {"finished", "true"} => \A i \in bs : fate[i] # "pending"
    PROVE  ItemsInv'
<1>1. before \in [Waiters -> SUBSET Items]
  BY DEF ItemsInv, HistoryTyped
<1>2. /\ before' \in [Waiters -> SUBSET Items] /\ before'[w] = bs
      /\ \A v \in Waiters : v # w => before'[v] = before[v]
  BY <1>1
<1>3. wpc'[w] = p /\ \A v \in Waiters : v # w => wpc'[v] = wpc[v]
  OBVIOUS
<1>4. \A v \in Waiters : \A i \in before'[v] : Known(i)
  BY <1>2 DEF ItemsInv, Held, Sent
<1>5. Settled'
  BY <1>2, <1>3 DEF ItemsInv, Held, Settled
<1>6. Posting' /\ eventBatch' \in Seq(Items)
  BY DEF ItemsInv, Held, Posting, BuffersTyped
<1> QED
  BY <1>2, <1>4, <1>5, <1>6, QuietKeeps

\* The same, of a waiter that still waits for what it waited for.
LEMMA WaiterMoves ==
    ASSUME ItemsInv, wpc \in [Waiters -> Places], NEW w \in Waiters, NEW p,
           UNCHANGED <<snapBuffer, eventBuffer, uploadFileBatchFutures, told, fate, reloaded, pc,
                       eventBatch, before>>,
           wpc' = [wpc EXCEPT ![w] = p],
           p \in {"finished", "true"} =>
               wpc[w] \in {"finished", "true"} \/ \A i \in Items : fate[i] # "pending"
    PROVE  ItemsInv'
<1>1. before \in [Waiters -> SUBSET Items]
  BY DEF ItemsInv, HistoryTyped
<1>2. PICK bs : bs = before[w]
  OBVIOUS
<1>3. bs \in SUBSET Items /\ before' = [before EXCEPT ![w] = bs]
  BY <1>1, <1>2
<1>4. \A i \in bs : Known(i)
  BY <1>2 DEF ItemsInv, Held, Sent
<1>5. p \in {"finished", "true"} => \A i \in bs : fate[i] # "pending"
  BY <1>2, <1>3 DEF ItemsInv, Held, Settled
<1> QED
  BY <1>3, <1>4, <1>5, WaiterKeeps

\* What the three containers show when they are looked at as one.
LEMMA FinishedIsSettled ==
    ASSUME ItemsInv, checkPendingUploadsFinished
    PROVE  \A i \in Items : fate[i] # "pending"
<1>1. ToSet(snapBuffer) = {} /\ ToSet(eventBuffer) = {}
  BY NoElements DEF checkPendingUploadsFinished
<1>2. ASSUME NEW k \in 1 .. Len(uploadFileBatchFutures)
      PROVE  ToSet(uploadFileBatchFutures[k].snaps) = {}
  <2>1. PICK b : b = uploadFileBatchFutures[k]
    OBVIOUS
  <2>2. b \in Batches
    <3>1. uploadFileBatchFutures \in Seq(BatchRecords)
      BY DEF ItemsInv, BuffersTyped
    <3>2. QED
      BY <2>1, <3>1, ElementsOf DEF Batches
  <2>3. Cares(b) /\ b.phase = "done"
    BY <2>1, <2>2, BatchIs DEF checkPendingUploadsFinished
  <2>4. QED
    BY <2>1, <2>3, NoElements DEF Cares
<1>3. \A i : ~InBatch(i)
  BY <1>2, BatchesAre DEF ItemsInv
<1>4. \A i : ~OnItsWay(i)
  BY <1>1, <1>3 DEF OnItsWay
<1> QED
  BY <1>4 DEF ItemsInv, Held, PendingHeld

LEMMA CallerKeeps ==
    ASSUME ItemsInv, wpc \in [Waiters -> Places],
           \/ \E e \in Events : sendEvent(e)
           \/ \E s \in Snaps : sendSnap(s)
           \/ stop
           \/ \E w \in Waiters : waitForPendingUploads(w) \/ WaiterStep(w) \/ waitsAgain(w)
    PROVE  ItemsInv'
<1>1. ASSUME NEW e \in Events, sendEvent(e) PROVE ItemsInv'
  <2>1. e \in Items
    BY DEF Items
  <2>2. QED
    BY <1>1, <2>1, SendKeeps DEF sendEvent, EventBufferFree, thread, waits
<1>2. ASSUME NEW s \in Snaps, sendSnap(s) PROVE ItemsInv'
  <2>1. s \in Items
    BY DEF Items
  <2>2. QED
    BY <1>2, <2>1, SendKeeps DEF sendSnap, thread, waits
<1>3. CASE stop
  <2>1. /\ UNCHANGED <<snapBuffer, eventBuffer, uploadFileBatchFutures, told, fate, reloaded, pc,
                       eventBatch, before>>
        /\ wpc' = [w \in Waiters |-> IF wpc[w] = "parked" THEN "woken" ELSE wpc[w]]
    BY <1>3 DEF stop, buffers, thread, history
  <2>2. \A w \in Waiters : wpc'[w] \in {"finished", "true"} => wpc[w] \in {"finished", "true"}
    BY <2>1
  <2>3. Settled'
    BY <2>1, <2>2 DEF ItemsInv, Held, Settled
  <2>4. Posting' /\ eventBatch' \in Seq(Items) /\ before' \in [Waiters -> SUBSET Items]
    BY <2>1 DEF ItemsInv, Held, Posting, BuffersTyped, HistoryTyped
  <2>5. \A w \in Waiters : \A i \in before'[w] : Known(i)
    BY <2>1 DEF ItemsInv, Held, Sent
  <2>6. QED
    BY <2>1, <2>3, <2>4, <2>5, QuietKeeps
<1>4. ASSUME NEW w \in Waiters PROVE waitForPendingUploads(w) => ItemsInv'
  <2> SUFFICES ASSUME waitForPendingUploads(w) PROVE ItemsInv'
    OBVIOUS
  <2>1. PICK p : p = IF checkPendingUploadsFinished THEN "finished" ELSE "begin"
    OBVIOUS
  <2>2. PICK bs : bs = {i \in Items : fate[i] = "pending"}
    OBVIOUS
  <2>3. /\ wpc' = [wpc EXCEPT ![w] = p] /\ before' = [before EXCEPT ![w] = bs]
        /\ UNCHANGED <<snapBuffer, eventBuffer, uploadFileBatchFutures, told, fate, reloaded, pc,
                       eventBatch>>
    BY <2>1, <2>2 DEF waitForPendingUploads, buffers, thread, history
  <2>4. bs \in SUBSET Items /\ \A i \in bs : Known(i)
    BY <2>2 DEF Known
  <2>5. p \in {"finished", "true"} => \A i \in bs : fate[i] # "pending"
    BY <2>1, <2>4, FinishedIsSettled
  <2>6. QED
    BY <2>3, <2>4, <2>5, WaiterKeeps
<1>5. ASSUME NEW w \in Waiters, NEW leave, wpc' = [wpc EXCEPT ![w] = IF leave THEN "recheck" ELSE "armed"],
             UNCHANGED <<buffers, thread, before, history>>
      PROVE  ItemsInv'
  <2>1. PICK p : p = IF leave THEN "recheck" ELSE "armed"
    OBVIOUS
  <2>2. QED
    BY <1>5, <2>1, WaiterMoves DEF buffers, thread, history
<1>6. ASSUME NEW w \in Waiters PROVE WaiterStep(w) => ItemsInv'
  <2>1. waitBegins(w) => ItemsInv'
    BY <1>5 DEF waitBegins, Decide
  <2>2. wakes(w) => ItemsInv'
    BY <1>5 DEF wakes, Decide
  <2>3. waitNotNeeded(w) => ItemsInv'
    BY WaiterMoves DEF waitNotNeeded, buffers, thread, history
  <2>4. park(w) => ItemsInv'
    BY WaiterMoves DEF park, buffers, thread, history
  <2>5. waitReturns(w) => ItemsInv'
    <3> SUFFICES ASSUME waitReturns(w) PROVE ItemsInv'
      OBVIOUS
    <3>1. UNCHANGED <<snapBuffer, eventBuffer, uploadFileBatchFutures, told, fate, reloaded, pc,
                      eventBatch>>
      BY DEF waitReturns, buffers, thread, history
    <3>2. CASE checkPendingUploadsFinished
      <4>1. wpc' = [wpc EXCEPT ![w] = "true"] /\ before' = before
        BY <3>2 DEF waitReturns
      <4>2. \A i \in Items : fate[i] # "pending"
        BY <3>2, FinishedIsSettled
      <4>3. QED
        BY <3>1, <4>1, <4>2, WaiterMoves
    <3>3. CASE ~checkPendingUploadsFinished
      <4>1. wpc' = [wpc EXCEPT ![w] = "idle"] /\ before' = [before EXCEPT ![w] = {}]
        BY <3>3 DEF waitReturns
      <4>2. QED
        BY <3>1, <4>1, WaiterKeeps
    <3>4. QED
      BY <3>2, <3>3
  <2>6. QED
    BY <2>1, <2>2, <2>3, <2>4, <2>5 DEF WaiterStep
<1>7. ASSUME NEW w \in Waiters PROVE waitsAgain(w) => ItemsInv'
  BY WaiterKeeps DEF waitsAgain, buffers, thread, history
<1> QED
  BY <1>1, <1>2, <1>3, <1>4, <1>6, <1>7

LEMMA UploadThreadKeeps ==
    ASSUME ItemsInv, InCache, wpc \in [Waiters -> Places], UploadThread
    PROVE  ItemsInv'
<1> DEFINE Silent == /\ UNCHANGED <<snapBuffer, eventBuffer, uploadFileBatchFutures, told, fate,
                                    reloaded, before>>
                     /\ wpc' = wpc \/ wpc' = [w \in Waiters |-> IF wpc[w] = "parked" THEN "woken"
                                                                                  ELSE wpc[w]]
<1>1. ASSUME Silent, eventBatch' = eventBatch, pc # "stuck", pc' \notin {"post", "stuck"}
      PROVE  ItemsInv'
  <2>1. Posting' /\ eventBatch' \in Seq(Items)
    BY <1>1 DEF ItemsInv, BuffersTyped, Posting
  <2>2. before' \in [Waiters -> SUBSET Items]
    BY <1>1 DEF ItemsInv, HistoryTyped
  <2>3. \A w \in Waiters : \A i \in before'[w] : Known(i)
    BY <1>1 DEF ItemsInv, Held, Sent
  <2>4. \A w \in Waiters : wpc'[w] \in {"finished", "true"} => wpc[w] \in {"finished", "true"}
    BY <1>1
  <2>5. Settled'
    BY <1>1, <2>4 DEF ItemsInv, Held, Settled
  <2>6. QED
    BY <1>1, <2>1, <2>2, <2>3, <2>5, QuietKeeps
<1>2. ASSUME UNCHANGED <<buffers, wpc, before, history>> PROVE Silent
  BY <1>2 DEF buffers, history
<1>3. limitsFetched => ItemsInv'
  <2> SUFFICES ASSUME limitsFetched PROVE ItemsInv'
    OBVIOUS
  <2>1. UNCHANGED <<buffers, wpc, before, history>> /\ eventBatch' = eventBatch
        /\ pc # "stuck" /\ pc' \notin {"post", "stuck"}
    BY DEF limitsFetched, Goto, waits
  <2>2. QED
    BY <1>1, <1>2, <2>1
<1>4. fetchConfigurationLimits => ItemsInv'
  <2> SUFFICES ASSUME fetchConfigurationLimits PROVE ItemsInv'
    OBVIOUS
  <2>1. UNCHANGED <<buffers, wpc, before, history>> /\ eventBatch' = eventBatch
        /\ pc # "stuck" /\ pc' \notin {"post", "stuck"}
    BY DEF fetchConfigurationLimits, Goto, waits
  <2>2. QED
    BY <1>1, <1>2, <2>1
<1>5. cachedSnapsDone => ItemsInv'
  <2> SUFFICES ASSUME cachedSnapsDone PROVE ItemsInv'
    OBVIOUS
  <2>1. UNCHANGED <<buffers, wpc, before, history>> /\ eventBatch' = eventBatch
        /\ pc # "stuck" /\ pc' \notin {"post", "stuck"}
    BY DEF cachedSnapsDone, Goto, waits
  <2>2. QED
    BY <1>1, <1>2, <2>1
<1>6. checkUploads => ItemsInv'
  <2> SUFFICES ASSUME checkUploads PROVE ItemsInv'
    OBVIOUS
  <2>1. UNCHANGED <<buffers, wpc, before, history>> /\ eventBatch' = eventBatch
        /\ pc # "stuck" /\ pc' \notin {"post", "stuck"}
    BY DEF checkUploads, Goto, waits
  <2>2. QED
    BY <1>1, <1>2, <2>1
<1>7. publish => ItemsInv'
  <2> SUFFICES ASSUME publish PROVE ItemsInv'
    OBVIOUS
  <2>1. UNCHANGED <<buffers, wpc, before, history>> /\ eventBatch' = eventBatch
        /\ pc # "stuck" /\ pc' \notin {"post", "stuck"}
    BY DEF publish, Goto, waits
  <2>2. QED
    BY <1>1, <1>2, <2>1
<1>8. notify => ItemsInv'
  <2> SUFFICES ASSUME notify PROVE ItemsInv'
    OBVIOUS
  <2>1. Silent /\ eventBatch' = eventBatch /\ pc # "stuck" /\ pc' \notin {"post", "stuck"}
    BY DEF notify, Goto, buffers, history
  <2>2. QED
    BY <1>1, <2>1
<1>9. readEvents => ItemsInv'
  <2> SUFFICES ASSUME readEvents PROVE ItemsInv'
    OBVIOUS
  <2>1. PICK n : n = Least(Len(eventBuffer), eventsPerRequest)
    OBVIOUS
  <2>2. /\ eventBatch' = SubSeq(eventBuffer, 1, n) /\ pc # "stuck"
        /\ UNCHANGED <<snapBuffer, eventBuffer, uploadFileBatchFutures, told, fate, reloaded, wpc, before>>
    BY <2>1 DEF readEvents, Goto, buffers, waits, history
  <2>3. eventBuffer \in Seq(Items) /\ Len(eventBuffer) \in Nat
    BY DEF ItemsInv, BuffersTyped
  <2>4. eventsPerRequest \in Nat
    BY EventsAssumption
  <2>5. n \in 0 .. Len(eventBuffer) /\ n <= Len(eventBuffer)
    BY <2>1, <2>3, <2>4 DEF Least
  <2>6. PICK first : first = SubSeq(eventBuffer, 1, n)
    OBVIOUS
  <2>7. first \in Seq(Items) /\ Len(first) = n /\ \A j \in 1 .. n : first[j] = eventBuffer[j]
    BY <2>3, <2>5, <2>6, PartsElements
  <2>8. Posting'
    BY <2>2, <2>5, <2>6, <2>7 DEF Posting
  <2>9. /\ before' \in [Waiters -> SUBSET Items] /\ Settled'
        /\ \A w \in Waiters : \A i \in before'[w] : Known(i)
    BY <2>2 DEF ItemsInv, HistoryTyped, Held, Sent, Settled
  <2>10. QED
    BY <2>2, <2>6, <2>7, <2>8, <2>9, QuietKeeps
<1>10. ASSUME NEW s \in Snaps, uploadCachedSnaps(s) PROVE ItemsInv'
  <2>1. Known(s)
    BY <1>10 DEF uploadCachedSnaps, InCache
  <2>2. QED
    BY <1>10, <2>1, UploadCachedSnapsKeeps
<1> QED
  BY <1>3, <1>4, <1>5, <1>6, <1>7, <1>8, <1>9, <1>10, TakeBatchKeeps, PostFailsKeeps,
     PostSucceedsKeeps
  DEF UploadThread

LEMMA BatchStepKeeps ==
    ASSUME ItemsInv, Writes, NEW k \in DOMAIN uploadFileBatchFutures, BatchStep(k)
    PROVE  ItemsInv'
<1>1. k \in 1 .. Len(uploadFileBatchFutures)
  BY DEF ItemsInv, BuffersTyped
<1>2. ASSUME NEW s \in Snaps, s \in DOMAIN uploadFileBatchFutures[k].group,
             groupUploads(k, s) \/ groupFails(k, s)
      PROVE  ItemsInv'
  BY <1>1, <1>2, GroupUploadsKeeps, GroupFailsKeeps
<1>3. cacheDies(k) => ItemsInv'
  <2> SUFFICES ASSUME cacheDies(k) PROVE ItemsInv'
    OBVIOUS
  <2>1. UNCHANGED <<snapBuffer, eventBuffer, uploadFileBatchFutures, told, fate, reloaded, pc,
                    eventBatch, wpc, before>>
    BY DEF cacheDies, buffers, thread, waits, history
  <2>2. Posting' /\ Settled' /\ eventBatch' \in Seq(Items) /\ before' \in [Waiters -> SUBSET Items]
    BY <2>1 DEF ItemsInv, Held, Posting, Settled, BuffersTyped, HistoryTyped
  <2>3. \A w \in Waiters : \A i \in before'[w] : Known(i)
    BY <2>1 DEF ItemsInv, Held, Sent
  <2>4. QED
    BY <2>1, <2>2, <2>3, QuietKeeps
<1> QED
  BY <1>1, <1>2, <1>3, PrepareFailsKeeps, PrepareStopsKeeps, PrepareSucceedsKeeps, BatchFailsKeeps,
     BatchEndsKeeps, CacheBeginsKeeps, CacheWritesKeeps
  DEF BatchStep

----------------------------------------------------------------------------
(* The cache.                                                              *)

\* What is known stays so.
LEMMA KnownStays ==
    ASSUME ItemsInv, Next, NEW i \in Items, Known(i)
    PROVE  Known(i)'
<1>1. fate \in [Items -> Fates]
  BY DEF ItemsInv, HistoryTyped
<1>2. \A is, what : what \notin {"unsent", "never"} /\ fate' = Meets(fate, is, what) => Known(i)'
  BY DEF Meets, Known
<1>3. ASSUME NEW is, NEW js, fate' = Meets(Meets(fate, is, "accepted"), js, "rejected")
      PROVE  Known(i)'
  BY <1>3 DEF Meets, Known
<1>4. fate' = fate => Known(i)'
  BY DEF Known
<1>5. ASSUME NEW x \in Items, fate' = [fate EXCEPT ![x] = "pending"] PROVE Known(i)'
  BY <1>1, <1>5 DEF Known
<1>6. \A e \in Events : sendEvent(e) => Known(i)'
  BY <1>5 DEF sendEvent, Items
<1>7. \A s \in Snaps : sendSnap(s) => Known(i)'
  BY <1>5 DEF sendSnap, Items
<1>8. stop \/ (\E w \in Waiters : waitForPendingUploads(w) \/ WaiterStep(w) \/ waitsAgain(w)) => Known(i)'
  BY <1>4 DEF stop, waitForPendingUploads, WaiterStep, waitBegins, waitNotNeeded, park, wakes,
     waitReturns, waitsAgain, Decide, history
<1>9. ASSUME NEW k PROVE BatchStep(k) => Known(i)'
  <2>1. \A b : GiveUp(k, b) => Known(i)'
    BY <1>2, <1>4 DEF GiveUp
  <2>2. prepareFails(k) => Known(i)'
    BY <1>4, <2>1 DEF prepareFails
  <2>3. batchFails(k) => Known(i)'
    BY <2>1 DEF batchFails
  <2>4. prepareStops(k) \/ cacheWrites(k) => Known(i)'
    BY <1>2, <1>4 DEF prepareStops, cacheWrites
  <2>5. prepareSucceeds(k) => Known(i)'
    BY <1>2 DEF prepareSucceeds
  <2>6. \A s : groupUploads(k, s) \/ groupFails(k, s) => Known(i)'
    BY <1>2, <1>4 DEF groupUploads, groupFails, history
  <2>7. batchEnds(k) \/ cacheDies(k) \/ cacheBegins(k) => Known(i)'
    BY <1>4 DEF batchEnds, cacheDies, cacheBegins, history
  <2>8. QED
    BY <2>2, <2>3, <2>4, <2>5, <2>6, <2>7 DEF BatchStep
<1>10. UploadThread => Known(i)'
  <2>1. postSucceeds => Known(i)'
    BY <1>3 DEF postSucceeds
  <2>2. postFails => Known(i)'
    BY <1>2, <1>4 DEF postFails
  <2>3. \A s : uploadCachedSnaps(s) => Known(i)'
    BY <1>2, <1>4 DEF uploadCachedSnaps
  <2>4. limitsFetched \/ fetchConfigurationLimits \/ cachedSnapsDone \/ takeBatch \/ readEvents
        \/ checkUploads \/ publish \/ notify => Known(i)'
    BY <1>4 DEF limitsFetched, fetchConfigurationLimits, cachedSnapsDone, takeBatch, readEvents,
       checkUploads, publish, notify, history
  <2>5. QED
    BY <2>1, <2>2, <2>3, <2>4 DEF UploadThread
<1> QED
  BY <1>6, <1>7, <1>8, <1>9, <1>10 DEF Next

LEMMA InCacheKeeps ==
    ASSUME ThreadsTyped, ItemsInv, InCache, Next
    PROVE  InCache'
<1>1. cache \in [Snaps -> {"none", "partial", "whole"}]
  BY DEF ThreadsTyped
<1>2. ASSUME \A s \in Snaps : cache'[s] # "none" => cache[s] # "none" \/ Known(s) PROVE InCache'
  <2>1. \A s \in Snaps : Known(s) => Known(s)'
    BY KnownStays DEF Items
  <2>2. QED
    BY <1>2, <2>1 DEF InCache
<1>3. cache' = cache => InCache'
  BY <1>2
<1>4. \A e \in Events : sendEvent(e) => InCache'
  BY <1>3 DEF sendEvent
<1>5. \A s \in Snaps : sendSnap(s) => InCache'
  BY <1>3 DEF sendSnap
<1>6. stop \/ (\E w \in Waiters : waitForPendingUploads(w) \/ WaiterStep(w) \/ waitsAgain(w)) => InCache'
  BY <1>3 DEF stop, waitForPendingUploads, WaiterStep, waitBegins, waitNotNeeded, park, wakes,
     waitReturns, waitsAgain, Decide, buffers
<1>7. ASSUME NEW k \in DOMAIN uploadFileBatchFutures PROVE BatchStep(k) => InCache'
  <2>1. k \in 1 .. Len(uploadFileBatchFutures)
    BY DEF ItemsInv, BuffersTyped
  <2>2. cacheBegins(k) => InCache'
    <3> SUFFICES ASSUME cacheBegins(k) PROVE InCache'
      OBVIOUS
    <3>1. PICK b : b = uploadFileBatchFutures[k]
      OBVIOUS
    <3>2. PICK s : s = Head(b.left)
      OBVIOUS
    <3>3. b.left # <<>> /\ cache' = [cache EXCEPT ![s] = "partial"]
      BY <3>1, <3>2 DEF cacheBegins
    <3>4. /\ b.left \in Seq(Snaps) /\ ToSet(b.left) \subseteq ToSet(b.snaps)
          /\ \A i \in ToSet(b.snaps) : InBatch(i) /\ i \in Items
      BY <2>1, <3>1, BatchIs
    <3>5. s \in ToSet(b.left)
      BY <3>2, <3>3, <3>4, TailElements
    <3>6. Known(s)
      BY <3>4, <3>5 DEF OnItsWay, ItemsInv, Held, Sent
    <3>7. QED
      BY <1>1, <1>2, <3>3, <3>6
  <2>3. cacheWrites(k) => InCache'
    <3> SUFFICES ASSUME cacheWrites(k) PROVE InCache'
      OBVIOUS
    <3>1. PICK s : s = Head(uploadFileBatchFutures[k].left)
      OBVIOUS
    <3>2. \/ cache[s] = "partial" /\ cache' = [cache EXCEPT ![s] = "whole"]
          \/ cache' = cache
      BY <3>1 DEF cacheWrites
    <3>3. QED
      BY <1>1, <1>2, <1>3, <3>2
  <2>4. prepareFails(k) \/ prepareStops(k) \/ prepareSucceeds(k) \/ batchFails(k) \/ batchEnds(k) => InCache'
    BY <1>3 DEF prepareFails, prepareStops, prepareSucceeds, batchFails, batchEnds
  <2>5. \A s : groupUploads(k, s) \/ groupFails(k, s) => InCache'
    BY <1>3 DEF groupUploads, groupFails
  <2>6. cacheDies(k) => InCache'
    BY <1>3 DEF cacheDies, buffers
  <2>7. QED
    BY <2>2, <2>3, <2>4, <2>5, <2>6 DEF BatchStep
<1>8. UploadThread => InCache'
  <2>1. ASSUME NEW s \in Snaps, uploadCachedSnaps(s) PROVE InCache'
    <3>1. cache' = [cache EXCEPT ![s] = "none"]
      BY <2>1 DEF uploadCachedSnaps
    <3>2. QED
      BY <1>1, <1>2, <3>1
  <2>2. postFails \/ postSucceeds \/ takeBatch => InCache'
    BY <1>3 DEF postFails, postSucceeds, takeBatch
  <2>3. limitsFetched \/ fetchConfigurationLimits \/ cachedSnapsDone \/ readEvents
        \/ checkUploads \/ publish \/ notify => InCache'
    BY <1>3 DEF limitsFetched, fetchConfigurationLimits, cachedSnapsDone, readEvents,
       checkUploads, publish, notify, buffers
  <2>4. QED
    BY <2>1, <2>2, <2>3 DEF UploadThread
<1> QED
  BY <1>4, <1>5, <1>6, <1>7, <1>8 DEF Next

\* Fates met outside the cache.
FatesElsewhere ==
    \A s \in Snaps : fate'[s] # fate[s] => /\ fate'[s] \notin {"cached", "lost"}
                                           /\ fate'[s] = "pending" => ~Known(s)

\* A batch goes on with what it had yet to cache, is through with it, or is new.
LeftsElsewhere ==
    \A k \in 1 .. Len(uploadFileBatchFutures') :
        LET c == uploadFileBatchFutures'[k] IN
        \/ /\ k \in 1 .. Len(uploadFileBatchFutures)
           /\ c.left = uploadFileBatchFutures[k].left
           /\ c.phase = "writing" => uploadFileBatchFutures[k].phase = "writing"
        \/ /\ c.phase # "writing"
           /\ \A s \in ToSet(c.left) \ reloaded : s \in Snaps /\ Unanswered(s) /\ Once(c.left, s)

\* The steps that leave the cache alone.
LEMMA ElsewhereKeeps ==
    ASSUME ItemsInv, CacheInv, UNCHANGED <<cache, reloaded>>, FatesElsewhere, LeftsElsewhere
    PROVE  CacheInv'
<1>1. CachedHeld'
  BY DEF CacheInv, CachedHeld, FatesElsewhere
<1>2. ASSUME NEW k \in 1 .. Len(uploadFileBatchFutures)
      PROVE  LET b == uploadFileBatchFutures[k] IN
             /\ \A s \in ToSet(b.left) : s \in Snaps /\ Known(s)
             /\ b.phase = "writing" => Head(b.left) \in ToSet(b.left)
  <2>1. PICK b : b = uploadFileBatchFutures[k]
    OBVIOUS
  <2>2. /\ b.left \in Seq(Snaps) /\ ToSet(b.left) \subseteq ToSet(b.snaps) /\ Cares(b)
        /\ \A i \in ToSet(b.snaps) : InBatch(i) /\ i \in Items
    BY <2>1, BatchIs
  <2>3. b.phase = "writing" => Head(b.left) \in ToSet(b.left)
    BY <2>2, TailElements DEF Cares
  <2>4. \A s \in ToSet(b.left) : s \in Snaps /\ Known(s)
    BY <2>2, ElementsOf DEF OnItsWay, ItemsInv, Held, Sent
  <2>5. QED
    BY <2>1, <2>3, <2>4
<1>3. Writes'
  <2> SUFFICES ASSUME NEW k \in 1 .. Len(uploadFileBatchFutures'), NEW c,
                      c = uploadFileBatchFutures'[k], c.phase = "writing",
                      fate'[Head(c.left)] = "pending"
               PROVE  cache[Head(c.left)] = "partial"
    BY DEF Writes
  <2>1. PICK b : b = uploadFileBatchFutures[k]
    OBVIOUS
  <2>2. k \in 1 .. Len(uploadFileBatchFutures) /\ c.left = b.left /\ b.phase = "writing"
    BY <2>1 DEF LeftsElsewhere
  <2>3. Head(b.left) \in Snaps /\ Known(Head(b.left))
    BY <1>2, <2>1, <2>2
  <2>4. fate[Head(b.left)] = "pending"
    BY <2>2, <2>3 DEF FatesElsewhere
  <2>5. QED
    BY <2>1, <2>2, <2>4 DEF CacheInv, Writes
<1>4. ToCache'
  <2> SUFFICES ASSUME NEW k \in 1 .. Len(uploadFileBatchFutures'), NEW c,
                      c = uploadFileBatchFutures'[k], NEW s \in ToSet(c.left) \ reloaded
               PROVE  fate'[s] # "cached" /\ Once(c.left, s)
    BY DEF ToCache, Once
  <2>1. PICK b : b = uploadFileBatchFutures[k]
    OBVIOUS
  <2>2. CASE k \in 1 .. Len(uploadFileBatchFutures) /\ c.left = b.left
    <3>1. s \in Snaps /\ fate[s] # "cached" /\ Once(c.left, s)
      BY <1>2, <2>1, <2>2 DEF CacheInv, ToCache
    <3>2. QED
      BY <3>1 DEF FatesElsewhere
  <2>3. CASE s \in Snaps /\ Unanswered(s) /\ Once(c.left, s)
    BY <2>3 DEF FatesElsewhere, Unanswered
  <2>4. QED
    BY <2>1, <2>2, <2>3 DEF LeftsElsewhere
<1> QED
  BY <1>1, <1>3, <1>4 DEF CacheInv

\* A step of one batch, that leaves c.
LEMMA OneLeftElsewhere ==
    ASSUME ItemsInv, CacheInv, UNCHANGED <<cache, reloaded>>, FatesElsewhere,
           NEW k \in 1 .. Len(uploadFileBatchFutures), NEW c, BatchOver(k, c),
           c.left = uploadFileBatchFutures[k].left \/ c.left = <<>>,
           c.phase # "writing"
    PROVE  CacheInv'
<1> DEFINE F == uploadFileBatchFutures
<1>1. F \in Seq(BatchRecords) /\ F' = [F EXCEPT ![k] = c]
  BY DEF ItemsInv, BuffersTyped, BatchOver
<1>2. Len(F') = Len(F) /\ F'[k] = c /\ \A l \in 1 .. Len(F) : l # k => F'[l] = F[l]
  BY <1>1
<1>3. LeftsElsewhere
  BY <1>2, NoElements DEF LeftsElsewhere
<1> QED
  BY <1>3, ElsewhereKeeps

LEMMA CacheBeginsInv ==
    ASSUME ThreadsTyped, ItemsInv, CacheInv, NEW k \in 1 .. Len(uploadFileBatchFutures), cacheBegins(k)
    PROVE  CacheInv'
<1> DEFINE F == uploadFileBatchFutures
<1>1. PICK b : b = F[k]
  OBVIOUS
<1>2. PICK s : s = Head(b.left)
  OBVIOUS
<1>3. PICK c : c = [b EXCEPT !.phase = "writing"]
  OBVIOUS
<1>4. /\ b.left # <<>> /\ cache' = [cache EXCEPT ![s] = "partial"] /\ F' = [F EXCEPT ![k] = c]
      /\ UNCHANGED <<fate, reloaded>>
  BY <1>1, <1>2, <1>3 DEF cacheBegins, BatchOver, history
<1>5. b \in BatchRecords /\ b.left \in Seq(Snaps) /\ cache \in [Snaps -> {"none", "partial", "whole"}]
  BY <1>1, BatchIs DEF ThreadsTyped
<1>6. c.left = b.left
  BY <1>3, <1>5 DEF BatchRecords
<1>7. s \in ToSet(b.left) /\ s \in Snaps
  BY <1>2, <1>4, <1>5, TailElements, ElementsOf
<1>8. /\ Len(F') = Len(F) /\ F'[k] = c /\ \A l \in 1 .. Len(F) : l # k => F'[l] = F[l]
  BY <1>4 DEF ItemsInv, BuffersTyped
<1>9. cache'[s] = "partial" /\ \A x \in Snaps : x # s => cache'[x] = cache[x]
  BY <1>4, <1>5, <1>7
<1>10. CachedHeld'
  <2>1. s \in reloaded \/ fate[s] # "cached"
    BY <1>1, <1>7 DEF CacheInv, ToCache
  <2>2. QED
    BY <1>4, <1>9, <2>1 DEF CacheInv, CachedHeld
<1>11. Writes'
  <2> SUFFICES ASSUME NEW l \in 1 .. Len(F), F'[l].phase = "writing", fate[Head(F'[l].left)] = "pending"
               PROVE  cache'[Head(F'[l].left)] = "partial"
    BY <1>4, <1>8 DEF Writes
  <2>1. CASE l = k
    BY <1>2, <1>6, <1>8, <1>9, <2>1
  <2>2. CASE l # k
    <3>1. F'[l] = F[l]
      BY <1>8, <2>2
    <3>2. PICK d : d = F[l]
      OBVIOUS
    <3>3. d.left \in Seq(Snaps) /\ Cares(d)
      BY <3>2, BatchIs
    <3>4. Head(d.left) \in Snaps
      BY <3>1, <3>2, <3>3, TailElements, ElementsOf DEF Cares
    <3>5. cache[Head(d.left)] = "partial"
      BY <3>1, <3>2 DEF CacheInv, Writes
    <3>6. QED
      BY <1>9, <3>1, <3>2, <3>4, <3>5
  <2>3. QED
    BY <2>1, <2>2
<1>12. ToCache'
  BY <1>1, <1>4, <1>6, <1>8 DEF CacheInv, ToCache, Once
<1> QED
  BY <1>10, <1>11, <1>12 DEF CacheInv

LEMMA CacheWritesInv ==
    ASSUME ThreadsTyped, ItemsInv, CacheInv, NEW k \in 1 .. Len(uploadFileBatchFutures), cacheWrites(k)
    PROVE  CacheInv'
<1> DEFINE F == uploadFileBatchFutures
<1>1. PICK b : b = F[k]
  OBVIOUS
<1>2. PICK s : s = Head(b.left)
  OBVIOUS
<1>3. PICK c : c = IF Len(b.left) = 1 THEN NoBatch ELSE [b EXCEPT !.phase = "cache", !.left = Tail(@)]
  OBVIOUS
<1>4. /\ b.phase = "writing" /\ F' = [F EXCEPT ![k] = c] /\ reloaded' = reloaded
      /\ \/ /\ cache[s] = "partial" /\ cache' = [cache EXCEPT ![s] = "whole"]
            /\ fate' = Meets(fate, {s}, "cached")
         \/ cache[s] # "partial" /\ UNCHANGED <<cache, fate>>
  BY <1>1, <1>2, <1>3 DEF cacheWrites, BatchOver
<1>5. /\ b \in BatchRecords /\ b.left \in Seq(Snaps) /\ Cares(b) /\ ToSet(b.left) \subseteq ToSet(b.snaps)
      /\ cache \in [Snaps -> {"none", "partial", "whole"}] /\ fate \in [Items -> Fates]
  BY <1>1, BatchIs DEF ThreadsTyped, ItemsInv, HistoryTyped
<1>6. b.left # <<>>
  BY <1>4, <1>5 DEF Cares
<1>7. s \in ToSet(b.left) /\ s \in Snaps /\ s \in Items
  BY <1>2, <1>5, <1>6, TailElements, ElementsOf DEF Items
<1>8. /\ Len(F') = Len(F) /\ F'[k] = c /\ \A l \in 1 .. Len(F) : l # k => F'[l] = F[l]
  BY <1>4 DEF ItemsInv, BuffersTyped
<1>9. /\ \A x \in Snaps : x # s => cache'[x] = cache[x] /\ fate'[x] = fate[x]
      /\ fate'[s] # fate[s] => fate'[s] = "cached" /\ cache'[s] = "whole"
      /\ fate'[s] = fate[s] => fate[s] # "pending" \/ cache[s] # "partial"
      /\ cache[s] = "whole" => cache'[s] = "whole"
  BY <1>4, <1>5, <1>7 DEF Meets, Items
<1>10. c.phase # "writing" /\ (c.left = <<>> \/ c.left = Tail(b.left))
  BY <1>3, <1>5 DEF NoBatch, BatchRecords
<1>11. ASSUME NEW l \in 1 .. Len(F), l # k, F[l].phase = "writing"
       PROVE  Head(F[l].left) \in Snaps
  <2>1. PICK d : d = F[l]
    OBVIOUS
  <2>2. d.left \in Seq(Snaps) /\ Cares(d)
    BY <2>1, BatchIs
  <2>3. QED
    BY <1>11, <2>1, <2>2, TailElements, ElementsOf DEF Cares
<1>12. CachedHeld'
  BY <1>4, <1>9 DEF CacheInv, CachedHeld
<1>13. Writes'
  <2> SUFFICES ASSUME NEW l \in 1 .. Len(F), F'[l].phase = "writing", fate'[Head(F'[l].left)] = "pending"
               PROVE  cache'[Head(F'[l].left)] = "partial"
    BY <1>8 DEF Writes
  <2>1. l # k /\ F'[l] = F[l]
    BY <1>8, <1>10
  <2>2. PICK h : h = Head(F[l].left)
    OBVIOUS
  <2>3. h \in Snaps
    BY <1>11, <2>1, <2>2
  <2>4. fate[h] = "pending"
    BY <1>9, <2>1, <2>2, <2>3
  <2>5. cache[h] = "partial"
    BY <2>1, <2>2, <2>4 DEF CacheInv, Writes
  <2>6. h # s
    BY <1>9, <2>1, <2>2, <2>4, <2>5
  <2>7. QED
    BY <1>9, <2>1, <2>2, <2>3, <2>5, <2>6
<1>14. ToCache'
  <2> SUFFICES ASSUME NEW l \in 1 .. Len(F), NEW x \in ToSet(F'[l].left) \ reloaded
               PROVE  fate'[x] # "cached" /\ Once(F'[l].left, x)
    BY <1>4, <1>8 DEF ToCache, Once
  <2>1. CASE l = k
    <3>1. c.left = Tail(b.left) /\ x \in ToSet(Tail(b.left)) /\ x \in ToSet(b.left)
      BY <1>5, <1>6, <1>8, <1>10, <2>1, NoElements, TailElements
    <3>2. fate[x] # "cached" /\ Once(b.left, x)
      BY <1>1, <3>1 DEF CacheInv, ToCache
    <3>3. x # s /\ Once(Tail(b.left), x)
      BY <1>2, <1>5, <1>6, <3>1, <3>2, TailOnce
    <3>4. x \in Snaps
      BY <1>5, <3>1, ElementsOf
    <3>5. QED
      BY <1>8, <1>9, <2>1, <3>1, <3>2, <3>3, <3>4
  <2>2. CASE l # k
    <3>1. PICK d : d = F[l]
      OBVIOUS
    <3>2. d = F'[l]
      BY <1>8, <2>2, <3>1
    <3>3. d.left \in Seq(Snaps) /\ ToSet(d.left) \subseteq ToSet(d.snaps)
      BY <3>1, BatchIs
    <3>4. x \in Snaps /\ x \in ToSet(d.snaps)
      BY <3>2, <3>3, ElementsOf
    <3>5. x # s
      BY <1>1, <1>5, <1>7, <2>2, <3>1, <3>4 DEF ItemsInv, Unique, UniqueIn, Items
    <3>6. QED
      BY <1>9, <3>1, <3>2, <3>4, <3>5 DEF CacheInv, ToCache
  <2>3. QED
    BY <2>1, <2>2
<1> QED
  BY <1>12, <1>13, <1>14 DEF CacheInv

LEMMA UploadCachedSnapsInv ==
    ASSUME ThreadsTyped, ItemsInv, CacheInv, NEW s \in Snaps, uploadCachedSnaps(s)
    PROVE  CacheInv'
<1> DEFINE F == uploadFileBatchFutures
<1>1. /\ cache' = [cache EXCEPT ![s] = "none"] /\ reloaded' = reloaded \cup {s} /\ F' = F
      /\ fate' = IF cache[s] = "partial" THEN Meets(fate, {s}, "lost") ELSE fate
  BY DEF uploadCachedSnaps
<1>2. cache \in [Snaps -> {"none", "partial", "whole"}] /\ fate \in [Items -> Fates] /\ s \in Items
  BY DEF ThreadsTyped, ItemsInv, HistoryTyped, Items
<1>3. /\ \A x \in Snaps : x # s => cache'[x] = cache[x] /\ fate'[x] = fate[x]
      /\ fate'[s] = "cached" => fate[s] = "cached"
      /\ cache[s] = "partial" => fate'[s] # "pending"
      /\ fate'[s] = "pending" => fate[s] = "pending"
  BY <1>1, <1>2 DEF Meets, Items
<1>4. CachedHeld'
  BY <1>1, <1>3 DEF CacheInv, CachedHeld
<1>5. Writes'
  <2> SUFFICES ASSUME NEW l \in 1 .. Len(F), F[l].phase = "writing", fate'[Head(F[l].left)] = "pending"
               PROVE  cache'[Head(F[l].left)] = "partial"
    BY <1>1 DEF Writes
  <2>1. PICK d : d = F[l]
    OBVIOUS
  <2>2. d.left \in Seq(Snaps) /\ Cares(d)
    BY <2>1, BatchIs
  <2>3. PICK h : h = Head(d.left)
    OBVIOUS
  <2>4. h \in Snaps
    BY <2>1, <2>2, <2>3, TailElements, ElementsOf DEF Cares
  <2>5. fate[h] = "pending"
    BY <1>3, <2>1, <2>3, <2>4
  <2>6. cache[h] = "partial"
    BY <2>1, <2>3, <2>5 DEF CacheInv, Writes
  <2>7. h # s
    BY <1>3, <2>1, <2>3, <2>6
  <2>8. QED
    BY <1>3, <2>1, <2>3, <2>4, <2>6, <2>7
<1>6. ToCache'
  <2> SUFFICES ASSUME NEW l \in 1 .. Len(F'), NEW x \in ToSet(F'[l].left) \ reloaded'
               PROVE  fate'[x] # "cached" /\ Once(F'[l].left, x)
    BY DEF ToCache, Once
  <2> l \in 1 .. Len(F) /\ x \in ToSet(F[l].left) \ reloaded /\ x # s /\ F'[l].left = F[l].left
    BY <1>1
  <2>1. PICK d : d = F[l]
    OBVIOUS
  <2>2. d.left \in Seq(Snaps)
    BY <2>1, BatchIs
  <2>3. x \in Snaps
    BY <2>1, <2>2, ElementsOf
  <2>4. QED
    BY <1>3, <2>3 DEF CacheInv, ToCache
<1> QED
  BY <1>4, <1>5, <1>6 DEF CacheInv

LEMMA TakeBatchInv ==
    ASSUME ItemsInv, CacheInv, takeBatch
    PROVE  CacheInv'
<1> DEFINE F == uploadFileBatchFutures
<1>1. PICK n : n = Least(Len(snapBuffer), maxGroupsPerBatch)
  OBVIOUS
<1>2. PICK first : first = SubSeq(snapBuffer, 1, n)
  OBVIOUS
<1>3. PICK c : c = NewBatch(first)
  OBVIOUS
<1>4. F' = (IF n = 0 THEN F ELSE Append(F, c)) /\ UNCHANGED <<cache, fate, reloaded>>
  BY <1>1, <1>2, <1>3 DEF takeBatch, history
<1>5. snapBuffer \in Seq(Snaps) /\ F \in Seq(BatchRecords)
  BY DEF ItemsInv, BuffersTyped
<1>6. n \in 0 .. Len(snapBuffer)
  BY <1>1, <1>5, EventsAssumption DEF Least
<1>7. /\ first \in Seq(Snaps) /\ ToSet(first) \subseteq ToSet(snapBuffer)
      /\ \A y : Once(snapBuffer, y) => Once(first, y)
  BY <1>2, <1>5, <1>6, PartsElements
<1>8. c.left = first /\ c.phase = "prepare"
  BY <1>3 DEF NewBatch
<1>9. \A s \in ToSet(first) \ reloaded : s \in Snaps /\ Unanswered(s) /\ Once(first, s)
  BY <1>5, <1>7, ElementsOf DEF ItemsInv, Unique, UniqueIn, Items
<1>10. LeftsElsewhere
  <2>1. CASE n = 0
    BY <1>4, <2>1 DEF LeftsElsewhere
  <2>2. CASE n # 0
    <3>1. /\ Len(F') = Len(F) + 1 /\ F'[Len(F) + 1] = c /\ \A l \in 1 .. Len(F) : F'[l] = F[l]
          /\ \A l \in 1 .. Len(F) + 1 : l \in 1 .. Len(F) \/ l = Len(F) + 1
      BY <1>4, <1>5, <2>2
    <3>2. QED
      BY <1>8, <1>9, <3>1 DEF LeftsElsewhere
  <2>3. QED
    BY <2>1, <2>2
<1> QED
  BY <1>4, <1>10, ElsewhereKeeps DEF FatesElsewhere

LEMMA CacheInvKeeps ==
    ASSUME ThreadsTyped, ItemsInv, CacheInv, Next
    PROVE  CacheInv'
<1> DEFINE F == uploadFileBatchFutures
<1>1. fate \in [Items -> Fates] /\ Snaps \subseteq Items
  BY DEF ItemsInv, HistoryTyped, Items
<1>2. ASSUME NEW is, NEW what, what \notin {"cached", "lost", "pending"}, fate' = Meets(fate, is, what)
      PROVE  FatesElsewhere
  BY <1>1, <1>2 DEF Meets, FatesElsewhere
<1>3. fate' = fate => FatesElsewhere
  BY DEF FatesElsewhere
<1>4. UNCHANGED <<cache, reloaded, F>> /\ FatesElsewhere => CacheInv'
  BY ElsewhereKeeps DEF LeftsElsewhere
<1>5. ASSUME NEW x \in Items, fate[x] = "unsent", fate' = [fate EXCEPT ![x] = "pending"]
      PROVE  FatesElsewhere
  BY <1>1, <1>5 DEF FatesElsewhere, Known
<1>6. \A e \in Events : sendEvent(e) => CacheInv'
  BY <1>4, <1>5 DEF sendEvent, Items
<1>7. \A s \in Snaps : sendSnap(s) => CacheInv'
  BY <1>4, <1>5 DEF sendSnap, Items
<1>8. stop \/ (\E w \in Waiters : waitForPendingUploads(w) \/ WaiterStep(w) \/ waitsAgain(w)) => CacheInv'
  BY <1>3, <1>4 DEF stop, waitForPendingUploads, WaiterStep, waitBegins, waitNotNeeded, park, wakes,
     waitReturns, waitsAgain, Decide, buffers, history
<1>9. ASSUME NEW k \in DOMAIN F PROVE BatchStep(k) => CacheInv'
  <2>1. k \in 1 .. Len(F)
    BY DEF ItemsInv, BuffersTyped
  <2>2. PICK b : b = F[k]
    OBVIOUS
  <2>3. b \in BatchRecords
    BY <2>1, <2>2, BatchIs
  <2>4. ASSUME NEW c, BatchOver(k, c), c.left = b.left \/ c.left = <<>>, c.phase # "writing",
               UNCHANGED <<cache, reloaded>>, FatesElsewhere
        PROVE  CacheInv'
    BY <2>1, <2>2, <2>4, OneLeftElsewhere
  <2>5. NoBatch.left = <<>> /\ NoBatch.phase # "writing"
    BY DEF NoBatch
  <2>6. ASSUME NEW d, d \in BatchRecords, d.left = b.left, GiveUp(k, d), UNCHANGED <<cache, reloaded>>
        PROVE  CacheInv'
    <3>1. FatesElsewhere
      BY <1>2, <1>3, <2>6 DEF GiveUp
    <3>2. \E c : BatchOver(k, c) /\ c.left = d.left /\ c.phase # "writing"
      <4>1. CASE cacheIfCannotSend
        <5>1. BatchOver(k, [d EXCEPT !.phase = "cache", !.attempt = 0])
          BY <2>6, <4>1 DEF GiveUp
        <5>2. /\ [d EXCEPT !.phase = "cache", !.attempt = 0].left = d.left
              /\ [d EXCEPT !.phase = "cache", !.attempt = 0].phase # "writing"
          BY <2>6 DEF BatchRecords
        <5>3. QED
          BY <5>1, <5>2
      <4>2. CASE ~cacheIfCannotSend
        <5>1. BatchOver(k, [d EXCEPT !.phase = "wind", !.attempt = 0])
          BY <2>6, <4>2 DEF GiveUp
        <5>2. /\ [d EXCEPT !.phase = "wind", !.attempt = 0].left = d.left
              /\ [d EXCEPT !.phase = "wind", !.attempt = 0].phase # "writing"
          BY <2>6 DEF BatchRecords
        <5>3. QED
          BY <5>1, <5>2
      <4>3. QED
        BY <4>1, <4>2
    <3>3. QED
      BY <2>4, <2>6, <3>1, <3>2
  <2>7. prepareFails(k) => CacheInv'
    <3> SUFFICES ASSUME prepareFails(k) PROVE CacheInv'
      OBVIOUS
    <3>1. PICK d : d = [b EXCEPT !.attempt = @ + 1]
      OBVIOUS
    <3>2. d \in BatchRecords /\ d.left = b.left /\ d.phase = b.phase
      BY <2>3, <3>1 DEF BatchRecords
    <3>3. /\ b.phase = "prepare" /\ UNCHANGED <<cache, reloaded>>
          /\ GiveUp(k, d) \/ (BatchOver(k, d) /\ fate' = fate)
      BY <2>2, <3>1, <3>2 DEF prepareFails
    <3>4. QED
      BY <1>3, <2>4, <2>6, <3>2, <3>3
  <2>8. batchFails(k) => CacheInv'
    BY <2>2, <2>3, <2>6 DEF batchFails
  <2>9. prepareStops(k) => CacheInv'
    BY <1>2, <2>4, <2>5 DEF prepareStops
  <2>10. batchEnds(k) => CacheInv'
    BY <1>3, <2>4, <2>5 DEF batchEnds, history
  <2>11. prepareSucceeds(k) => CacheInv'
    <3> SUFFICES ASSUME prepareSucceeds(k) PROVE CacheInv'
      OBVIOUS
    <3>1. PICK g, rejected : /\ BatchOver(k, [b EXCEPT !.phase = "upload", !.attempt = 0, !.group = g])
                             /\ fate' = Meets(fate, rejected, "rejected")
      BY <2>2 DEF prepareSucceeds
    <3>2. PICK c : c = [b EXCEPT !.phase = "upload", !.attempt = 0, !.group = g]
      OBVIOUS
    <3>3. c.left = b.left /\ c.phase # "writing"
      BY <2>3, <3>2 DEF BatchRecords
    <3>4. FatesElsewhere
      BY <1>2, <3>1
    <3>5. QED
      BY <2>4, <3>1, <3>2, <3>3, <3>4 DEF prepareSucceeds
  <2>12. ASSUME NEW s, groupUploads(k, s) \/ groupFails(k, s) PROVE CacheInv'
    <3>1. PICK to : BatchOver(k, [b EXCEPT !.group[s] = to])
      BY <2>2, <2>12 DEF groupUploads, groupFails
    <3>2. PICK c : c = [b EXCEPT !.group[s] = to]
      OBVIOUS
    <3>3. b.phase \in {"upload", "wind"} /\ UNCHANGED <<cache, reloaded>>
      BY <2>2, <2>12 DEF groupUploads, groupFails, history
    <3>4. c.left = b.left /\ c.phase = b.phase
      BY <2>3, <3>2 DEF BatchRecords
    <3>5. FatesElsewhere
      BY <1>2, <1>3, <2>12 DEF groupUploads, groupFails, history
    <3>6. QED
      BY <2>4, <3>1, <3>2, <3>3, <3>4, <3>5
  <2>13. cacheDies(k) => CacheInv'
    BY <1>3, <1>4 DEF cacheDies, buffers, history
  <2>14. QED
    BY <2>1, <2>7, <2>8, <2>9, <2>10, <2>11, <2>12, <2>13, CacheBeginsInv, CacheWritesInv DEF BatchStep
<1>10. UploadThread => CacheInv'
  <2>1. postSucceeds => CacheInv'
    <3> SUFFICES ASSUME postSucceeds PROVE CacheInv'
      OBVIOUS
    <3>1. PICK is, js : fate' = Meets(Meets(fate, is, "accepted"), js, "rejected")
      BY DEF postSucceeds
    <3>2. FatesElsewhere
      BY <1>1, <3>1 DEF Meets, FatesElsewhere
    <3>3. QED
      BY <1>4, <3>2 DEF postSucceeds
  <2>2. postFails => CacheInv'
    BY <1>2, <1>3, <1>4 DEF postFails
  <2>3. limitsFetched \/ fetchConfigurationLimits \/ cachedSnapsDone \/ readEvents
        \/ checkUploads \/ publish \/ notify => CacheInv'
    BY <1>3, <1>4 DEF limitsFetched, fetchConfigurationLimits, cachedSnapsDone, readEvents,
       checkUploads, publish, notify, buffers, history
  <2>4. QED
    BY <2>1, <2>2, <2>3, TakeBatchInv, UploadCachedSnapsInv DEF UploadThread
<1> QED
  BY <1>6, <1>7, <1>8, <1>9, <1>10 DEF Next

----------------------------------------------------------------------------
(* Types.                                                                  *)

\* The parts of the threads' types that a step disturbs.
LEMMA ThreadsTypedKeeps ==
    ASSUME ThreadsTyped, Next
    PROVE  ThreadsTyped'
<1> USE DEF limits, flags, buffers, thread, waits, history
<1>1. cache \in [Snaps -> {"none", "partial", "whole"}] /\ wpc \in [Waiters -> Places]
  BY DEF ThreadsTyped
<1>2. ASSUME NEW s, NEW to \in {"none", "partial", "whole"}, cache' = [cache EXCEPT ![s] = to]
      PROVE  cache' \in [Snaps -> {"none", "partial", "whole"}]
  BY <1>1, <1>2
<1>3. ASSUME NEW w, NEW p \in Places, wpc' = [wpc EXCEPT ![w] = p]
      PROVE  wpc' \in [Waiters -> Places]
  BY <1>1, <1>3
<1>4. wpc' = [w \in Waiters |-> IF wpc[w] = "parked" THEN "woken" ELSE wpc[w]] =>
         wpc' \in [Waiters -> Places]
  BY <1>1 DEF Places
<1>5. \A e \in Events : sendEvent(e) => ThreadsTyped'
  BY DEF sendEvent, ThreadsTyped
<1>6. \A s \in Snaps : sendSnap(s) => ThreadsTyped'
  BY DEF sendSnap, ThreadsTyped
<1>7. stop => ThreadsTyped'
  BY <1>4 DEF stop, ThreadsTyped
<1>8. ASSUME NEW w \in Waiters PROVE waitForPendingUploads(w) \/ WaiterStep(w) \/ waitsAgain(w) => ThreadsTyped'
  <2>1. "finished" \in Places /\ "begin" \in Places /\ "recheck" \in Places /\ "armed" \in Places
        /\ "true" \in Places /\ "parked" \in Places /\ "idle" \in Places
    BY DEF Places
  <2>2. waitForPendingUploads(w) => ThreadsTyped'
    BY <1>3, <2>1 DEF waitForPendingUploads, ThreadsTyped
  <2>3. ASSUME NEW leave \in BOOLEAN, NEW waiting \in BOOLEAN, Decide(w, leave, waiting)
        PROVE  wpc' \in [Waiters -> Places] /\ waitingForPendingUploads' \in BOOLEAN
    BY <1>3, <2>1, <2>3 DEF Decide
  <2>4. waitBegins(w) => ThreadsTyped'
    BY <2>3 DEF waitBegins, Decide, ThreadsTyped
  <2>5. waitNotNeeded(w) => ThreadsTyped'
    BY <1>3, <2>1 DEF waitNotNeeded, ThreadsTyped
  <2>6. wakes(w) => ThreadsTyped'
    BY <2>3 DEF wakes, Decide, MayLeave, ThreadsTyped
  <2>7. park(w) => ThreadsTyped'
    BY <1>3, <2>1 DEF park, ThreadsTyped
  <2>8. waitReturns(w) => ThreadsTyped'
    BY <1>3, <2>1 DEF waitReturns, ThreadsTyped
  <2>9. waitsAgain(w) => ThreadsTyped'
    BY <1>3, <2>1 DEF waitsAgain, ThreadsTyped
  <2>10. QED
    BY <2>2, <2>4, <2>5, <2>6, <2>7, <2>8, <2>9 DEF WaiterStep
<1>9. ASSUME NEW k PROVE BatchStep(k) => ThreadsTyped'
  <2> USE DEF batchUnchanged
  <2>1. ASSUME cache' \in [Snaps -> {"none", "partial", "whole"}], UNCHANGED batchUnchanged
        PROVE  ThreadsTyped'
    BY <2>1 DEF ThreadsTyped
  <2>2. cacheBegins(k) => ThreadsTyped'
    BY <1>2, <2>1 DEF cacheBegins
  <2>3. cacheWrites(k) => ThreadsTyped'
    <3>1. cacheWrites(k) => cache' \in [Snaps -> {"none", "partial", "whole"}]
      BY <1>1, <1>2 DEF cacheWrites
    <3>2. QED
      BY <2>1, <3>1 DEF cacheWrites
  <2>4. prepareFails(k) \/ prepareStops(k) \/ prepareSucceeds(k) \/ batchFails(k) \/ batchEnds(k)
        => ThreadsTyped'
    BY <1>1, <2>1 DEF prepareFails, prepareStops, prepareSucceeds, batchFails, batchEnds
  <2>5. \A s : groupUploads(k, s) \/ groupFails(k, s) => ThreadsTyped'
    BY <1>1, <2>1 DEF groupUploads, groupFails
  <2>6. cacheDies(k) => ThreadsTyped'
    BY DEF cacheDies, ThreadsTyped
  <2>7. QED
    BY <2>2, <2>3, <2>4, <2>5, <2>6 DEF BatchStep
<1>10. UploadThread => ThreadsTyped'
  <2> USE DEF Goto
  <2>1. limitsFetched => ThreadsTyped'
    BY DEF limitsFetched, ThreadsTyped
  <2>2. fetchConfigurationLimits => ThreadsTyped'
    BY DEF fetchConfigurationLimits, ThreadsTyped
  <2>3. cachedSnapsDone => ThreadsTyped'
    BY DEF cachedSnapsDone, ThreadsTyped
  <2>4. takeBatch => ThreadsTyped'
    BY DEF takeBatch, ThreadsTyped
  <2>5. readEvents => ThreadsTyped'
    BY DEF readEvents, ThreadsTyped
  <2>6. postFails => ThreadsTyped'
    BY DEF postFails, ThreadsTyped
  <2>7. postSucceeds => ThreadsTyped'
    BY DEF postSucceeds, ThreadsTyped
  <2>8. checkUploads => ThreadsTyped'
    BY DEF checkUploads, checkPendingUploadsFinished, ThreadsTyped
  <2>9. publish => ThreadsTyped'
    BY DEF publish, ThreadsTyped
  <2>10. notify => ThreadsTyped'
    BY <1>4 DEF notify, ThreadsTyped
  <2>11. \A s : uploadCachedSnaps(s) => ThreadsTyped'
    BY <1>2 DEF uploadCachedSnaps, ThreadsTyped
  <2>12. QED
    BY <2>1, <2>2, <2>3, <2>4, <2>5, <2>6, <2>7, <2>8, <2>9, <2>10, <2>11 DEF UploadThread
<1> QED
  BY <1>5, <1>6, <1>7, <1>8, <1>9, <1>10 DEF Next

LEMMA EventsInvInit == Init => EventsIInv
<1> SUFFICES ASSUME Init PROVE EventsIInv
  OBVIOUS
<1>1. PICK program \in Programs :
          /\ fate = [i \in Items |-> IF i \in program THEN "unsent" ELSE "never"]
          /\ cacheIfCannotSend = (Caching \in program)
          /\ wpc = [w \in Waiters |-> IF w \in program THEN "idle" ELSE "never"]
  BY DEF Init
<1>2. /\ snapBuffer = <<>> /\ eventBuffer = <<>> /\ uploadFileBatchFutures = <<>> /\ eventBatch = <<>>
      /\ told = [i \in Items |-> "nothing"] /\ reloaded = {} /\ pc = "limits"
      /\ before = [w \in Waiters |-> {}] /\ cache = [s \in Snaps |-> "none"]
  BY DEF Init
<1>3. /\ \A i \in Items : fate[i] \in {"unsent", "never"} /\ told[i] = "nothing"
      /\ ToSet(snapBuffer) = {} /\ ToSet(eventBuffer) = {} /\ Len(uploadFileBatchFutures) = 0
      /\ \A w \in Waiters : before[w] = {} /\ wpc[w] \in {"idle", "never"}
      /\ Batches = {}
  BY <1>1, <1>2, NoElements DEF Batches
<1>4. ThreadsTyped
  <2>1. wpc \in [Waiters -> Places] /\ cache \in [Snaps -> {"none", "partial", "whole"}]
    BY <1>1, <1>2 DEF Places
  <2>2. cacheIfCannotSend \in BOOLEAN
    BY <1>1
  <2>3. QED
    BY <1>2, <2>1, <2>2 DEF Init, ThreadsTyped
<1>5. BuffersTyped
  BY <1>2, <1>3 DEF BuffersTyped
<1>6. HistoryTyped
  <2>1. fate \in [Items -> Fates]
    BY <1>1 DEF Fates
  <2>2. QED
    BY <1>2, <2>1 DEF HistoryTyped
<1>7. \A i : ~OnItsWay(i) /\ ~InBatch(i)
  BY <1>3 DEF OnItsWay, InBatch
<1>8. Held
  BY <1>2, <1>3, <1>7 DEF Held, Sent, Known, Cared, Posting, Settled, PendingHeld
<1>9. Unique /\ OneRightAnswer /\ InCache
  BY <1>2, <1>3 DEF Unique, UniqueIn, OneRightAnswer, InCache
<1>10. CacheInv
  BY <1>2, <1>3 DEF CacheInv, Writes, ToCache, CachedHeld, Items
<1> QED
  BY <1>4, <1>5, <1>6, <1>8, <1>9, <1>10 DEF EventsIInv, ItemsInv

LEMMA EventsInvNext == EventsIInv /\ [Next]_vars => EventsIInv'
<1> SUFFICES ASSUME EventsIInv, [Next]_vars PROVE EventsIInv'
  OBVIOUS
<1>1. ThreadsTyped /\ InCache /\ CacheInv /\ Writes /\ ItemsInv /\ wpc \in [Waiters -> Places]
  BY DEF EventsIInv, ThreadsTyped, CacheInv
<1>2. CASE Next
  <2>1. ThreadsTyped' /\ InCache' /\ CacheInv'
    BY <1>1, <1>2, ThreadsTypedKeeps, InCacheKeeps, CacheInvKeeps
  <2>2. ItemsInv'
    BY <1>1, <1>2, CallerKeeps, BatchStepKeeps, UploadThreadKeeps DEF Next
  <2>3. QED
    BY <2>1, <2>2 DEF EventsIInv
<1>3. CASE UNCHANGED vars
  <2>1. UNCHANGED <<snapBuffer, eventBuffer, uploadFileBatchFutures, told, fate, reloaded, pc,
                    eventBatch, wpc, before, cache>>
    BY <1>3 DEF vars, buffers, thread, waits, history
  <2>2. Posting' /\ Settled' /\ eventBatch' \in Seq(Items) /\ before' \in [Waiters -> SUBSET Items]
    BY <1>1, <2>1 DEF ItemsInv, Held, Posting, Settled, BuffersTyped, HistoryTyped
  <2>3. \A w \in Waiters : \A i \in before'[w] : Known(i)
    BY <1>1, <2>1 DEF ItemsInv, Held, Sent
  <2>4. ItemsInv'
    BY <1>1, <2>1, <2>2, <2>3, QuietKeeps
  <2>5. ThreadsTyped'
    BY <1>1, <1>3 DEF ThreadsTyped, vars, limits, flags, buffers, thread, waits
  <2>6. InCache' /\ CacheInv'
    BY <1>1, <2>1 DEF InCache, Known, CacheInv, Writes, ToCache, CachedHeld, Once
  <2>7. QED
    BY <2>4, <2>5, <2>6 DEF EventsIInv
<1> QED
  BY <1>2, <1>3

LEMMA EventsInvariant == Spec => []EventsIInv
BY EventsInvInit, EventsInvNext, PTL DEF Spec

----------------------------------------------------------------------------

\* Every variable of the events manager keeps its type, and a batch's record
\* names the groups of its own snaps.
THEOREM EventsTypeCorrect == Spec => []EventsTypeOK
<1>1. EventsIInv => EventsTypeOK
  BY DEF EventsIInv, ItemsInv, EventsTypeOK
<1> QED
  BY <1>1, EventsInvariant, PTL

\* What sendEvent or sendSnap took is in snapBuffer, a batch or eventBuffer
\* until it met its fate, whichever thread hands it over; what counts as cached
\* is whole in its directory until uploadCachedSnaps reads it, and a snap that
\* was read too early counts as lost.
THEOREM EventsNothingVanishes == Spec => []NothingVanishes
<1>1. EventsIInv => NothingVanishes
  BY DEF EventsIInv, ItemsInv, Held, CacheInv, NothingVanishes
<1> QED
  BY <1>1, EventsInvariant, PTL

\* uploadEventBatch and the groups' threads call one callback of an item, and
\* the one for success if and only if the server took it.
THEOREM EventsOneRightAnswer == Spec => []OneRightAnswer
<1>1. EventsIInv => OneRightAnswer
  BY DEF EventsIInv, ItemsInv
<1> QED
  BY <1>1, EventsInvariant, PTL

\* When waitForPendingUploads returns true, all that was sent before the call
\* has met its fate.
THEOREM EventsTrueMeansSettled == Spec => []TrueMeansSettled
<1>1. EventsIInv => TrueMeansSettled
  BY DEF EventsIInv, ItemsInv, Held, Settled, TrueMeansSettled
<1> QED
  BY <1>1, EventsInvariant, PTL

=============================================================================

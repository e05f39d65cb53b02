------------------------- MODULE MessageQueueProofs -------------------------
(***************************************************************************)
(* waitAny and getAny, for any number of queues and clients: the waiter    *)
(* sleeps through no message and no close, leaves no notifier behind, and  *)
(* no message is delivered twice or vanishes.                              *)
(***************************************************************************)
EXTENDS MessageQueue, SequenceTheorems, TLAPS

Notifying(q) == \E c \in Clients : at[c] = "notify" /\ on[c] = q

\* The notifier is registered from the first look at a queue to the last.
Registered ==
    /\ wpc = "add" => notifiers = {j \in Queues : j < i}
    /\ wpc = "remove" => notifiers = {j \in Queues : i <= j}
    /\ wpc \in {"idle", "get", "pop"} => notifiers = {}
    /\ wpc \in {"allClosed", "isClosed", "has", "empty", "acquire"} => notifiers = Queues

\* The queues that the evaluation in progress has passed.
Passed == IF wpc = "acquire" THEN Queues ELSE {j \in Queues : j < i}

\* Who changed a queue that the wait's predicate has passed will notify.
Looked ==
    /\ wpc = "acquire" => phase = "pred"
    /\ phase = "pred" /\ ~available /\ wpc \in {"isClosed", "has", "empty", "acquire"} =>
         /\ \A j \in Passed : HasMessage(j) => Notifying(j)
         /\ AllClosed => \E c \in Clients : at[c] = "notify"

\* A client that is pushing has a message, the others have none.
Busy(c) == at[c] \in {"push", "tryPush"}
Loaded == \A c \in Clients : data[c] \in (IF Busy(c) THEN Msgs ELSE {0})

\* The part of the inductive invariant about waiting.
Waits == TypeOK /\ Registered /\ Looked /\ Loaded

----------------------------------------------------------------------------
(* Waiting.                                                                *)

LEMMA InitTypeOK == Init => TypeOK
<1> SUFFICES ASSUME Init PROVE TypeOK
  OBVIOUS
<1>1. <<>> \in Seq(Msgs) /\ NQueues \in Nat \ {0} /\ MaxMsgs \in Nat
  BY NQueuesAssumption, MsgsAssumption
<1>2. available \in BOOLEAN /\ timed \in BOOLEAN /\ expired \in BOOLEAN /\ got \in BOOLEAN
  BY Zenon DEF Init
<1> QED
  BY <1>1, <1>2 DEF Init, TypeOK, Queues, Msgs

LEMMA InitWaits == Init => Waits
<1> SUFFICES ASSUME Init PROVE Waits
  OBVIOUS
<1>1. TypeOK
  BY InitTypeOK
<1>2. Registered /\ Looked /\ Loaded
  BY DEF Init, Registered, Looked, Loaded, Busy
<1> QED
  BY <1>1, <1>2 DEF Waits

\* The types of the clients' variables after a client has gone on.
LEMMA GotoTyped ==
    ASSUME TypeOK, NEW c \in Clients, NEW place \in {"idle", "push", "tryPush", "notify"},
           NEW q \in Queues, NEW m \in 0 .. MaxMsgs, Goto(c, place, q, m)
    PROVE  /\ at' \in [Clients -> {"idle", "push", "tryPush", "notify"}]
           /\ on' \in [Clients -> Queues]
           /\ data' \in [Clients -> 0 .. MaxMsgs]
           /\ at'[c] = place /\ on'[c] = q /\ data'[c] = m
           /\ \A d \in Clients : d # c => at'[d] = at[d] /\ on'[d] = on[d] /\ data'[d] = data[d]
BY DEF TypeOK, Goto

\* What a client's step that does not notify must do for Looked: a queue it
\* gives a message or closes it will notify of.
LEMMA ClientLooked ==
    ASSUME Looked, UNCHANGED <<wpc, i, phase, available>>,
           \A j \in Queues : Notifying(j) => Notifying(j)',
           (\E c \in Clients : at[c] = "notify") => (\E c \in Clients : at'[c] = "notify"),
           \A j \in Queues : HasMessage(j)' => HasMessage(j) \/ Notifying(j)',
           AllClosed' => AllClosed \/ \E c \in Clients : at'[c] = "notify"
    PROVE  Looked'
<1>1. Passed' = Passed /\ Passed \subseteq Queues
  BY DEF Passed
<1> QED
  BY <1>1 DEF Looked

\* A client that was not about to notify takes no notification away.
LEMMA NotifyingKept ==
    ASSUME TypeOK, NEW c \in Clients, at[c] # "notify",
           \A d \in Clients : d # c => at'[d] = at[d] /\ on'[d] = on[d]
    PROVE  /\ \A j \in Queues : Notifying(j) => Notifying(j)'
           /\ (\E d \in Clients : at[d] = "notify") => (\E d \in Clients : at'[d] = "notify")
BY DEF Notifying

LEMMA SendWaits ==
    ASSUME Waits, NEW c \in Clients, NEW q \in Queues, send(c, q) \/ sendTimed(c, q)
    PROVE  Waits'
<1>1. /\ at[c] = "idle" /\ calls < MaxMsgs /\ calls' = calls + 1
      /\ heard' = heard \cup {calls'}
      /\ \/ \E place \in {"push", "tryPush"} : Goto(c, place, q, calls') /\ UNCHANGED refused
         \/ UNCHANGED cvars /\ refused' = refused \cup {calls'}
      /\ UNCHANGED <<msgs, closed, blocking, notifiers, wvars, delivered, lost>>
  BY DEF send, sendTimed
<1>2. TypeOK
  BY DEF Waits
<1>3. calls' \in 0 .. MaxMsgs /\ calls' \in Msgs
  BY <1>1, <1>2, MsgsAssumption DEF TypeOK, Msgs
<1>4. /\ at' \in [Clients -> {"idle", "push", "tryPush", "notify"}]
      /\ on' \in [Clients -> Queues]
      /\ data' \in [Clients -> 0 .. MaxMsgs]
      /\ \A d \in Clients : d # c => at'[d] = at[d] /\ on'[d] = on[d]
      /\ refused' \subseteq Msgs
      /\ data'[c] \in (IF at'[c] \in {"push", "tryPush"} THEN Msgs ELSE {0})
      /\ \A d \in Clients : d # c => data'[d] = data[d]
  <2>1. CASE \E place \in {"push", "tryPush"} : Goto(c, place, q, calls') /\ UNCHANGED refused
    BY <1>2, <1>3, <2>1, GotoTyped DEF TypeOK
  <2>2. CASE UNCHANGED cvars /\ refused' = refused \cup {calls'}
    BY <1>1, <1>2, <1>3, <2>2 DEF TypeOK, cvars, Waits, Loaded, Busy
  <2> QED
    BY <1>1, <2>1, <2>2
<1>5. TypeOK'
  BY <1>1, <1>2, <1>3, <1>4 DEF TypeOK, wvars
<1>6. Looked'
  <2>1. /\ \A j \in Queues : Notifying(j) => Notifying(j)'
        /\ (\E d \in Clients : at[d] = "notify") => (\E d \in Clients : at'[d] = "notify")
    BY <1>1, <1>2, <1>4, NotifyingKept
  <2> QED
    BY <1>1, <2>1, ClientLooked DEF Waits, wvars, HasMessage, AllClosed
<1>7. Registered'
  BY <1>1 DEF Waits, Registered, wvars
<1>8. Loaded'
  BY <1>4 DEF Waits, Loaded, Busy
<1> QED
  BY <1>5, <1>6, <1>7, <1>8 DEF Waits

\* A full queue that drops its oldest message, or one with room, takes a message.
LEMMA TakesMessage ==
    ASSUME NEW s \in Seq(Msgs), NEW m \in Msgs
    PROVE  Append(IF Len(s) >= Cap THEN Tail(s) ELSE s, m) \in Seq(Msgs)
<1>1. CASE Len(s) >= Cap
  <2>1. s # <<>>
    BY <1>1, CapAssumption
  <2> QED
    BY <1>1, <2>1, HeadTailProperties, AppendProperties
<1>2. CASE ~(Len(s) >= Cap)
  BY <1>2, AppendProperties
<1> QED
  BY <1>1, <1>2

LEMMA PushWaits ==
    ASSUME Waits, NEW c \in Clients, Push(c) PROVE Waits'
<1> DEFINE q == on[c]
           m == data[c]
           taken == [msgs EXCEPT ![q] = Append(IF Len(@) >= Cap THEN Tail(@) ELSE @, m)]
<1>1. /\ at[c] \in {"push", "tryPush"}
      /\ \/ msgs' = taken /\ Goto(c, "notify", q, 0) /\ UNCHANGED refused
         \/ /\ refused' = refused \cup {m} /\ UNCHANGED msgs
            /\ \E place \in {"notify", "idle"} : Goto(c, place, q, 0)
      /\ UNCHANGED <<closed, blocking, notifiers, wvars, calls, heard, delivered, lost>>
  BY DEF Push
<1>2. TypeOK /\ Busy(c) /\ q \in Queues /\ m \in Msgs
  BY <1>1 DEF Waits, Busy, TypeOK, Loaded
<1>3. 0 \in 0 .. MaxMsgs
  BY MsgsAssumption
<1>4. \E place \in {"notify", "idle"} : Goto(c, place, q, 0)
  BY <1>1
<1>5. /\ at' \in [Clients -> {"idle", "push", "tryPush", "notify"}]
      /\ on' \in [Clients -> Queues]
      /\ data' \in [Clients -> 0 .. MaxMsgs]
      /\ on'[c] = q
      /\ \A d \in Clients : d # c => at'[d] = at[d] /\ on'[d] = on[d] /\ data'[d] = data[d]
      /\ data'[c] = 0 /\ at'[c] \in {"notify", "idle"}
  BY <1>2, <1>3, <1>4, GotoTyped
<1>6. /\ msgs' \in [Queues -> Seq(Msgs)] /\ refused' \subseteq Msgs
      /\ \A j \in Queues : j # q => msgs'[j] = msgs[j]
  <2>1. msgs \in [Queues -> Seq(Msgs)] /\ refused \subseteq Msgs
    BY <1>2 DEF TypeOK
  <2>2. Append(IF Len(msgs[q]) >= Cap THEN Tail(msgs[q]) ELSE msgs[q], m) \in Seq(Msgs)
    BY <1>2, <2>1, TakesMessage
  <2> QED
    BY <1>1, <1>2, <2>1, <2>2
<1>7. TypeOK'
  BY <1>1, <1>2, <1>5, <1>6 DEF TypeOK, wvars
<1>8. Registered'
  BY <1>1 DEF Waits, Registered, wvars
<1>9. Looked'
  <2>1. /\ \A j \in Queues : Notifying(j) => Notifying(j)'
        /\ (\E d \in Clients : at[d] = "notify") => (\E d \in Clients : at'[d] = "notify")
    BY <1>1, <1>2, <1>5, NotifyingKept
  <2>2. msgs' # msgs => at'[c] = "notify"
    BY <1>1, <1>2, <1>3, GotoTyped
  <2>3. \A j \in Queues : HasMessage(j)' => HasMessage(j) \/ Notifying(j)'
    BY <1>1, <1>5, <1>6, <2>2 DEF HasMessage, Notifying
  <2> QED
    BY <1>1, <2>1, <2>3, ClientLooked DEF Waits, wvars, AllClosed
<1>10. Loaded'
  BY <1>5 DEF Waits, Loaded, Busy
<1> QED
  BY <1>7, <1>8, <1>9, <1>10 DEF Waits

LEMMA PushTimeOutWaits ==
    ASSUME Waits, NEW c \in Clients, PushTimeOut(c) PROVE Waits'
<1>1. /\ at[c] = "tryPush" /\ Goto(c, "idle", on[c], 0) /\ refused' = refused \cup {data[c]}
      /\ UNCHANGED <<msgs, closed, blocking, notifiers, wvars, calls, heard, delivered, lost>>
  BY DEF PushTimeOut
<1>2. TypeOK /\ on[c] \in Queues /\ data[c] \in Msgs /\ 0 \in 0 .. MaxMsgs
  BY <1>1, MsgsAssumption DEF Waits, TypeOK, Loaded, Busy
<1>3. /\ at' \in [Clients -> {"idle", "push", "tryPush", "notify"}]
      /\ on' \in [Clients -> Queues]
      /\ data' \in [Clients -> 0 .. MaxMsgs]
      /\ \A d \in Clients : d # c => at'[d] = at[d] /\ on'[d] = on[d] /\ data'[d] = data[d]
      /\ data'[c] = 0 /\ at'[c] = "idle"
  BY <1>1, <1>2, GotoTyped
<1>4. TypeOK'
  BY <1>1, <1>2, <1>3 DEF TypeOK, wvars
<1>5. Registered' /\ Loaded'
  BY <1>1, <1>3 DEF Waits, Registered, Loaded, Busy, wvars
<1>6. Looked'
  <2>1. /\ \A j \in Queues : Notifying(j) => Notifying(j)'
        /\ (\E d \in Clients : at[d] = "notify") => (\E d \in Clients : at'[d] = "notify")
    BY <1>1, <1>2, <1>3, NotifyingKept
  <2> QED
    BY <1>1, <2>1, ClientLooked DEF Waits, wvars, HasMessage, AllClosed
<1> QED
  BY <1>4, <1>5, <1>6 DEF Waits

LEMMA CloseWaits ==
    ASSUME Waits, NEW c \in Clients, NEW q \in Queues, close(c, q) PROVE Waits'
<1>1. /\ at[c] = "idle" /\ Goto(c, "notify", q, 0)
      /\ closed' = [closed EXCEPT ![q] = TRUE]
      /\ UNCHANGED <<msgs, blocking, notifiers, wvars, hvars>>
  BY DEF close
<1>2. TypeOK /\ 0 \in 0 .. MaxMsgs
  BY MsgsAssumption DEF Waits
<1>3. /\ at' \in [Clients -> {"idle", "push", "tryPush", "notify"}]
      /\ on' \in [Clients -> Queues]
      /\ data' \in [Clients -> 0 .. MaxMsgs]
      /\ \A d \in Clients : d # c => at'[d] = at[d] /\ on'[d] = on[d] /\ data'[d] = data[d]
      /\ data'[c] = 0 /\ at'[c] = "notify"
  BY <1>1, <1>2, GotoTyped
<1>4. /\ closed \in [Queues -> BOOLEAN] /\ closed' \in [Queues -> BOOLEAN]
      /\ \A j \in Queues : j # q => closed'[j] = closed[j]
      /\ closed'[q] = TRUE
  BY <1>1, <1>2 DEF TypeOK
<1>5. TypeOK'
  BY <1>1, <1>2, <1>3, <1>4 DEF TypeOK, wvars, hvars
<1>6. Registered' /\ Loaded'
  BY <1>1, <1>3 DEF Waits, Registered, Loaded, Busy, wvars
<1>7. Looked'
  <2>1. /\ \A j \in Queues : Notifying(j) => Notifying(j)'
        /\ (\E d \in Clients : at[d] = "notify") => (\E d \in Clients : at'[d] = "notify")
    BY <1>1, <1>2, <1>3, NotifyingKept
  <2>2. \A j \in Queues : closed[j] => closed'[j]
    BY <1>4
  <2>3. \A j \in Queues : HasMessage(j)' => HasMessage(j)
    BY <1>1, <2>2 DEF HasMessage
  <2> QED
    BY <1>1, <1>3, <2>1, <2>3, ClientLooked DEF Waits, wvars
<1> QED
  BY <1>5, <1>6, <1>7 DEF Waits

LEMMA NotifyWaits ==
    ASSUME Waits, NEW c \in Clients, notifyListeners(c) PROVE Waits'
<1>1. /\ at[c] = "notify" /\ Goto(c, "idle", on[c], 0)
      /\ available' = (available \/ on[c] \in notifiers)
      /\ UNCHANGED <<msgs, closed, blocking, notifiers, wpc, i, phase, timed,
                     expired, got, inputs, outcome, hvars>>
  BY DEF notifyListeners
<1>2. TypeOK /\ 0 \in 0 .. MaxMsgs /\ on[c] \in Queues
  BY MsgsAssumption DEF Waits, TypeOK
<1>3. /\ at' \in [Clients -> {"idle", "push", "tryPush", "notify"}]
      /\ on' \in [Clients -> Queues]
      /\ data' \in [Clients -> 0 .. MaxMsgs]
      /\ \A d \in Clients : d # c => at'[d] = at[d] /\ on'[d] = on[d] /\ data'[d] = data[d]
      /\ data'[c] = 0 /\ at'[c] = "idle"
  BY <1>1, <1>2, GotoTyped
<1>4. TypeOK'
  <2>1. available' \in BOOLEAN
    BY <1>1, Zenon
  <2> QED
    BY <1>1, <1>2, <1>3, <2>1 DEF TypeOK, hvars
<1>5. Registered' /\ Loaded'
  BY <1>1, <1>3 DEF Waits, Registered, Loaded, Busy
<1>6. Looked'
  <2>1. wpc \in {"isClosed", "has", "empty", "acquire"} => available'
    BY <1>1, <1>2 DEF Waits, Registered
  <2> QED
    BY <1>1, <2>1 DEF Waits, Looked
<1> QED
  BY <1>4, <1>5, <1>6 DEF Waits

\* What the waiter's steps leave alone; it walks from place to place.
LEMMA WaiterTyped ==
    ASSUME Waits, Frame, UNCHANGED inputs, notifiers' \subseteq Queues,
           wpc' \in {"idle", "add", "allClosed", "isClosed", "has", "empty", "acquire",
                     "remove", "get", "pop"},
           i' \in Queues, phase' \in {"first", "pred", "last"},
           available' \in BOOLEAN, timed' \in BOOLEAN, expired' \in BOOLEAN, got' \in BOOLEAN,
           outcome' \in {"none", "messages", "empty", "threw"}
    PROVE  TypeOK' /\ Loaded'
BY DEF Waits, TypeOK, Loaded, Busy, Frame, cvars, hvars

\* Looked is about the wait's predicate only.
LEMMA NotInPredicate ==
    ASSUME wpc' # "acquire",
           phase' # "pred" \/ wpc' \notin {"isClosed", "has", "empty", "acquire"}
    PROVE  Looked'
BY DEF Looked

LEMMA WalkTyped ==
    ASSUME NQueues \in Nat \ {0}, i \in Queues
    PROVE  1 \in Queues /\ (i < NQueues => i + 1 \in Queues) /\ (~(i < NQueues) => i = NQueues)
BY DEF Queues

\* A complete look at the queues: where it leads, and what it may conclude.
LEMMA FoundWalk ==
    ASSUME Waits, NEW b \in BOOLEAN, Found(b), wpc \in {"isClosed", "empty"}
    PROVE  /\ wpc' \in {"allClosed", "acquire", "remove", "isClosed"}
           /\ i' = 1 /\ phase' \in {"first", "pred", "last"} /\ got' \in BOOLEAN
           /\ wpc' = "isClosed" => phase' = "last"
           /\ wpc' = "acquire" => phase = "pred" /\ phase' = "pred" /\ b = FALSE
<1>1. got \in BOOLEAN /\ phase \in {"first", "pred", "last"}
  BY DEF Waits, TypeOK
<1>2. CASE phase = "first" /\ ~b
  BY <1>1, <1>2 DEF Found, Walk
<1>3. CASE phase = "pred" /\ ~b
  BY <1>1, <1>3 DEF Found, Walk
<1>4. CASE phase = "last"
  BY <1>1, <1>4 DEF Found, Walk
<1>5. CASE phase # "last" /\ b
  BY <1>1, <1>5 DEF Found, Walk
<1> QED
  BY <1>1, <1>2, <1>3, <1>4, <1>5

\* Queue i has nothing for getAny: the look at the queues goes on, or is over.
LEMMA NextQueueWaits ==
    ASSUME Waits, wpc \in {"isClosed", "empty"}, ~HasMessage(i), NextQueue, Frame,
           UNCHANGED <<notifiers, available, timed, expired, inputs, outcome>>
    PROVE  Waits'
<1>1. TypeOK /\ Registered /\ Looked /\ notifiers = Queues
  BY DEF Waits, Registered
<1>2. i \in Queues /\ got \in BOOLEAN /\ phase \in {"first", "pred", "last"}
  BY <1>1 DEF TypeOK
<1>3. 1 \in Queues /\ (i < NQueues => i + 1 \in Queues) /\ (~(i < NQueues) => i = NQueues)
  BY <1>2, NQueuesAssumption, WalkTyped
<1>4. CASE i < NQueues
  <2>1. wpc' = "isClosed" /\ i' = i + 1 /\ phase' = phase /\ got' = got
    BY <1>4 DEF NextQueue, Walk
  <2>2. TypeOK' /\ Loaded'
    BY <1>1, <1>2, <1>3, <1>4, <2>1, WaiterTyped DEF TypeOK
  <2>3. Registered'
    BY <1>1, <2>1 DEF Registered
  <2>4. Looked'
    <3>1. Passed' = Passed \cup {i}
      BY <1>2, <2>1 DEF Passed, Queues
    <3>2. \A j \in Queues : HasMessage(j)' = HasMessage(j) /\ Notifying(j)' = Notifying(j)
      BY DEF HasMessage, Notifying, Frame, cvars
    <3>3. Passed' \subseteq Queues
      BY <2>1 DEF Passed
    <3> QED
      BY <1>1, <2>1, <3>1, <3>2, <3>3 DEF Looked, Frame, cvars, AllClosed
  <2> QED
    BY <2>2, <2>3, <2>4 DEF Waits
<1>5. CASE ~(i < NQueues)
  <2>1. Found(FALSE)
    BY <1>5 DEF NextQueue
  <2>2. /\ wpc' \in {"allClosed", "acquire", "remove", "isClosed"}
        /\ i' = 1 /\ phase' \in {"first", "pred", "last"} /\ got' \in BOOLEAN
        /\ wpc' = "isClosed" => phase' = "last"
        /\ wpc' = "acquire" => phase = "pred" /\ phase' = "pred"
    BY <2>1, FoundWalk
  <2>3. TypeOK' /\ Loaded'
    BY <1>1, <1>2, <1>3, <2>2, WaiterTyped DEF TypeOK
  <2>4. Registered'
    <3>1. {j \in Queues : 1 <= j} = Queues
      BY DEF Queues
    <3> QED
      BY <1>1, <2>2, <3>1 DEF Registered
  <2>5. Looked'
    <3>1. CASE wpc' # "acquire"
      BY <2>2, <3>1, NotInPredicate
    <3>2. CASE wpc' = "acquire"
      <4>1. Passed \cup {i} = Queues /\ Passed' = Queues
        BY <1>2, <1>3, <1>5, <3>2, NQueuesAssumption DEF Passed, Queues
      <4>2. \A j \in Queues : HasMessage(j)' = HasMessage(j) /\ Notifying(j)' = Notifying(j)
        BY DEF HasMessage, Notifying, Frame, cvars
      <4> QED
        BY <1>1, <2>2, <3>2, <4>1, <4>2 DEF Looked, Frame, cvars, AllClosed
    <3> QED
      BY <3>1, <3>2
  <2> QED
    BY <2>3, <2>4, <2>5 DEF Waits
<1> QED
  BY <1>4, <1>5

LEMMA GetAnyWaits ==
    ASSUME Waits, getAny \/ addNotifier PROVE Waits'
<1>1. TypeOK /\ Registered /\ Looked /\ Loaded
  BY DEF Waits
<1>2. 1 \in Queues /\ i \in Queues /\ (i < NQueues => i + 1 \in Queues)
  BY <1>1, NQueuesAssumption, WalkTyped DEF TypeOK
<1>3. CASE getAny
  <2>1. /\ wpc = "idle" /\ wpc' = "add" /\ i' = 1 /\ phase' = "first" /\ timed' \in BOOLEAN
        /\ available' = FALSE /\ expired' = FALSE /\ got' = FALSE
        /\ inputs' = {} /\ outcome' = "none" /\ UNCHANGED notifiers /\ Frame
    BY <1>3 DEF getAny, Walk
  <2>2. available' \in BOOLEAN /\ expired' \in BOOLEAN /\ got' \in BOOLEAN
    BY <2>1, Zenon
  <2>3. TypeOK' /\ Loaded'
    BY <1>1, <1>2, <2>1, <2>2 DEF TypeOK, Loaded, Busy, Frame, cvars, hvars
  <2>4. Registered' /\ Looked'
    BY <1>1, <2>1 DEF Registered, Looked, Queues
  <2> QED
    BY <2>3, <2>4 DEF Waits
<1>4. CASE addNotifier
  <2>1. /\ wpc = "add" /\ notifiers' = notifiers \cup {i}
        /\ IF i < NQueues THEN wpc' = "add" /\ i' = i + 1 /\ phase' = phase
                          ELSE wpc' = "allClosed" /\ i' = 1 /\ phase' = "first"
        /\ UNCHANGED <<available, timed, expired, got, inputs, outcome>> /\ Frame
    BY <1>4 DEF addNotifier, Walk
  <2>2. TypeOK' /\ Loaded'
    <3>1. notifiers' \subseteq Queues
      BY <1>1, <1>2, <2>1 DEF TypeOK
    <3> QED
      BY <1>1, <1>2, <2>1, <3>1, WaiterTyped DEF TypeOK
  <2>3. Registered'
    BY <1>1, <1>2, <2>1, NQueuesAssumption DEF Registered, Queues
  <2>4. Looked'
    BY <2>1, NotInPredicate
  <2> QED
    BY <2>2, <2>3, <2>4 DEF Waits
<1> QED
  BY <1>3, <1>4

LEMMA CheckAllClosedWaits ==
    ASSUME Waits, checkAllClosed PROVE Waits'
<1>1. TypeOK /\ Registered /\ Looked /\ Loaded
  BY DEF Waits
<1>2. 1 \in Queues /\ i \in Queues /\ (i < NQueues => i + 1 \in Queues)
  BY <1>1, NQueuesAssumption, WalkTyped DEF TypeOK
<1>3. /\ wpc = "allClosed"
      /\ \/ wpc' = "isClosed" /\ i' = 1 /\ phase' = phase /\ ~closed[i]
         \/ wpc' = "allClosed" /\ i' = i + 1 /\ phase' = phase /\ i < NQueues
         \/ wpc' = "isClosed" /\ i' = 1 /\ phase' = "last"
      /\ UNCHANGED <<notifiers, available, timed, expired, got, inputs, outcome>> /\ Frame
  BY DEF checkAllClosed, Walk
<1>4. TypeOK' /\ Loaded'
  BY <1>1, <1>2, <1>3, WaiterTyped DEF TypeOK
<1>5. Registered'
  BY <1>1, <1>3 DEF Registered
<1>6. Looked'
  <2>1. CASE wpc' = "isClosed" /\ i' = 1 /\ phase' = phase /\ ~closed[i]
    <3>1. Passed' = {} /\ ~AllClosed'
      BY <1>2, <1>3, <2>1 DEF Passed, Queues, AllClosed, Frame
    <3> QED
      BY <2>1, <3>1 DEF Looked
  <2>2. CASE wpc' = "allClosed" \/ phase' = "last"
    BY <1>3, <2>2, NotInPredicate
  <2> QED
    BY <1>3, <2>1, <2>2
<1> QED
  BY <1>4, <1>5, <1>6 DEF Waits

LEMMA LookWaits ==
    ASSUME Waits, isClosed \/ has \/ empty PROVE Waits'
<1>1. TypeOK /\ Registered /\ Looked /\ Loaded
  BY DEF Waits
<1>2. 1 \in Queues /\ i \in Queues /\ phase \in {"first", "pred", "last"} /\ got \in BOOLEAN
  BY <1>1, NQueuesAssumption, WalkTyped DEF TypeOK
<1>3. CASE isClosed /\ closed[i]
  BY <1>3, NextQueueWaits DEF isClosed, HasMessage
<1>4. CASE empty /\ msgs[i] = <<>>
  BY <1>4, NextQueueWaits DEF empty, HasMessage
<1>5. CASE (isClosed /\ ~closed[i]) \/ (has /\ ~closed[i])
  <2>1. /\ wpc \in {"isClosed", "has"} /\ wpc' \in {"has", "empty"} /\ i' = i /\ phase' = phase
        /\ UNCHANGED <<notifiers, available, timed, expired, got, inputs, outcome>> /\ Frame
    BY <1>5 DEF isClosed, has, Walk
  <2>2. TypeOK' /\ Loaded'
    BY <1>1, <2>1, WaiterTyped DEF TypeOK
  <2>3. Registered'
    BY <1>1, <2>1 DEF Registered
  <2>4. Looked'
    <3>1. Passed' = Passed /\ Passed \subseteq Queues
      BY <2>1 DEF Passed
    <3>2. \A j \in Queues : HasMessage(j)' = HasMessage(j) /\ Notifying(j)' = Notifying(j)
      BY <2>1 DEF HasMessage, Notifying, Frame, cvars
    <3> QED
      BY <1>1, <2>1, <3>1, <3>2 DEF Looked, Frame, cvars, AllClosed
  <2> QED
    BY <2>2, <2>3, <2>4 DEF Waits
<1>6. CASE has /\ closed[i]
  <2>1. /\ wpc = "has" /\ i' = 1
        /\ wpc' \in {"isClosed", "remove"} /\ (wpc' = "isClosed" => phase' = "last")
        /\ phase' \in {"first", "pred", "last"} /\ outcome' \in {outcome, "threw"}
        /\ UNCHANGED <<notifiers, available, timed, expired, got, inputs>> /\ Frame
    <3>1. CASE phase = "pred"
      BY <1>2, <1>6, <3>1 DEF has, Walk
    <3>2. CASE phase # "pred"
      BY <1>2, <1>6, <3>2 DEF has, Walk
    <3> QED
      BY <3>1, <3>2
  <2>2. TypeOK' /\ Loaded'
    BY <1>1, <1>2, <2>1, WaiterTyped DEF TypeOK
  <2>3. Registered'
    <3>1. {j \in Queues : 1 <= j} = Queues
      BY DEF Queues
    <3> QED
      BY <1>1, <2>1, <3>1 DEF Registered
  <2>4. Looked'
    BY <2>1, NotInPredicate
  <2> QED
    BY <2>2, <2>3, <2>4 DEF Waits
<1>7. CASE empty /\ msgs[i] # <<>>
  <2>1. /\ wpc = "empty" /\ Found(TRUE)
        /\ UNCHANGED <<notifiers, available, timed, expired, inputs, outcome>> /\ Frame
    BY <1>7 DEF empty
  <2>2. /\ wpc' \in {"allClosed", "remove", "isClosed"}
        /\ i' = 1 /\ phase' \in {"first", "pred", "last"} /\ got' \in BOOLEAN
        /\ wpc' = "isClosed" => phase' = "last"
    BY <2>1, FoundWalk
  <2>3. TypeOK' /\ Loaded'
    BY <1>1, <1>2, <2>1, <2>2, WaiterTyped DEF TypeOK
  <2>4. Registered'
    <3>1. {j \in Queues : 1 <= j} = Queues
      BY DEF Queues
    <3> QED
      BY <1>1, <2>1, <2>2, <3>1 DEF Registered
  <2>5. Looked'
    BY <2>2, NotInPredicate
  <2> QED
    BY <2>3, <2>4, <2>5 DEF Waits
<1> QED
  BY <1>3, <1>4, <1>5, <1>6, <1>7

LEMMA AcquireWaits ==
    ASSUME Waits, acquire \/ waitForTimeOut PROVE Waits'
<1>1. TypeOK /\ Registered
  BY DEF Waits
<1>2. 1 \in Queues
  BY <1>1, NQueuesAssumption, WalkTyped DEF TypeOK
<1>3. /\ wpc = "acquire" /\ i' = 1
      /\ \/ wpc' = "allClosed" /\ phase' = "pred"
         \/ wpc' = "isClosed" /\ phase' = "last"
      /\ available' \in BOOLEAN /\ expired' \in BOOLEAN
      /\ UNCHANGED <<notifiers, timed, got, inputs, outcome>> /\ Frame
  <2>1. CASE acquire
    <3>1. available' \in BOOLEAN
      BY <2>1, Zenon DEF acquire
    <3> QED
      BY <1>1, <2>1, <3>1 DEF acquire, Walk, TypeOK
  <2>2. CASE waitForTimeOut
    <3>1. expired' \in BOOLEAN
      BY <2>2, Zenon DEF waitForTimeOut
    <3> QED
      BY <1>1, <2>2, <3>1 DEF waitForTimeOut, Walk, TypeOK
  <2> QED
    BY <2>1, <2>2
<1>4. TypeOK' /\ Loaded'
  BY <1>1, <1>2, <1>3, WaiterTyped DEF TypeOK
<1>5. Registered'
  BY <1>1, <1>3 DEF Registered
<1>6. Looked'
  BY <1>3, NotInPredicate
<1> QED
  BY <1>4, <1>5, <1>6 DEF Waits

LEMMA RemoveNotifiersWaits ==
    ASSUME Waits, removeNotifiers PROVE Waits'
<1>1. TypeOK /\ Registered
  BY DEF Waits
<1>2. 1 \in Queues /\ i \in Queues /\ (i < NQueues => i + 1 \in Queues)
      /\ (~(i < NQueues) => i = NQueues)
  BY <1>1, NQueuesAssumption, WalkTyped DEF TypeOK
<1>3. /\ wpc = "remove" /\ notifiers' = notifiers \ {i}
      /\ \/ wpc' = "remove" /\ i' = i + 1 /\ phase' = phase /\ outcome' = outcome /\ i < NQueues
         \/ /\ wpc' \in {"idle", "get"} /\ i' = 1 /\ phase' \in {phase, "first"}
            /\ outcome' \in {outcome, "empty"} /\ ~(i < NQueues)
      /\ UNCHANGED <<available, timed, expired, got, inputs>> /\ Frame
  <2>1. CASE i < NQueues
    BY <2>1 DEF removeNotifiers, Walk
  <2>2. CASE ~(i < NQueues) /\ (outcome = "threw" \/ ~got)
    BY <2>2 DEF removeNotifiers, Walk
  <2>3. CASE ~(i < NQueues) /\ outcome # "threw" /\ got
    BY <2>3 DEF removeNotifiers, Walk
  <2> QED
    BY <2>1, <2>2, <2>3
<1>4. TypeOK' /\ Loaded'
  BY <1>1, <1>2, <1>3, WaiterTyped DEF TypeOK
<1>5. Registered'
  BY <1>1, <1>2, <1>3, NQueuesAssumption DEF Registered, Queues
<1>6. Looked'
  BY <1>3, NotInPredicate
<1> QED
  BY <1>4, <1>5, <1>6 DEF Waits

LEMMA TryGetWaits ==
    ASSUME Waits, tryGet \/ tryPop PROVE Waits'
<1>1. TypeOK /\ Registered /\ Loaded
  BY DEF Waits
<1>2. 1 \in Queues /\ i \in Queues /\ (i < NQueues => i + 1 \in Queues)
  BY <1>1, NQueuesAssumption, WalkTyped DEF TypeOK
<1>3. /\ wpc \in {"get", "pop"} /\ wpc' \in {"idle", "get", "pop"}
      /\ i' \in Queues /\ phase' \in {"first", "pred", "last"}
      /\ outcome' \in {"none", "messages", "empty", "threw"}
      /\ UNCHANGED <<closed, blocking, notifiers, cvars, available, timed,
                     expired, got, calls, heard, refused>>
  <2>1. CASE tryGet
    BY <1>1, <1>2, <2>1 DEF tryGet, Walk, TypeOK
  <2>2. CASE tryPop
    BY <1>1, <1>2, <2>2 DEF tryPop, Walk, TypeOK
  <2> QED
    BY <2>1, <2>2
<1>4. /\ msgs' \in [Queues -> Seq(Msgs)] /\ inputs' \subseteq Msgs
      /\ delivered' \subseteq Msgs /\ lost' \subseteq Msgs
  <2>1. CASE tryGet
    BY <1>1, <2>1 DEF tryGet, TypeOK
  <2>2. CASE tryPop /\ msgs[i] = <<>>
    BY <1>1, <2>2 DEF tryPop, TypeOK
  <2>3. CASE tryPop /\ msgs[i] # <<>>
    <3>1. msgs[i] \in Seq(Msgs)
      BY <1>1, <1>2 DEF TypeOK
    <3>2. Head(msgs[i]) \in Msgs /\ Tail(msgs[i]) \in Seq(Msgs)
      BY <2>3, <3>1, HeadTailProperties
    <3> QED
      BY <1>1, <1>2, <2>3, <3>2 DEF tryPop, TypeOK
  <2> QED
    BY <2>1, <2>2, <2>3
<1>5. TypeOK'
  BY <1>1, <1>3, <1>4 DEF TypeOK, cvars
<1>6. Registered' /\ Looked'
  BY <1>1, <1>3, NotInPredicate DEF Registered
<1>7. Loaded'
  BY <1>1, <1>3 DEF Loaded, Busy, cvars
<1> QED
  BY <1>5, <1>6, <1>7 DEF Waits

\* Waits is inductive: any number of queues and of clients, in any order.
THEOREM WaitsInvariance == Spec => []Waits
<1>1. Waits /\ [Next]_vars => Waits'
  <2> SUFFICES ASSUME Waits, [Next]_vars PROVE Waits'
    OBVIOUS
  <2>1. CASE \E c \in Clients : \E q \in Queues : send(c, q) \/ sendTimed(c, q) \/ close(c, q)
    BY <2>1, SendWaits, CloseWaits
  <2>2. CASE \E c \in Clients : Push(c) \/ PushTimeOut(c) \/ notifyListeners(c)
    BY <2>2, PushWaits, PushTimeOutWaits, NotifyWaits
  <2>3. CASE Waiter
    BY <2>3, GetAnyWaits, CheckAllClosedWaits, LookWaits, AcquireWaits,
       RemoveNotifiersWaits, TryGetWaits DEF Waiter
  <2>4. CASE UNCHANGED vars
    <3>1. TypeOK'
      BY <2>4 DEF Waits, TypeOK, vars
    <3>2. Registered' /\ Loaded'
      BY <2>4 DEF Waits, Registered, Loaded, Busy, vars
    <3>3. Looked'
      BY <2>4 DEF Waits, Looked, Passed, HasMessage, AllClosed, Notifying, vars
    <3> QED
      BY <3>1, <3>2, <3>3 DEF Waits
  <2> QED
    BY <2>1, <2>2, <2>3, <2>4 DEF Next
<1> QED
  BY <1>1, InitWaits, PTL DEF Spec

\* The type invariant of the queues, the clients and the waiter.
THEOREM QueuesTypeCorrect == Spec => []TypeOK
<1>1. Waits => TypeOK
  BY DEF Waits
<1> QED
  BY <1>1, WaitsInvariance, PTL

(***************************************************************************)
(* waitAny sleeps through no message and not through the last close, and   *)
(* no notifier outlives its call (MessageQueue.cpp:247-265), however many  *)
(* queues and clients there are and however their steps interleave.        *)
(***************************************************************************)
THEOREM WaitAnySound == Spec => []WaitAnyIsSound
<1>1. Waits => WaitAnyIsSound
  BY DEF Waits, Looked, Registered, Passed, WaitAnyIsSound, WaitAnyMissesNothing,
     NotifiersRemoved, Notifying
<1> QED
  BY <1>1, WaitsInvariance, PTL

----------------------------------------------------------------------------
(* Accounting for every message.                                           *)

Holds(s) == {s[k] : k \in DOMAIN s}
Unique(s) == \A k, l \in DOMAIN s : s[k] = s[l] => k = l

\* No message is queued twice.
Once == /\ \A q \in Queues : Unique(msgs[q])
        /\ \A p, q \in Queues : p # q => Holds(msgs[p]) \cap Holds(msgs[q]) = {}

\* What getAny has taken out and not yet returned, what clients bring.
Collecting == IF wpc \in {"get", "pop"} THEN inputs ELSE {}
Carried == {data[c] : c \in {d \in Clients : Busy(d)}}

Fresh == wpc \notin {"idle", "get", "pop"} => inputs = {}

\* A message is in one place only, and was sent.
Separate ==
    /\ \A c, d \in Clients : Busy(c) /\ Busy(d) /\ data[c] = data[d] => c = d
    /\ Carried \cap (Queued \cup refused \cup delivered \cup lost \cup Collecting) = {}
    /\ refused \cap (Queued \cup delivered \cup lost \cup Collecting) = {}
    /\ delivered \cap (Queued \cup lost \cup Collecting) = {}
    /\ Queued \cap (lost \cup Collecting) = {}
    /\ lost \cap Collecting = {}
    /\ Carried \cup Queued \cup refused \cup delivered \cup lost \cup Collecting \subseteq 1 .. calls

\* With blocking queues every message sent is in one of the places.
Complete ==
    (\A q \in Queues : blocking[q]) =>
       1 .. calls \subseteq Carried \cup Queued \cup refused \cup delivered \cup lost \cup Collecting

Accounts == Once /\ Fresh /\ Separate /\ Complete

LEMMA QueuedHolds == Queued = UNION {Holds(msgs[q]) : q \in Queues}
BY DEF Queued, Holds

LEMMA TailHolds ==
    ASSUME NEW s \in Seq(Msgs), s # <<>>, Unique(s)
    PROVE  /\ Tail(s) \in Seq(Msgs) /\ Unique(Tail(s))
           /\ Head(s) \in Holds(s) /\ Holds(Tail(s)) = Holds(s) \ {Head(s)}
<1>1. /\ Tail(s) \in Seq(Msgs) /\ Len(Tail(s)) = Len(s) - 1 /\ Head(s) = s[1]
      /\ \A k \in 1 .. Len(Tail(s)) : Tail(s)[k] = s[k + 1]
      /\ Len(s) \in Nat \ {0} /\ DOMAIN s = 1 .. Len(s) /\ DOMAIN Tail(s) = 1 .. Len(s) - 1
  BY HeadTailProperties, EmptySeq, LenProperties
<1>2. Unique(Tail(s))
  BY <1>1 DEF Unique
<1>3. Head(s) \in Holds(s)
  BY <1>1 DEF Holds
<1>4. ASSUME NEW x \in Holds(Tail(s)) PROVE x \in Holds(s) \ {Head(s)}
  BY <1>1, <1>4 DEF Holds, Unique
<1>5. ASSUME NEW x \in Holds(s), x # Head(s) PROVE x \in Holds(Tail(s))
  <2>1. PICK k \in 1 .. Len(s) : s[k] = x
    BY <1>1, <1>5 DEF Holds
  <2>2. k # 1 /\ k - 1 \in 1 .. Len(Tail(s)) /\ Tail(s)[k - 1] = s[(k - 1) + 1]
    BY <1>1, <1>5, <2>1
  <2>3. Tail(s)[k - 1] = x
    BY <2>1, <2>2
  <2> QED
    BY <1>1, <2>2, <2>3 DEF Holds
<1> QED
  BY <1>1, <1>2, <1>3, <1>4, <1>5

LEMMA AppendHolds ==
    ASSUME NEW s \in Seq(Msgs), NEW m \in Msgs, m \notin Holds(s), Unique(s)
    PROVE  Unique(Append(s, m)) /\ Holds(Append(s, m)) = Holds(s) \cup {m}
<1>1. /\ DOMAIN s = 1 .. Len(s) /\ DOMAIN Append(s, m) = 1 .. Len(s) + 1 /\ Len(s) \in Nat
      /\ \A k \in 1 .. Len(s) : Append(s, m)[k] = s[k]
      /\ Append(s, m)[Len(s) + 1] = m
  BY AppendProperties, LenProperties
<1>2. \A k \in 1 .. Len(s) : s[k] \in Holds(s)
  BY <1>1 DEF Holds
<1>3. Unique(Append(s, m))
  BY <1>1, <1>2 DEF Unique
<1>4. Holds(Append(s, m)) = Holds(s) \cup {m}
  BY <1>1 DEF Holds
<1> QED
  BY <1>3, <1>4

\* One queue changes: what the others hold stays apart from it.
LEMMA OneQueue ==
    ASSUME TypeOK, Once, NEW q \in Queues, NEW s \in Seq(Msgs), Unique(s),
           msgs' = [msgs EXCEPT ![q] = s], NEW New,
           Holds(s) \subseteq Holds(msgs[q]) \cup New, New \cap Queued = {}
    PROVE  Once' /\ Queued' = (Queued \ Holds(msgs[q])) \cup Holds(s)
<1>1. msgs'[q] = s /\ \A p \in Queues : p # q => msgs'[p] = msgs[p]
  BY DEF TypeOK
<1>2. /\ \A p \in Queues : Holds(msgs[p]) \subseteq Queued
      /\ \A x \in Queued : \E p \in Queues : x \in Holds(msgs[p])
      /\ \A p \in Queues : Holds(msgs'[p]) \subseteq Queued'
      /\ \A x \in Queued' : \E p \in Queues : x \in Holds(msgs'[p])
  BY DEF Queued, Holds
<1>3. Once'
  <2>1. \A p \in Queues : p # q => Holds(msgs[p]) \cap Holds(s) = {}
    BY <1>2 DEF Once
  <2> QED
    BY <1>1, <2>1 DEF Once
<1>4. Queued' = (Queued \ Holds(msgs[q])) \cup Holds(s)
  <2>1. ASSUME NEW x \in Queued' PROVE x \in (Queued \ Holds(msgs[q])) \cup Holds(s)
    <3>1. PICK p \in Queues : x \in Holds(msgs'[p])
      BY <1>2, <2>1
    <3>2. CASE p = q
      BY <1>1, <3>1, <3>2
    <3>3. CASE p # q
      BY <1>1, <1>2, <3>1, <3>3 DEF Once
    <3> QED
      BY <3>2, <3>3
  <2>2. Holds(s) \subseteq Queued'
    BY <1>1, <1>2
  <2>3. ASSUME NEW x \in Queued, x \notin Holds(msgs[q]) PROVE x \in Queued'
    BY <1>1, <1>2, <2>3
  <2> QED
    BY <2>1, <2>2, <2>3
<1> QED
  BY <1>3, <1>4

\* A queue takes a message; it loses its oldest one only when it is full.
LEMMA PushEffect ==
    ASSUME TypeOK, Once, NEW q \in Queues, NEW m \in Msgs, m \notin Queued,
           msgs' = [msgs EXCEPT ![q] = Append(IF Len(@) >= Cap THEN Tail(@) ELSE @, m)]
    PROVE  /\ Once' /\ Queued' \subseteq Queued \cup {m}
           /\ ~(Len(msgs[q]) >= Cap) => Queued' = Queued \cup {m}
<1> DEFINE full == Len(msgs[q]) >= Cap
           kept == IF full THEN Tail(msgs[q]) ELSE msgs[q]
<1>1. msgs[q] \in Seq(Msgs) /\ Unique(msgs[q]) /\ Holds(msgs[q]) \subseteq Queued
  BY DEF TypeOK, Once, Queued, Holds
<1>2. /\ kept \in Seq(Msgs) /\ Unique(kept) /\ Holds(kept) \subseteq Holds(msgs[q])
      /\ ~full => kept = msgs[q]
  <2>1. CASE full
    <3>1. msgs[q] # <<>>
      BY <2>1, CapAssumption
    <3> QED
      BY <1>1, <2>1, <3>1, TailHolds
  <2>2. CASE ~full
    BY <1>1, <2>2
  <2> QED
    BY <2>1, <2>2
<1>3. m \notin Holds(kept)
  BY <1>1, <1>2
<1> DEFINE s == Append(kept, m)
<1>4. s \in Seq(Msgs) /\ Unique(s) /\ Holds(s) = Holds(kept) \cup {m}
  <2> HIDE DEF kept
  <2> QED
    BY <1>2, <1>3, AppendHolds, AppendProperties
<1>5. msgs' = [msgs EXCEPT ![q] = s]
  OBVIOUS
<1>6. Holds(s) \subseteq Holds(msgs[q]) \cup {m} /\ {m} \cap Queued = {}
  BY <1>2, <1>4
<1> HIDE DEF s
<1>7. Once' /\ Queued' = (Queued \ Holds(msgs[q])) \cup Holds(s)
  BY <1>4, <1>5, <1>6, OneQueue
<1> QED
  BY <1>1, <1>2, <1>4, <1>7

\* A queue gives up its oldest message.
LEMMA PopEffect ==
    ASSUME TypeOK, Once, NEW q \in Queues, msgs[q] # <<>>,
           msgs' = [msgs EXCEPT ![q] = Tail(@)]
    PROVE  /\ Once' /\ Head(msgs[q]) \in Queued
           /\ Queued' = Queued \ {Head(msgs[q])}
<1> DEFINE s == Tail(msgs[q])
<1>1. msgs[q] \in Seq(Msgs) /\ Unique(msgs[q])
  BY DEF TypeOK, Once
<1>2. /\ s \in Seq(Msgs) /\ Unique(s) /\ Head(msgs[q]) \in Holds(msgs[q])
      /\ Holds(s) = Holds(msgs[q]) \ {Head(msgs[q])}
  BY <1>1, TailHolds
<1>3. Holds(msgs[q]) \subseteq Queued
  BY DEF Queued, Holds
<1>4. msgs' = [msgs EXCEPT ![q] = s]
  OBVIOUS
<1>5. Holds(s) \subseteq Holds(msgs[q]) \cup {} /\ {} \cap Queued = {}
  BY <1>2
<1> HIDE DEF s
<1>6. Once' /\ Queued' = (Queued \ Holds(msgs[q])) \cup Holds(s)
  BY <1>2, <1>4, <1>5, OneQueue
<1> QED
  BY <1>2, <1>3, <1>6

\* A step that leaves the queues and the getAny in progress alone.
LEMMA Unmoved ==
    ASSUME Accounts, UNCHANGED <<msgs, blocking, calls, refused, delivered, lost>>,
           Collecting' = Collecting, Carried' = Carried, Fresh',
           \A c, d \in Clients : Busy(c)' /\ Busy(d)' /\ data'[c] = data'[d] => c = d
    PROVE  Accounts'
<1>1. Queued' = Queued /\ Once'
  BY DEF Accounts, Queued, Once
<1>2. Separate' /\ Complete'
  BY <1>1 DEF Accounts, Separate, Complete
<1> QED
  BY <1>1, <1>2 DEF Accounts

\* How a client's step changes what the clients carry.
LEMMA CarriedEffect ==
    ASSUME NEW c \in Clients,
           \A d \in Clients : d # c => at'[d] = at[d] /\ data'[d] = data[d]
    PROVE  /\ Busy(c)' => Carried' \subseteq Carried \cup {data'[c]}
           /\ ~Busy(c)' => Carried' \subseteq Carried
           /\ ~Busy(c) /\ Busy(c)' => Carried' = Carried \cup {data'[c]}
           /\ ~Busy(c) /\ ~Busy(c)' => Carried' = Carried
           /\ Carried \subseteq Carried' \cup {data[c]}
           /\ (\A d \in Clients : d # c /\ Busy(d) => data[d] # data[c])
                 /\ Busy(c) /\ ~Busy(c)' => Carried' = Carried \ {data[c]}
BY DEF Carried, Busy

LEMMA InitAccounts == Init => Accounts
<1> SUFFICES ASSUME Init PROVE Accounts
  OBVIOUS
<1>1. \A q \in Queues : msgs[q] = <<>> /\ Holds(msgs[q]) = {}
  BY DEF Init, Holds
<1>2. Queued = {} /\ Carried = {} /\ Collecting = {} /\ \A c \in Clients : ~Busy(c)
  BY <1>1, QueuedHolds DEF Init, Carried, Busy, Collecting
<1>3. Once
  BY <1>1 DEF Once, Unique
<1>4. Separate /\ Complete /\ Fresh
  BY <1>2 DEF Init, Separate, Complete, Fresh
<1> QED
  BY <1>3, <1>4 DEF Accounts

LEMMA SendAccounts ==
    ASSUME Waits, Accounts, NEW c \in Clients, NEW q \in Queues, send(c, q) \/ sendTimed(c, q)
    PROVE  Accounts'
<1>1. /\ at[c] = "idle" /\ calls' = calls + 1
      /\ \/ \E place \in {"push", "tryPush"} : Goto(c, place, q, calls') /\ UNCHANGED refused
         \/ UNCHANGED cvars /\ refused' = refused \cup {calls'}
      /\ UNCHANGED <<msgs, blocking, wpc, inputs, delivered, lost>>
  BY DEF send, sendTimed, wvars
<1>2. /\ TypeOK /\ ~Busy(c) /\ calls \in Nat /\ Queued' = Queued /\ Once' /\ Fresh'
      /\ Collecting' = Collecting
  BY <1>1, MsgsAssumption DEF Waits, TypeOK, Accounts, Once, Fresh, Queued, Collecting, Busy
<1>3. 1 .. calls' = (1 .. calls) \cup {calls'} /\ calls' \notin 1 .. calls
  BY <1>1, <1>2
<1>4. CASE \E place \in {"push", "tryPush"} : Goto(c, place, q, calls') /\ UNCHANGED refused
  <2>1. /\ at'[c] \in {"push", "tryPush"} /\ data'[c] = calls'
        /\ \A d \in Clients : d # c => at'[d] = at[d] /\ data'[d] = data[d]
    BY <1>2, <1>4 DEF Goto, TypeOK
  <2>2. Carried' = Carried \cup {calls'}
    BY <1>2, <2>1, CarriedEffect DEF Busy
  <2>3. \A a, b \in Clients : Busy(a)' /\ Busy(b)' /\ data'[a] = data'[b] => a = b
    <3>1. \A d \in Clients : Busy(d) => data[d] \in 1 .. calls
      BY DEF Accounts, Separate, Carried
    <3> QED
      BY <1>3, <2>1, <3>1 DEF Accounts, Separate, Busy
  <2>4. Separate' /\ Complete'
    BY <1>1, <1>2, <1>3, <1>4, <2>2, <2>3 DEF Accounts, Separate, Complete
  <2> QED
    BY <1>2, <2>4 DEF Accounts
<1>5. CASE UNCHANGED cvars /\ refused' = refused \cup {calls'}
  <2>1. Carried' = Carried
    BY <1>5 DEF Carried, Busy, cvars
  <2>2. \A a, b \in Clients : Busy(a)' /\ Busy(b)' /\ data'[a] = data'[b] => a = b
    BY <1>5 DEF Accounts, Separate, Busy, cvars
  <2>3. Separate' /\ Complete'
    BY <1>1, <1>2, <1>3, <1>5, <2>1, <2>2 DEF Accounts, Separate, Complete
  <2> QED
    BY <1>2, <2>3 DEF Accounts
<1> QED
  BY <1>1, <1>4, <1>5

LEMMA PushAccounts ==
    ASSUME Waits, Accounts, NEW c \in Clients, Push(c) \/ PushTimeOut(c)
    PROVE  Accounts'
<1> DEFINE q == on[c]
           m == data[c]
           taken == [msgs EXCEPT ![q] = Append(IF Len(@) >= Cap THEN Tail(@) ELSE @, m)]
<1>1. /\ at[c] \in {"push", "tryPush"}
      /\ \/ /\ ~blocking[q] \/ ~(Len(msgs[q]) >= Cap)
            /\ msgs' = taken /\ UNCHANGED refused
         \/ refused' = refused \cup {m} /\ UNCHANGED msgs
      /\ \E place \in {"notify", "idle"} : Goto(c, place, q, 0)
      /\ UNCHANGED <<blocking, wpc, inputs, calls, delivered, lost>>
  BY DEF Push, PushTimeOut, wvars
<1>2. /\ TypeOK /\ Busy(c) /\ q \in Queues /\ m \in Msgs /\ m \in Carried
      /\ Collecting' = Collecting /\ Fresh' /\ Once
  BY <1>1 DEF Waits, Busy, TypeOK, Loaded, Carried, Collecting, Accounts, Fresh
<1>3. /\ ~Busy(c)'
      /\ \A d \in Clients : d # c => at'[d] = at[d] /\ data'[d] = data[d]
  BY <1>1, <1>2 DEF Goto, TypeOK, Busy
<1>4. Carried' = Carried \ {m}
  BY <1>2, <1>3, CarriedEffect DEF Accounts, Separate
<1>5. \A a, b \in Clients : Busy(a)' /\ Busy(b)' /\ data'[a] = data'[b] => a = b
  BY <1>3 DEF Accounts, Separate, Busy
<1>6. CASE msgs' = taken /\ UNCHANGED refused /\ (~blocking[q] \/ ~(Len(msgs[q]) >= Cap))
  <2>1. m \notin Queued
    BY <1>2 DEF Accounts, Separate
  <2>2. /\ Once' /\ Queued' \subseteq Queued \cup {m}
        /\ ~(Len(msgs[q]) >= Cap) => Queued' = Queued \cup {m}
    BY <1>2, <1>6, <2>1, PushEffect
  <2>3. Separate'
    BY <1>1, <1>2, <1>4, <1>5, <1>6, <2>2 DEF Accounts, Separate
  <2>4. Complete'
    BY <1>1, <1>2, <1>4, <1>6, <2>2 DEF Accounts, Complete
  <2> QED
    BY <1>2, <2>2, <2>3, <2>4 DEF Accounts
<1>7. CASE refused' = refused \cup {m} /\ UNCHANGED msgs
  <2>1. Queued' = Queued /\ Once'
    BY <1>2, <1>7 DEF Queued, Once
  <2>2. Separate' /\ Complete'
    BY <1>1, <1>2, <1>4, <1>5, <1>7, <2>1 DEF Accounts, Separate, Complete
  <2> QED
    BY <1>2, <2>1, <2>2 DEF Accounts
<1> QED
  BY <1>1, <1>6, <1>7

LEMMA CloseNotifyAccounts ==
    ASSUME Waits, Accounts, NEW c \in Clients,
           (\E q \in Queues : close(c, q)) \/ notifyListeners(c)
    PROVE  Accounts'
<1>1. /\ at[c] \in {"idle", "notify"}
      /\ \E place \in {"notify", "idle"}, q \in Queues : Goto(c, place, q, 0)
      /\ UNCHANGED <<msgs, blocking, wpc, inputs, hvars>>
  BY DEF close, notifyListeners, wvars, Waits, TypeOK
<1>2. /\ ~Busy(c) /\ ~Busy(c)'
      /\ \A d \in Clients : d # c => at'[d] = at[d] /\ data'[d] = data[d]
  BY <1>1 DEF Goto, Waits, TypeOK, Busy
<1>3. Carried' = Carried
  BY <1>2, CarriedEffect
<1>4. \A a, b \in Clients : Busy(a)' /\ Busy(b)' /\ data'[a] = data'[b] => a = b
  BY <1>2 DEF Accounts, Separate, Busy
<1>5. Collecting' = Collecting /\ Fresh'
  BY <1>1 DEF Collecting, Accounts, Fresh
<1> QED
  BY <1>1, <1>3, <1>4, <1>5, Unmoved DEF hvars

\* The waiter's steps before it takes messages out.
LEMMA WaitingAccounts ==
    ASSUME Waits, Accounts, wpc \notin {"get", "pop"}, Frame, inputs' \in {inputs, {}},
           wpc = "idle" => wpc' = "add" /\ inputs' = {}
    PROVE  Accounts'
<1>1. Collecting = {} /\ Collecting' = {}
  BY DEF Collecting, Accounts, Fresh
<1>2. Carried' = Carried /\ Fresh'
  BY DEF Carried, Busy, Frame, cvars, Fresh, Accounts
<1>3. \A a, b \in Clients : Busy(a)' /\ Busy(b)' /\ data'[a] = data'[b] => a = b
  BY DEF Accounts, Separate, Busy, Frame, cvars
<1> QED
  BY <1>1, <1>2, <1>3, Unmoved DEF Frame, hvars

LEMMA WaiterAccounts ==
    ASSUME Waits, Accounts, Waiter, wpc \notin {"get", "pop"}
    PROVE  Accounts'
<1>1. CASE getAny
  BY <1>1, WaitingAccounts DEF getAny, Walk
<1>2. CASE addNotifier \/ checkAllClosed \/ isClosed \/ has \/ empty \/ acquire
           \/ waitForTimeOut \/ removeNotifiers
  <2>1. wpc # "idle" /\ Frame /\ inputs' = inputs
    BY <1>2 DEF addNotifier, checkAllClosed, isClosed, has, empty, acquire, waitForTimeOut,
                removeNotifiers
  <2> QED
    BY <2>1, WaitingAccounts
<1>3. ~tryGet /\ ~tryPop
  BY DEF tryGet, tryPop
<1> QED
  BY <1>1, <1>2, <1>3 DEF Waiter

LEMMA TryGetAccounts ==
    ASSUME Waits, Accounts, tryGet PROVE Accounts'
<1>1. /\ wpc = "get" /\ Collecting = inputs
      /\ UNCHANGED <<msgs, blocking, cvars, inputs, calls, refused, delivered>>
      /\ \/ wpc' = "pop" /\ lost' = lost
         \/ wpc' = "idle" /\ lost' = lost \cup inputs
  BY DEF tryGet, Walk, Collecting
<1>2. /\ Carried' = Carried /\ Queued' = Queued /\ Once' /\ Fresh'
      /\ \A a, b \in Clients : Busy(a)' /\ Busy(b)' /\ data'[a] = data'[b] => a = b
  BY <1>1 DEF Accounts, Separate, Once, Fresh, Busy, Carried, Queued, cvars
<1>3. \/ Collecting' = Collecting /\ lost' = lost
      \/ Collecting' = {} /\ lost' = lost \cup Collecting
  BY <1>1 DEF Collecting
<1>4. Separate' /\ Complete'
  BY <1>1, <1>2, <1>3 DEF Accounts, Separate, Complete
<1> QED
  BY <1>2, <1>4 DEF Accounts

LEMMA TryPopAccounts ==
    ASSUME Waits, Accounts, tryPop PROVE Accounts'
<1> DEFINE popped == IF msgs[i] = <<>> THEN {} ELSE {Head(msgs[i])}
<1>1. /\ wpc = "pop" /\ Collecting = inputs
      /\ inputs' = inputs \cup popped
      /\ UNCHANGED <<blocking, cvars, calls, refused, lost>>
      /\ \/ wpc' = "get" /\ delivered' = delivered
         \/ wpc' = "idle" /\ delivered' = delivered \cup inputs'
  BY DEF tryPop, Walk, Collecting
<1>2. /\ Carried' = Carried /\ Fresh'
      /\ \A a, b \in Clients : Busy(a)' /\ Busy(b)' /\ data'[a] = data'[b] => a = b
  BY <1>1 DEF Accounts, Separate, Fresh, Busy, Carried, cvars
<1>3. Once' /\ Queued' = Queued \ popped /\ popped \subseteq Queued
  <2>1. CASE msgs[i] = <<>>
    BY <2>1 DEF tryPop, Accounts, Once, Queued
  <2>2. CASE msgs[i] # <<>>
    <3>1. msgs' = [msgs EXCEPT ![i] = Tail(@)] /\ i \in Queues /\ TypeOK /\ Once
      BY <2>2 DEF tryPop, Accounts, Waits, TypeOK
    <3> QED
      BY <2>2, <3>1, PopEffect
  <2> QED
    BY <2>1, <2>2
<1>4. \/ Collecting' = Collecting \cup popped /\ delivered' = delivered
      \/ Collecting' = {} /\ delivered' = delivered \cup Collecting \cup popped
  BY <1>1 DEF Collecting
<1> HIDE DEF popped
<1>5. Separate' /\ Complete'
  BY <1>1, <1>2, <1>3, <1>4 DEF Accounts, Separate, Complete
<1> QED
  BY <1>2, <1>3, <1>5 DEF Accounts

\* Accounts is inductive, given what is known of the waiting.
THEOREM AccountsInvariance == Spec => []Accounts
<1>1. Waits /\ Accounts /\ [Next]_vars => Accounts'
  <2> SUFFICES ASSUME Waits, Accounts, [Next]_vars PROVE Accounts'
    OBVIOUS
  <2>1. CASE \E c \in Clients : \E q \in Queues : send(c, q) \/ sendTimed(c, q) \/ close(c, q)
    BY <2>1, SendAccounts, CloseNotifyAccounts
  <2>2. CASE \E c \in Clients : Push(c) \/ PushTimeOut(c) \/ notifyListeners(c)
    BY <2>2, PushAccounts, CloseNotifyAccounts
  <2>3. CASE Waiter
    <3>1. CASE wpc \notin {"get", "pop"}
      BY <2>3, <3>1, WaiterAccounts
    <3>2. CASE wpc \in {"get", "pop"}
      <4>1. tryGet \/ tryPop
        BY <2>3, <3>2 DEF Waiter, getAny, addNotifier, checkAllClosed, isClosed, has, empty,
                          acquire, waitForTimeOut, removeNotifiers
      <4> QED
        BY <4>1, TryGetAccounts, TryPopAccounts
    <3> QED
      BY <3>1, <3>2
  <2>4. CASE UNCHANGED vars
    <3>1. /\ Collecting' = Collecting /\ Carried' = Carried /\ Fresh'
          /\ \A a, b \in Clients : Busy(a)' /\ Busy(b)' /\ data'[a] = data'[b] => a = b
      BY <2>4 DEF Collecting, Carried, Busy, Accounts, Fresh, Separate, vars
    <3> QED
      BY <2>4, <3>1, Unmoved DEF vars
  <2> QED
    BY <2>1, <2>2, <2>3, <2>4 DEF Next
<1> QED
  BY <1>1, InitAccounts, WaitsInvariance, PTL DEF Spec

(***************************************************************************)
(* No message is delivered twice, after its queue refused it, or after     *)
(* getAny threw it away, and with blocking queues none vanishes            *)
(* (MessageQueue.cpp:140-188, 268-286).                                    *)
(***************************************************************************)
THEOREM MessagesKept == Spec => []MessagesAccounted
<1>1. Waits /\ Accounts => MessagesAccounted
  <2> SUFFICES ASSUME Waits, Accounts PROVE MessagesAccounted
    OBVIOUS
  <2>1. Collecting \subseteq inputs /\ (wpc \in {"get", "pop"} => Collecting = inputs)
    BY DEF Collecting
  <2>2. Carried \subseteq {data[c] : c \in Clients}
    BY DEF Carried
  <2> QED
    BY <2>1, <2>2 DEF Accounts, Separate, Complete, MessagesAccounted
<1> QED
  BY <1>1, WaitsInvariance, AccountsInvariance, PTL

=============================================================================

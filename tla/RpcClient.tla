----------------------------- MODULE RpcClient -----------------------------
(***************************************************************************)
(* Remote procedure calls on the device.  All threads share one stream; a  *)
(* call holds rpcMutex while it writes its request and reads a response.   *)
(* A response carries no number (nanorpc packs a protocol version, a       *)
(* status and the result): what tells whose it is, is the order alone.     *)
(*                                                                         *)
(* The number of a request in the model is therefore a history variable,   *)
(* which no action looks at.  Wrong types in a response, which throw, are  *)
(* not told from wrong values, which do not.  The replacement of rpcClient *)
(* by a reconnection is left out: the module describes one connection.     *)
(***************************************************************************)
EXTENDS Integers, Sequences

CONSTANTS
    Callers,      \* threads that call
    None,         \* nobody
    ReadTimed,    \* SUBSET BOOLEAN: may a call have a read timeout, or none?
    WriteTimed,   \* SUBSET BOOLEAN: may there be a write timeout, or none?
    MaxCalls      \* bound on the calls

ASSUME RpcAssumption ==
    /\ None \notin Callers
    /\ ReadTimed \subseteq BOOLEAN
    /\ WriteTimed \subseteq BOOLEAN
    /\ MaxCalls \in Nat

VARIABLES
    rpcMutex,   \* its owner, or None
    pc,         \* where each thread is in rpcClient->call
    timed,      \* does its call have a read timeout
    mine,       \* number of the request it wrote last
    calls,      \* calls begun
    sent,       \* requests the stream took
    requests,   \* on their way to the device, or waiting there
    replies,    \* responses on the stream that nobody has read
    link,       \* "up", "stalled": it takes no more for now, or "closed"
    writeTimed, \* is DEPTHAI_RPC_WRITE_TIMEOUT set; by default it is not
    abandoned,  \* history: requests whose call gave up on the response
    lag         \* history: how old the response each thread got last was

history == <<abandoned, lag>>
stream == <<sent, requests, replies>>
vars == <<rpcMutex, pc, timed, mine, calls, stream, link, writeTimed, history>>

Init ==
    /\ rpcMutex = None
    /\ pc = [c \in Callers |-> "idle"]
    /\ timed = [c \in Callers |-> FALSE]
    /\ mine = [c \in Callers |-> 0]
    /\ calls = 0
    /\ sent = 0
    /\ requests = <<>>
    /\ replies = <<>>
    /\ link = "up"
    /\ writeTimed \in WriteTimed
    /\ abandoned = 0
    /\ lag = [c \in Callers |-> 0]

----------------------------------------------------------------------------
(* A call.                                                                 *)

\* rpcCall chooses the timeout, and the executor locks rpcMutex.
rpcCall(c) ==
    /\ pc[c] = "idle"
    /\ calls < MaxCalls
    /\ calls' = calls + 1
    /\ \E t \in ReadTimed : timed' = [timed EXCEPT ![c] = t]
    /\ pc' = [pc EXCEPT ![c] = "lock"]
    /\ UNCHANGED <<rpcMutex, mine, stream, link, writeTimed, history>>

lock(c) ==
    /\ pc[c] = "lock"
    /\ rpcMutex = None
    /\ rpcMutex' = c
    /\ pc' = [pc EXCEPT ![c] = "write"]
    /\ UNCHANGED <<timed, mine, calls, stream, link, writeTimed, history>>

\* The call is over, with a response or with an exception.
Return(c) ==
    /\ rpcMutex' = None
    /\ pc' = [pc EXCEPT ![c] = "idle"]

\* The stream takes a request.
Transmit ==
    /\ sent' = sent + 1
    /\ requests' = Append(requests, sent + 1)

write(c) ==
    /\ pc[c] = "write"
    /\ link = "up"
    /\ Transmit
    /\ mine' = [mine EXCEPT ![c] = sent + 1]
    /\ pc' = [pc EXCEPT ![c] = "read"]
    /\ UNCHANGED <<rpcMutex, timed, calls, replies, link, writeTimed, history>>

\* The write timed out, on a stalled link or not; XLink may have taken the
\* request all the same.
writeTimesOut(c) ==
    /\ pc[c] = "write"
    /\ link # "closed"
    /\ writeTimed
    /\ \/ link = "up" /\ Transmit /\ abandoned' = abandoned + 1
       \/ UNCHANGED <<sent, requests, abandoned>>
    /\ Return(c)
    /\ UNCHANGED <<timed, mine, calls, replies, link, writeTimed, lag>>

\* Mutant: the newest response is taken.
readNewest(c) ==
    /\ pc[c] = "read"
    /\ link # "closed"
    /\ replies # <<>>
    /\ replies' = SubSeq(replies, 1, Len(replies) - 1)
    /\ lag' = [lag EXCEPT ![c] = mine[c] - replies[Len(replies)]]
    /\ Return(c)
    /\ UNCHANGED <<timed, mine, calls, sent, requests, link, writeTimed, abandoned>>

\* The oldest response on the stream is taken for the one to this call.
read(c) ==
    /\ pc[c] = "read"
    /\ link # "closed"
    /\ replies # <<>>
    /\ replies' = Tail(replies)
    /\ lag' = [lag EXCEPT ![c] = mine[c] - Head(replies)]
    /\ Return(c)
    /\ UNCHANGED <<timed, mine, calls, sent, requests, link, writeTimed, abandoned>>

\* Mutant: the timeout is tested the wrong way round.
readTimesOutUnlessTimed(c) ==
    /\ pc[c] = "read"
    /\ link # "closed"
    /\ ~timed[c]
    /\ replies = <<>>
    /\ abandoned' = abandoned + 1
    /\ Return(c)
    /\ UNCHANGED <<timed, mine, calls, stream, link, writeTimed, lag>>

\* Mutant: a call that gives up is repeated at once, with a new request.
readRetries(c) ==
    /\ pc[c] = "read"
    /\ link # "closed"
    /\ timed[c]
    /\ replies = <<>>
    /\ pc' = [pc EXCEPT ![c] = "write"]
    /\ UNCHANGED <<rpcMutex, timed, mine, calls, stream, link, writeTimed, history>>

\* No response in time: XLinkReadError.  The response may still come.
readTimesOut(c) ==
    /\ pc[c] = "read"
    /\ link # "closed"
    /\ timed[c]
    /\ replies = <<>>
    /\ abandoned' = abandoned + 1
    /\ Return(c)
    /\ UNCHANGED <<timed, mine, calls, stream, link, writeTimed, lag>>

\* Reading and writing throw on a closed connection.
throws(c) ==
    /\ pc[c] \in {"write", "read"}
    /\ link = "closed"
    /\ Return(c)
    /\ UNCHANGED <<timed, mine, calls, stream, link, writeTimed, history>>

----------------------------------------------------------------------------
(* The device answers its requests in their order; it may be slow, or hang *)
(* for good.  The connection is closed by closeImpl or the monitor, or     *)
(* lost; nothing makes sure that a stalled one is, since a watchdog may be *)
(* off or served by a device whose calls alone hang.                       *)

answer ==
    /\ link = "up"
    /\ requests # <<>>
    /\ requests' = Tail(requests)
    /\ replies' = Append(replies, Head(requests))
    /\ UNCHANGED <<rpcMutex, pc, timed, mine, calls, sent, link, writeTimed, history>>

\* The device does not take what is written any more, for good: a write blocks.
stall ==
    /\ link = "up"
    /\ link' = "stalled"
    /\ UNCHANGED <<rpcMutex, pc, timed, mine, calls, stream, writeTimed, history>>

closeConnection ==
    /\ link # "closed"
    /\ link' = "closed"
    /\ UNCHANGED <<rpcMutex, pc, timed, mine, calls, stream, writeTimed, history>>

Step(c) == \/ lock(c)
           \/ write(c)
           \/ writeTimesOut(c)
           \/ read(c)
           \/ readTimesOut(c)
           \/ throws(c)

Next ==
    \/ \E c \in Callers : rpcCall(c) \/ Step(c)
    \/ answer
    \/ stall
    \/ closeConnection

Spec == Init /\ [][Next]_vars

\* Threads are scheduled and timeouts expire; nothing is asked of the device.
FairSpec == Spec /\ \A c \in Callers : WF_vars(Step(c))

----------------------------------------------------------------------------

\* The state is of its type.
TypeOK ==
    /\ rpcMutex \in Callers \cup {None}
    /\ pc \in [Callers -> {"idle", "lock", "write", "read"}]
    /\ timed \in [Callers -> BOOLEAN]
    /\ mine \in [Callers -> 0..sent]
    /\ calls \in 0..MaxCalls
    /\ sent \in Nat
    /\ requests \in Seq(1..sent)
    /\ replies \in Seq(1..sent)
    /\ link \in {"up", "stalled", "closed"}
    /\ writeTimed \in WriteTimed
    /\ abandoned \in 0..sent
    /\ lag \in [Callers -> Int]

\* What the comment on rpcMutex says: a call gets its own response, and never
\* one to another call.
ResponsesMatch == \A c \in Callers : lag[c] = 0

\* What becomes of that when calls time out: a call is handed the response to
\* the call made as many calls before it as were given up until then.  Nothing
\* ever takes the late responses from the stream, so the shift stays.
LateByAbandoned ==
    [][\A c \in Callers :
          pc[c] = "read" /\ pc'[c] = "idle" /\ Len(replies') < Len(replies)
              => lag'[c] = abandoned]_vars

\* The promise is kept as long as no call gives up: however many threads call,
\* none takes the response to another one's request.
MatchUntilAbandoned == abandoned = 0 => ResponsesMatch

\* Every response still to come is that of an abandoned call or of the one
\* that is reading: the stream holds nothing nobody asked for.
ResponsesAccounted ==
    link # "closed" => Len(requests) + Len(replies) =
                abandoned + (IF \E c \in Callers : pc[c] = "read"
                             THEN 1 ELSE 0)

\* Every call with a read timeout returns, also when the device hangs and for
\* the callers behind it; only a write without a timeout may block, with the
\* mutex, for as long as the stalled link is not closed.
CallsReturn ==
    \A c \in Callers :
        (pc[c] # "idle") ~> \/ pc[c] = "idle"
                            \/ [](link = "stalled" /\ ~writeTimed)
============================================================================

--------------------------- MODULE PipelineStates ---------------------------
(***************************************************************************)
(* Asking a running pipeline for its state.  PipelineStateApi sends a      *)
(* request and takes an answer (src/pipeline/PipelineStateApi.cpp);        *)
(* PipelineStateMerge numbers the request, hands it to an aggregation on   *)
(* the device and one on the host, and merges a state of each              *)
(* (src/pipeline/node/internal/PipelineStateMerge.cpp);                    *)
(* PipelineEventAggregation answers a request at once, and a repeating one *)
(* again whenever its interval is over and something was updated.          *)
(*                                                                         *)
(*   user --requests--> merge --configs[side]--> aggregation of the side   *)
(*     ^---- out ---------'^----- inputs[side] -------'                    *)
(*                                                                         *)
(* A state is the number of the request that its configuration comes from. *)
(* Left out: the trace output (DEPTHAI_PIPELINE_DEBUGGING) and the stop.   *)
(***************************************************************************)
EXTENDS Integers, Sequences, FiniteSets

CONSTANTS Users,
          Programs,     \* set of [calls : user -> sequence of CallKinds,
                        \*         sides : subset of Sides]
          InputSize     \* size of PipelineStateMerge's inputs

Sides == {"device", "host"}

\* A waiting call; stateAsync; stateAsync with a configuration that does not repeat.
CallKinds == {"call", "async", "asyncOnce"}

ASSUME StatesAssumption ==
    /\ InputSize \in Nat \ {0} /\ IsFiniteSet(Users)
    /\ Programs \subseteq [calls : [Users -> Seq(CallKinds)], sides : (SUBSET Sides) \ {{}}]

VARIABLES program,      \* chosen once
          called,       \* user -> the calls it has begun
          waiting,      \* user -> the request it waits for, 0, or Registering
          registered,   \* is stateAsync's callback registered?
          requests,     \* the merge's request queue
          asked,        \* requests sent
          mergeAt, current, match, merged,  \* the merge
          configs, stateInputs,                  \* queues, by side
          config, updated,                  \* the aggregations
          out,          \* the queue pipelineStateOut: at most one
          answers,      \* history: <<request, state>> of the calls
          tick          \* history: turned when the callback is called

stateVars == <<program, called, waiting, registered, requests, asked, mergeAt, current, match, merged,
               configs, stateInputs, config, updated, out, answers, tick>>
mergeVars == <<mergeAt, current, match, merged>>
userVars == <<program, called, waiting, registered, asked, answers>>

Registering == -1     \* in stateAsync
NoConfig == [request |-> 0, repeat |-> FALSE]

StatesInit ==
    /\ program \in Programs
    /\ called = [u \in Users |-> 0]
    /\ waiting = [u \in Users |-> 0]
    /\ registered = FALSE
    /\ requests = <<>> /\ asked = 0
    /\ mergeAt = "loop" /\ current = NoConfig /\ match = FALSE
    /\ merged = [s \in Sides |-> 0]
    /\ configs = [s \in Sides |-> <<>>]
    /\ stateInputs = [s \in Sides |-> <<>>]
    /\ config = [s \in Sides |-> NoConfig]
    /\ updated = [s \in Sides |-> FALSE]
    /\ out = <<>>
    /\ answers = {} /\ tick = FALSE

----------------------------------------------------------------------------
(* PipelineStateApi.                                                       *)

\* A call (summary, detailed, outputs, ...) sends a request and waits;
\* stateAsync sends a repeating one, unless it is given one of its own.
sendRequest(u) ==
    /\ waiting[u] = 0
    /\ called[u] < Len(program.calls[u])
    /\ LET kind == program.calls[u][called[u] + 1] IN
        /\ requests' = Append(requests, [request |-> asked + 1, repeat |-> kind = "async"])
        /\ waiting' = [waiting EXCEPT ![u] = IF kind = "call" THEN asked + 1 ELSE Registering]
    /\ called' = [called EXCEPT ![u] = @ + 1]
    /\ asked' = asked + 1
    /\ UNCHANGED <<program, registered, mergeVars, configs, stateInputs, config, updated, out, answers, tick>>

\* stateAsync, after it sent its request.
addCallback(u) ==
    /\ waiting[u] = Registering
    /\ waiting' = [waiting EXCEPT ![u] = 0]
    /\ registered' = TRUE
    /\ UNCHANGED <<program, called, requests, asked, mergeVars, configs, stateInputs, config, updated, out,
                   answers, tick>>

\* Mutant: the state stays in the queue.
getStateKept(u) ==
    /\ waiting[u] > 0
    /\ out # <<>>
    /\ answers' = answers \cup {<<waiting[u], Head(out)>>}
    /\ waiting' = [waiting EXCEPT ![u] = 0]
    /\ UNCHANGED <<program, called, registered, requests, asked, mergeVars, configs, stateInputs, config,
                   updated, out, tick>>

\* pipelineStateOut->get: whatever state is there.
getState(u) ==
    /\ waiting[u] > 0
    /\ out # <<>>
    /\ out' = <<>>
    /\ answers' = answers \cup {<<waiting[u], Head(out)>>}
    /\ waiting' = [waiting EXCEPT ![u] = 0]
    /\ UNCHANGED <<program, called, registered, requests, asked, mergeVars, configs, stateInputs, config,
                   updated, tick>>

----------------------------------------------------------------------------
(* PipelineStateMerge.                                                     *)

FirstSide == IF "device" \in program.sides THEN "device" ELSE "host"

\* A request is waited for if no configuration repeats, and taken if there is
\* one.
loop ==
    /\ mergeAt = "loop"
    /\ mergeAt' = IF ~current.repeat \/ requests # <<>> THEN "request" ELSE FirstSide
    /\ match' = FALSE
    /\ UNCHANGED <<userVars, requests, current, merged, configs, stateInputs, config, updated, out, tick>>

takeRequest ==
    /\ mergeAt = "request"
    /\ requests # <<>>
    /\ requests' = Tail(requests)
    /\ current' = Head(requests)
    /\ configs' = [s \in Sides |-> IF s \in program.sides THEN Append(configs[s], current')
                                                          ELSE configs[s]]
    /\ match' = TRUE
    /\ mergeAt' = FirstSide
    /\ UNCHANGED <<userVars, merged, stateInputs, config, updated, out, tick>>

\* A state of the side; after a new request, the first of its configuration.
takeState(s) ==
    /\ mergeAt = s
    /\ stateInputs[s] # <<>>
    /\ stateInputs' = [stateInputs EXCEPT ![s] = Tail(@)]
    /\ LET state == Head(stateInputs[s]) IN
        IF match /\ state # current.request
        THEN UNCHANGED <<mergeAt, merged>>
        ELSE /\ merged' = [merged EXCEPT ![s] = state]
             /\ mergeAt' = IF s = "device" /\ "host" \in program.sides THEN "host" ELSE "send"
    /\ UNCHANGED <<userVars, requests, current, match, configs, config, updated, out, tick>>

\* The merged state goes to the callback and into the queue, over what is there.
sendState ==
    /\ mergeAt = "send"
    /\ out' = <<merged[FirstSide]>>
    /\ tick' = IF registered THEN ~tick ELSE tick
    /\ mergeAt' = "loop"
    /\ UNCHANGED <<userVars, requests, current, match, merged, configs, stateInputs, config, updated>>

----------------------------------------------------------------------------
(* PipelineEventAggregation::run, on each side.                            *)

SendTo(s, state) ==
    LET all == Append(stateInputs[s], state) IN
    stateInputs' = [stateInputs EXCEPT ![s] = IF Len(all) > InputSize THEN Tail(all) ELSE all]

\* Mutant: a request is answered only if something was updated.
newConfigIfUpdated(s) ==
    /\ configs[s] # <<>>
    /\ configs' = [configs EXCEPT ![s] = Tail(@)]
    /\ config' = [config EXCEPT ![s] = Head(configs[s])]
    /\ IF updated[s] THEN SendTo(s, Head(configs[s]).request) ELSE UNCHANGED stateInputs
    /\ updated' = [updated EXCEPT ![s] = FALSE]
    /\ UNCHANGED <<userVars, requests, mergeVars, out, tick>>

\* A new configuration is answered at once.
newConfig(s) ==
    /\ configs[s] # <<>>
    /\ configs' = [configs EXCEPT ![s] = Tail(@)]
    /\ config' = [config EXCEPT ![s] = Head(configs[s])]
    /\ SendTo(s, Head(configs[s]).request)
    /\ updated' = [updated EXCEPT ![s] = FALSE]
    /\ UNCHANGED <<userVars, requests, mergeVars, out, tick>>

\* The interval of a repeating configuration is over.
repeatState(s) ==
    /\ configs[s] = <<>>
    /\ config[s].repeat /\ updated[s]
    /\ SendTo(s, config[s].request)
    /\ updated' = [updated EXCEPT ![s] = FALSE]
    /\ UNCHANGED <<userVars, requests, mergeVars, configs, config, out, tick>>

\* updateStats, in the thread of the aggregation's handler.
updateStats(s) ==
    /\ s \in program.sides
    /\ ~updated[s]
    /\ updated' = [updated EXCEPT ![s] = TRUE]
    /\ UNCHANGED <<userVars, requests, mergeVars, configs, stateInputs, config, out, tick>>

Merge == loop \/ takeRequest \/ (\E s \in Sides : takeState(s)) \/ sendState
Aggregation(s) == newConfig(s) \/ repeatState(s)

StatesNext ==
    \/ \E u \in Users : sendRequest(u) \/ addCallback(u) \/ getState(u)
    \/ Merge
    \/ \E s \in Sides : Aggregation(s) \/ updateStats(s)

\* The threads run, and nodes go on sending events.
StatesFairness ==
    /\ \A u \in Users : WF_stateVars(addCallback(u) \/ getState(u))
    /\ WF_stateVars(Merge)
    /\ \A s \in Sides : WF_stateVars(Aggregation(s)) /\ WF_stateVars(updateStats(s))

----------------------------------------------------------------------------
(* Properties.                                                             *)

Single == Cardinality({u \in Users : program.calls[u] # <<>>}) = 1
OnlyCalls == \A u \in Users : \A i \in DOMAIN program.calls[u] : program.calls[u][i] = "call"

\* The answer of a call (PipelineStateApi.cpp:18-21) is the state its own
\* request asked for, if one thread calls and stateAsync was not used.
\* Answers carry no request: of two threads that call at once one may take the
\* other's answer, but no answer is taken twice.
AnswerIsMine ==
    OnlyCalls =>
        /\ Single => \A a \in answers : a[1] = a[2]
        /\ \A a, b \in answers : a[2] = b[2] => a = b

\* The states merged (PipelineStateMerge.cpp:49-79) are of one configuration.
MergedStatesAgree ==
    mergeAt = "send" /\ program.sides = Sides => merged["device"] = merged["host"]

\* A state that is handed to somebody is the one that was asked for.
AnswersAgree == AnswerIsMine /\ MergedStatesAgree

\* A call of the only thread that calls returns, after its stateAsync too.  (Of
\* two that call at once one may wait for ever: pipelineStateOut holds one state
\* and the next one replaces it.)
CallsReturn ==
    \A u \in Users : Single /\ waiting[u] > 0 ~> waiting[u] = 0

\* If the last request is that of a stateAsync, its callback is called again
\* and again (PipelineStateApi.cpp:278-285).  (A call after it ends that: its
\* configuration does not repeat.)
AsyncGoesOn ==
    <>[](current.request = asked /\ current.repeat) => []<>tick /\ []<>~tick

\* Whoever asks for states gets them.
StatesArrive == CallsReturn /\ AsyncGoesOn

=============================================================================

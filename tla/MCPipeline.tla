----------------------------- MODULE MCPipeline -----------------------------
(***************************************************************************)
(* What the user does with a pipeline, model-checked in one go: putting    *)
(* its graph together and building it (PipelineGraph), and, while it runs, *)
(* tracing it (PipelineEvents) and asking for its state (PipelineStates).  *)
(* The graph does not change while the pipeline runs.  Tracing and asking  *)
(* share the flag `updated` of the aggregation and what was measured,      *)
(* which no state here contains.  So an execution is of one of the three.  *)
(*                                                                         *)
(* The graph: a host node with an input and an output, a host node that    *)
(* holds a subnode with an input, and a device node like Script, whose     *)
(* input and output may have the same group and name (both maps are called *)
(* "io").  The device node has a second output, of another group and the   *)
(* same name, that only queues are asked of.                               *)
(***************************************************************************)
EXTENDS TLC, PipelineGraph, PipelineEvents, PipelineStates

CONSTANTS host, box, sub, script, ho, hi, si, do, dp, di, q1, q2, x, y, z,
          u1, u2

MCOwner == (ho :> host) @@ (hi :> host) @@ (si :> sub) @@ (do :> script)
           @@ (dp :> script) @@ (di :> script)
MCPortName == (ho :> y) @@ (hi :> y) @@ (si :> y) @@ (do :> x) @@ (di :> x)
              @@ (dp :> z)
MCQueueName == (ho :> y) @@ (do :> y) @@ (dp :> y)
MCSubnodes == [n \in Nodes |-> IF n = box THEN {sub} ELSE {}]
MCCanConnect == (Outs \X Ins) \ ({<<ho, hi>>, <<do, di>>} \cup ({dp} \X Ins))

Program(calls1, calls2, sides) == [calls |-> u1 :> calls1 @@ u2 :> calls2, sides |-> sides]
NoCalls == Program(<<>>, <<>>, Sides)

MCPrograms ==
    {NoCalls,
     Program(<<"call", "call", "call">>, <<>>, Sides),
     Program(<<"call", "async">>, <<>>, Sides),
     Program(<<"async", "call", "async">>, <<>>, {"host"}),
     Program(<<"async", "call">>, <<>>, Sides),
     Program(<<"asyncOnce", "call", "async">>, <<>>, {"device"}),
     Program(<<"call">>, <<"call">>, Sides)}

VARIABLE activity

PipelineInit ==
    /\ activity \in {"graph", "trace", "states"}
    /\ Init /\ EventsInit /\ StatesInit
    /\ activity = "states" <=> program # NoCalls

PipelineNext ==
    /\ UNCHANGED activity
    /\ \/ activity = "graph" /\ Next /\ UNCHANGED <<eventVars, stateVars>>
       \/ activity = "trace" /\ EventsNext /\ UNCHANGED <<vars, stateVars>>
       \/ activity = "states" /\ StatesNext /\ UNCHANGED <<vars, eventVars>>

PipelineSpec ==
    /\ PipelineInit /\ [][PipelineNext]_<<activity, vars, eventVars, stateVars>>
    /\ StatesFairness
=============================================================================

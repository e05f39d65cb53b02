-------------------------- MODULE AutoCalibration --------------------------
(***************************************************************************)
(* The AutoCalibration node and the two nodes it conducts, each a thread:  *)
(* DynamicCalibration, by commands on inputControl, and a Gate on the      *)
(* device, by control messages, which lets frames through to it.           *)
(*                                                                         *)
(*   AutoCalibration --command--> DynamicCalibration <--frames-- Gate      *)
(*        ^---- result, coverage, metrics ----'           ^                *)
(*        '------------------ gateControlQueue -----------'                *)
(*                                                                         *)
(* The answers carry no number, and the queues they come through hold one  *)
(* message and drop it for a newer one.  A frame is a token; a calibration *)
(* the number of the computation that found it, 0 that of the device; a    *)
(* confidence whether it is above its threshold.  Time is left out, except *)
(* that Prompt says whether AutoCalibration does what it can before the    *)
(* next image period (0.5 s) of DynamicCalibration is over, which takes    *)
(* computations shorter than that as well.  Left out is also the           *)
(* stop of the pipeline, which closes every queue (PipelineLifecycle).     *)
(***************************************************************************)
EXTENDS Integers, Sequences

CONSTANTS
    ValidationSetSizes,         \* values of validationSetSize
    maxIterations, maxImagesPerRecalibration,
    MaxFailsPerRecalibration,
    ControlSize,                \* of DynamicCalibration's inputControl
    Prompts,                    \* SUBSET BOOLEAN: may Prompt be assumed?
    MaxRounds,                  \* bound: rounds of the continuous mode; one if not Prompt
    MaxGateControl,             \* bound: control messages the gate has not read
    MaxImages                   \* bound: images are counted up to it

ASSUME AutoCalibrationAssumption ==
    /\ ValidationSetSizes \subseteq 0 .. MaxImages
    /\ Prompts \subseteq BOOLEAN
    /\ {maxIterations, maxImagesPerRecalibration, MaxFailsPerRecalibration,
        MaxRounds, MaxGateControl, MaxImages} \subseteq Nat \ {0}
    /\ ControlSize \in Nat /\ ControlSize >= 4    \* 5 in the code

VARIABLES
    Prompt, validationSetSize,     \* chosen once
    apc, rounds, numIterations,    \* AutoCalibration: its place and loop counters
    attempt, count,                \*   recalibrations; images or results
    calibration,                   \*   the calibration it is about
    result,                        \*   the result it holds
    gate, gateControl,             \* frames the gate may pass; its unread control
    syncInput, gateOutput,         \* is there a frame?
    inputControl,                  \* commands
    results, coverages, metrics,   \* answers: sequences of at most one
    dpc, calibrationShouldRun,     \* DynamicCalibration
    start,                         \*   the startCalibration it obeys
    images, found,                 \*   its data; calibrations found
    device,                        \*   the calibration of the device
    started, dropped, applied      \* history: see below

auto == <<apc, rounds, numIterations, attempt, count, calibration, result>>
gating == <<gate, gateControl>>
answers == <<results, coverages, metrics>>
dynamic == <<dpc, calibrationShouldRun, start, images, found, device>>
chosen == <<Prompt, validationSetSize>>
autoHistory == <<started, dropped, applied>>
autoVars == <<chosen, auto, gating, syncInput, gateOutput, inputControl, answers, dynamic, autoHistory>>

NoLimit == -1
NoResult == [found |-> FALSE]

\* The data: the images, and the calibrations found before the first of them.
NoImages == [number |-> 0, since |-> 0]

AutoInit ==
    /\ Prompt \in Prompts
    /\ validationSetSize \in ValidationSetSizes
    /\ apc = "validate" /\ rounds = 0 /\ numIterations = 0
    /\ attempt = 0 /\ count = 0 /\ calibration = 0 /\ result = NoResult
    /\ gate = 0 /\ gateControl = <<>>
    /\ syncInput = FALSE /\ gateOutput = FALSE
    /\ inputControl = <<>>
    /\ results = <<>> /\ coverages = <<>> /\ metrics = <<>>
    /\ dpc = "init" /\ calibrationShouldRun = FALSE /\ start = 0
    /\ images = NoImages /\ found = 0 /\ device = 0
    /\ started = 0       \* startCalibration commands sent
    /\ dropped = FALSE   \* did inputControl drop a command?
    /\ applied = <<>>    \* what the calibration applied last rests on

----------------------------------------------------------------------------
(* Sending.                                                                *)

\* inputControl does not block: a full queue drops its oldest command.
Command(commands) ==
    LET all == inputControl \o commands
        over == Len(all) - ControlSize IN
    /\ inputControl' = IF over > 0 THEN SubSeq(all, over + 1, Len(all)) ELSE all
    /\ dropped' = (dropped \/ over > 0)

Simply(name) == [name |-> name, calibration |-> 0]
CmdOf(name, c) == [name |-> name, calibration |-> c]

\* openGate(n), with n = 0 for closeGate.
Gate(n) == gateControl' = Append(gateControl, n)

\* closeGate, and whatever frame there is thrown away.
CloseGate == Gate(0) /\ syncInput' = FALSE

----------------------------------------------------------------------------
(* AutoCalibration.                                                        *)

\* validateIncomingData: one frame, asked for again every second.
validateIncomingData ==
    /\ apc = "validate"
    /\ Len(gateControl) < MaxGateControl
    /\ Gate(1)
    /\ apc' = "validating"
    /\ UNCHANGED <<chosen, rounds, numIterations, attempt, count, calibration, result, gate,
                   syncInput, gateOutput, inputControl, answers, dynamic, autoHistory>>

validated ==
    /\ apc = "validating"
    /\ \/ /\ gateOutput
          /\ gateOutput' = FALSE
          /\ apc' \in {"round", "ended"}  \* the frames may be unsuitable
       \/ /\ ~gateOutput
          /\ apc' = "validate"
          /\ UNCHANGED gateOutput
    /\ UNCHANGED <<chosen, rounds, numIterations, attempt, count, calibration, result, gating,
                   syncInput, inputControl, answers, dynamic, autoHistory>>

\* A round of the continuous mode, or the only one of the on-start mode.
updateCalibrationProcess ==
    /\ apc = "round"
    /\ rounds < (IF Prompt THEN MaxRounds ELSE 1)
    /\ rounds' = rounds + 1
    /\ calibration' = device
    /\ numIterations' = 0
    /\ apc' = "iterate"
    /\ UNCHANGED <<chosen, attempt, count, result, gating, syncInput, gateOutput, inputControl,
                   answers, dynamic, autoHistory>>

iterate ==
    /\ apc = "iterate"
    /\ IF numIterations < maxIterations
       THEN /\ Command(<<Simply("resetData")>>)
            /\ Gate(NoLimit)  \* loadData's or getNewCalibration's
            /\ apc' = IF validationSetSize = 0 THEN "recalibrate" ELSE "drain"
       ELSE apc' = "round" /\ UNCHANGED <<inputControl, dropped, gateControl>>
    /\ count' = 0
    /\ attempt' = 0
    /\ UNCHANGED <<chosen, rounds, numIterations, calibration, result, gate, syncInput,
                   gateOutput, answers, dynamic, started, applied>>

\* loadData throws away the coverages it finds.
drainCoverages ==
    /\ apc = "drain"
    /\ coverages' = <<>>
    /\ apc' = "load"
    /\ UNCHANGED <<chosen, rounds, numIterations, attempt, count, calibration, result, gating,
                   syncInput, gateOutput, inputControl, results, metrics, dynamic, autoHistory>>

\* loadData asks for an image at a time and waits for its coverage.
loadImage ==
    /\ apc = "load"
    /\ count < validationSetSize
    /\ Command(<<Simply("loadImage")>>)
    /\ apc' = "loading"
    /\ UNCHANGED <<chosen, rounds, numIterations, attempt, count, calibration, result, gating,
                   syncInput, gateOutput, answers, dynamic, started, applied>>

\* Mutant: loadData goes on without the coverage.
imageLoadedEarly ==
    /\ apc = "loading"
    /\ count' = count + 1
    /\ apc' = "load"
    /\ UNCHANGED <<chosen, rounds, numIterations, attempt, calibration, result, gating,
                   syncInput, gateOutput, inputControl, answers, dynamic, autoHistory>>

imageLoaded ==
    /\ apc = "loading"
    /\ coverages # <<>>
    /\ coverages' = <<>>
    /\ count' = count + 1
    /\ apc' = "load"
    /\ UNCHANGED <<chosen, rounds, numIterations, attempt, calibration, result, gating,
                   syncInput, gateOutput, inputControl, results, metrics, dynamic, autoHistory>>

\* Mutant: measures the calibration of the device, not the new one.
getMetricsOfDevice ==
    /\ apc = "load"
    /\ count = validationSetSize
    /\ CloseGate
    /\ Command(<<CmdOf("metrics", device)>>)
    /\ apc' = "measuring"
    /\ UNCHANGED <<chosen, rounds, numIterations, attempt, count, calibration, result, gate,
                   gateOutput, answers, dynamic, started, applied>>

\* All loaded: getMetrics.
getMetrics ==
    /\ apc = "load"
    /\ count = validationSetSize
    /\ CloseGate
    /\ Command(<<CmdOf("metrics", calibration)>>)
    /\ apc' = "measuring"
    /\ UNCHANGED <<chosen, rounds, numIterations, attempt, count, calibration, result, gate,
                   gateOutput, answers, dynamic, started, applied>>

\* Good metrics: the calibration is applied.  Good data, but a bad calibration:
\* recalibrate.  Bad data: load again.
measured ==
    /\ apc = "measuring"
    /\ metrics # <<>>
    /\ metrics' = <<>>
    /\ LET m == Head(metrics) IN
        \/ /\ m.data /\ m.good
           /\ Command(<<CmdOf("apply", calibration)>>)
           /\ applied' = <<[of |-> calibration, on |-> m]>>
           /\ apc' = "round"
           /\ UNCHANGED <<numIterations, gateControl, attempt>>
        \/ /\ m.data /\ ~m.good
           /\ Gate(NoLimit)
           /\ attempt' = 0
           /\ apc' = "recalibrate"
           /\ UNCHANGED <<inputControl, dropped, applied, numIterations>>
        \/ /\ ~m.data
           /\ numIterations' = numIterations + 1
           /\ apc' = "iterate"
           /\ UNCHANGED <<inputControl, dropped, applied, gateControl, attempt>>
    /\ UNCHANGED <<chosen, rounds, count, calibration, result, gate, syncInput, gateOutput,
                   results, coverages, dynamic, started>>

\* getNewCalibration: an attempt begins, or all have failed.
startCalibration ==
    /\ apc = "recalibrate"
    /\ attempt < MaxFailsPerRecalibration
    /\ Command(<<[name |-> "start", calibration |-> started + 1]>>)
    /\ started' = started + 1
    /\ count' = 0
    /\ apc' = "waiting"
    /\ UNCHANGED <<chosen, rounds, numIterations, attempt, calibration, result, gating,
                   syncInput, gateOutput, answers, dynamic, applied>>

\* Mutant: the calibration loop is left running.
giveUpRunning ==
    /\ apc = "recalibrate"
    /\ attempt = MaxFailsPerRecalibration
    /\ CloseGate
    /\ numIterations' = numIterations + 1
    /\ apc' = "iterate"
    /\ UNCHANGED <<chosen, rounds, attempt, count, calibration, result, gate, gateOutput,
                   inputControl, dropped, answers, dynamic, started, applied>>

giveUp ==
    /\ apc = "recalibrate"
    /\ attempt = MaxFailsPerRecalibration
    /\ Command(<<Simply("stop")>>)
    /\ CloseGate
    /\ numIterations' = numIterations + 1
    /\ apc' = "iterate"
    /\ UNCHANGED <<chosen, rounds, attempt, count, calibration, result, gate, gateOutput,
                   answers, dynamic, started, applied>>

\* The result, and then the coverage, are waited for.
resultArrives ==
    /\ apc = "waiting"
    /\ results # <<>>
    /\ result' = Head(results)
    /\ results' = <<>>
    /\ apc' = "covering"
    /\ UNCHANGED <<chosen, rounds, numIterations, attempt, count, calibration, gating,
                   syncInput, gateOutput, inputControl, coverages, metrics, dynamic, autoHistory>>

coverageArrives ==
    /\ apc = "covering"
    /\ coverages # <<>>
    /\ coverages' = <<>>
    /\ result' = NoResult
    /\ \/ /\ ~result.found
          /\ count' = count + 1
          /\ \/ count' < maxImagesPerRecalibration /\ apc' = "waiting" /\ UNCHANGED attempt
             \/ count' = maxImagesPerRecalibration /\ apc' = "recalibrate" /\ attempt' = attempt + 1
          /\ UNCHANGED <<gateControl, syncInput, inputControl, dropped, calibration,
                         numIterations, applied>>
       \/ /\ result.found /\ ~result.sure
          /\ Command(<<Simply("resetData")>>)
          /\ attempt' = attempt + 1
          /\ apc' = "recalibrate"
          /\ UNCHANGED <<gateControl, syncInput, count, calibration, numIterations, applied>>
       \/ /\ result.found /\ result.sure
          /\ CloseGate
          /\ IF validationSetSize = 0
             THEN /\ Command(<<Simply("resetData"), CmdOf("apply", result.calibration)>>)
                  /\ applied' = <<[of |-> result.calibration, start |-> result.start, sent |-> started]>>
                  /\ apc' = "round"
                  /\ UNCHANGED <<calibration, numIterations>>
             ELSE /\ Command(<<Simply("resetData")>>)
                  /\ calibration' = result.calibration
                  /\ numIterations' = numIterations + 1
                  /\ apc' = "iterate"
                  /\ UNCHANGED applied
          /\ UNCHANGED <<count, attempt>>
    /\ UNCHANGED <<chosen, rounds, gate, gateOutput, results, metrics, dynamic, started>>

----------------------------------------------------------------------------
(* The gate.                                                               *)

gateControlArrives ==
    /\ gateControl # <<>>
    /\ gate' = Head(gateControl)
    /\ gateControl' = Tail(gateControl)
    /\ UNCHANGED <<chosen, auto, syncInput, gateOutput, inputControl, answers, dynamic, autoHistory>>

\* Both of its readers keep the newest frame alone.
framePasses ==
    /\ gate # 0
    /\ gate' = IF gate > 0 THEN gate - 1 ELSE gate
    /\ syncInput' = TRUE
    /\ gateOutput' = TRUE
    /\ UNCHANGED <<chosen, auto, gateControl, inputControl, answers, dynamic, autoHistory>>

----------------------------------------------------------------------------
(* DynamicCalibration.  doWork is a command, if there is one, and a tick,  *)
(* if the calibration loop is on and the period over.                      *)

ImageIn == [images EXCEPT !.number = IF @ < MaxImages THEN @ + 1 ELSE @]

initializePipeline ==
    /\ dpc = "init"
    /\ syncInput
    /\ syncInput' = FALSE
    /\ dpc' = "command"
    /\ UNCHANGED <<chosen, auto, gating, gateOutput, inputControl, answers, calibrationShouldRun,
                   start, images, found, device, autoHistory>>

\* Mutant: startCalibration does not start the loop.
evaluateCommandNotStarting ==
    /\ dpc = "command"
    /\ inputControl # <<>>
    /\ inputControl' = Tail(inputControl)
    /\ dpc' = "tick"
    /\ UNCHANGED <<chosen, auto, gating, syncInput, gateOutput, answers, calibrationShouldRun,
                   start, images, found, device, autoHistory>>

evaluateCommand ==
    /\ dpc = "command"
    /\ inputControl # <<>>
    /\ inputControl' = Tail(inputControl)
    /\ LET command == Head(inputControl) IN
        /\ dpc' = IF command.name = "loadImage" THEN "loading" ELSE "tick"
        /\ calibrationShouldRun' =
            (command.name = "start" \/ (calibrationShouldRun /\ command.name # "stop"))
        /\ start' = IF command.name = "start" THEN command.calibration ELSE start
        /\ images' = IF command.name = "resetData" THEN [number |-> 0, since |-> found] ELSE images
        /\ device' = IF command.name = "apply" THEN command.calibration ELSE device
        /\ \/ /\ command.name = "metrics"
              /\ \E data, good \in BOOLEAN :
                  metrics' = <<[of |-> command.calibration, images |-> images,
                                data |-> data, good |-> good]>>
           \/ command.name # "metrics" /\ UNCHANGED metrics
    /\ UNCHANGED <<chosen, auto, gating, syncInput, gateOutput, results, coverages, found, autoHistory>>

\* LoadImage waits for the image, and then computes the coverage.  The groups
\* come from Sync and hold both frames: the load does not fail.
runLoadImage ==
    /\ dpc = "loading"
    /\ syncInput
    /\ syncInput' = FALSE
    /\ images' = ImageIn
    /\ coverages' = <<"coverage">>
    /\ dpc' = "tick"
    /\ UNCHANGED <<chosen, auto, gating, gateOutput, inputControl, results, metrics,
                   calibrationShouldRun, start, found, device, autoHistory>>

\* AutoCalibration can do nothing until an answer comes, or has nothing to do.
Blocked ==
    \/ apc \in {"round", "ended", "validate", "validating"}
    \/ apc = "loading" /\ coverages = <<>>
    \/ apc = "measuring" /\ metrics = <<>>
    \/ apc = "waiting" /\ results = <<>>
    \/ apc = "covering" /\ coverages = <<>>

\* The loop is on and the period over: doWork waits for an image.
tickBegins ==
    /\ dpc \in {"command", "tick"}
    /\ calibrationShouldRun
    /\ dpc = "command" => inputControl = <<>>
    /\ Prompt => Blocked /\ inputControl = <<>>
    /\ dpc' = "image"
    /\ UNCHANGED <<chosen, auto, gating, syncInput, gateOutput, inputControl, answers,
                   calibrationShouldRun, start, images, found, device, autoHistory>>

\* The loop is off, or the period is not over.
noTick ==
    /\ dpc = "tick"
    /\ dpc' = "command"
    /\ UNCHANGED <<chosen, auto, gating, syncInput, gateOutput, inputControl, answers,
                   calibrationShouldRun, start, images, found, device, autoHistory>>

\* computeCoverage comes before runCalibration.
tickLoads ==
    /\ dpc = "image"
    /\ syncInput
    /\ syncInput' = FALSE
    /\ images' = ImageIn
    /\ coverages' = <<"coverage">>
    /\ dpc' = "calibrate"
    /\ UNCHANGED <<chosen, auto, gating, gateOutput, inputControl, results, metrics,
                   calibrationShouldRun, start, found, device, autoHistory>>

\* A calibration ends the loop.
runCalibration ==
    /\ dpc = "calibrate"
    /\ \/ /\ \E sure \in BOOLEAN :
              results' = <<[found |-> TRUE, sure |-> sure, calibration |-> found + 1,
                            start |-> start]>>
          /\ found' = found + 1
          /\ calibrationShouldRun' = FALSE
       \/ results' = <<NoResult>> /\ UNCHANGED <<found, calibrationShouldRun>>
    /\ dpc' = "command"
    /\ UNCHANGED <<chosen, auto, gating, syncInput, gateOutput, inputControl, coverages, metrics,
                   start, images, device, autoHistory>>

----------------------------------------------------------------------------
AutoCalibration ==
    \/ validateIncomingData \/ validated \/ updateCalibrationProcess \/ iterate
    \/ drainCoverages \/ loadImage \/ imageLoaded \/ getMetrics \/ measured
    \/ startCalibration \/ giveUp \/ resultArrives \/ coverageArrives

DynamicCalibration ==
    \/ initializePipeline \/ evaluateCommand \/ runLoadImage
    \/ tickBegins \/ noTick \/ tickLoads \/ runCalibration

AutoNext == AutoCalibration \/ DynamicCalibration \/ gateControlArrives \/ framePasses

\* A thread that can go on does; the camera goes on sending frames; a period
\* comes to its end.
AutoFairness ==
    /\ WF_autoVars(AutoCalibration)
    /\ WF_autoVars(DynamicCalibration)
    /\ WF_autoVars(tickBegins)
    /\ WF_autoVars(gateControlArrives)
    /\ WF_autoVars(framePasses)

AutoSpec == AutoInit /\ [][AutoNext]_autoVars /\ AutoFairness

----------------------------------------------------------------------------
(* Properties.                                                             *)

\* updateCalibrationProcess (AutoCalibration.cpp:280-287): with a validation
\* set, the calibration applied is the one that was measured, on at least as
\* many images as the set has, and none of them is an image it was computed
\* from.  Claimed of a prompt AutoCalibration alone: else enough attempts that
\* end with a stale result fill inputControl, and the command that is dropped
\* may be the reset before the images or one of the loads.
AppliedIsValidated ==
    Prompt /\ validationSetSize > 0 /\ applied # <<>> =>
        LET a == Head(applied) IN
        /\ a.on.of = a.of
        /\ a.on.images.number >= validationSetSize
        /\ a.of <= a.on.images.since

\* getNewCalibration (AutoCalibration.cpp:190-219): without one, the calibration
\* applied is a result of the startCalibration sent last, never one that an
\* attempt given up before has left in dynamicCalibrationQueue, which nobody
\* empties.
ResultsAreOfThisAttempt ==
    Prompt /\ validationSetSize = 0 /\ applied # <<>> => Head(applied).start = Head(applied).sent

\* loadData (AutoCalibration.cpp:165, "wait until the data are loaded"): as many
\* images are loaded as coverages have come; and inputControl, which drops the
\* oldest command when it is full (DynamicCalibrationNode.hpp:32-42), never is.
LoadedWhenTold ==
    Prompt => ~dropped /\ (apc = "load" => images.number >= count)

\* The same without promptness, as the comment at AutoCalibration.cpp:165 has it
\* ("wait until the data are loaded").  The code does not satisfy it: the period
\* is counted from before runCalibration (DynamicCalibrationNode.cpp:589), so a
\* computation longer than it is followed by the next image at once.  The result
\* of an attempt given up is then taken for the next attempt's, the loop that
\* attempt has started runs on, and its coverage answers loadData's request.
WaitsUntilLoaded == apc = "load" => images.number >= count

\* A round ends (AutoCalibration.cpp:251-315): no wait of it is for an answer
\* that was consumed before or never comes.
RoundEnds ==
    Prompt => (apc = "iterate") ~> (apc = "round")

============================================================================

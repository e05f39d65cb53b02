------------------------------ MODULE GateNode ------------------------------
(***************************************************************************)
(* The Gate node (src/pipeline/node/Gate.cpp): a valve between input and   *)
(* output that commands on inputControl open, open for a number of         *)
(* messages, or close.                                                     *)
(*                                                                         *)
(* A message is reduced to whether the gate was open when it arrived.  The *)
(* input is a non-blocking queue of size 1, inputControl one of size       *)
(* CtrlCap.  The pacing by fps only delays a send and is left out.         *)
(***************************************************************************)
EXTENDS Integers, Sequences

CONSTANTS Numbers,   \* the numMessages of open commands, besides -1
          CtrlCap,
          MaxMsgs,   \* bound: messages that ever arrive
          MaxCmds    \* bound: commands that are ever sent

GateAssumption == /\ Numbers \subseteq Nat /\ CtrlCap \in Nat \ {0}
                  /\ MaxMsgs \in Nat /\ MaxCmds \in Nat

Unlimited == -1
Cmd(open, num) == [open |-> open, num |-> num]
Commands == {Cmd(TRUE, n) : n \in Numbers \cup {Unlimited}} \cup {Cmd(FALSE, Unlimited)}
Null == Cmd(FALSE, -2)  \* the null pointer

VARIABLES input, control, inputClosed, controlClosed, outputClosed,
          gateRunning,
          gateAt, cmd,            \* the node's place and currentCommand
          held, sent,             \* the message taken from the input; sentMessages
          arrived, issued,        \* messages and commands so far
          forwarded, allowed,     \* messages sent on; what the commands taken allow
          taken                   \* commands taken

queues == <<input, control, inputClosed, controlClosed, outputClosed, gateRunning,
            arrived, issued>>
gateVars == <<input, control, inputClosed, controlClosed, outputClosed, gateRunning,
              gateAt, cmd, held, sent, arrived, issued, forwarded, allowed, taken>>

\* What a command allows; an unlimited one allows everything.
Allows(c) == IF ~c.open THEN 0 ELSE IF c.num = Unlimited THEN MaxMsgs ELSE c.num

GateInit == /\ input = <<>> /\ control = <<>>
            /\ inputClosed = FALSE /\ controlClosed = FALSE /\ outputClosed = FALSE
            /\ gateRunning = TRUE
            /\ cmd \in Commands            \* initialConfig
            /\ gateAt = "run" /\ held = <<>> /\ sent = 0
            /\ arrived = 0 /\ issued = 0 /\ forwarded = 0 /\ taken = 0
            /\ allowed = Allows(cmd)

-----------------------------------------------------------------------------
(* The surroundings. *)

receiveInput == /\ ~inputClosed /\ arrived < MaxMsgs
                /\ input' = <<cmd.open>> /\ arrived' = arrived + 1
                /\ UNCHANGED <<control, inputClosed, controlClosed, outputClosed,
                               gateRunning, gateAt, cmd, held, sent, issued, forwarded,
                               allowed, taken>>

command(c) == /\ ~controlClosed /\ issued < MaxCmds
              /\ control' = Append(IF Len(control) >= CtrlCap THEN Tail(control) ELSE control, c)
              /\ issued' = issued + 1
              /\ UNCHANGED <<input, inputClosed, controlClosed, outputClosed, gateRunning,
                             gateAt, cmd, held, sent, arrived, forwarded, allowed, taken>>

\* ThreadedNode::stop: running, then the inputs one after the other.
stopGate == /\ \/ /\ gateRunning /\ gateRunning' = FALSE
                  /\ UNCHANGED <<inputClosed, controlClosed>>
               \/ /\ ~gateRunning /\ ~controlClosed /\ controlClosed' = TRUE
                  /\ UNCHANGED <<gateRunning, inputClosed>>
               \/ /\ ~gateRunning /\ ~inputClosed /\ inputClosed' = TRUE
                  /\ UNCHANGED <<gateRunning, controlClosed>>
            /\ UNCHANGED <<input, control, outputClosed, gateAt, cmd, held, sent, arrived,
                           issued, forwarded, allowed, taken>>

closeGateOutput == /\ ~outputClosed /\ outputClosed' = TRUE
                   /\ UNCHANGED <<input, control, inputClosed, controlClosed, gateRunning,
                                  gateAt, cmd, held, sent, arrived, issued, forwarded,
                                  allowed, taken>>

-----------------------------------------------------------------------------
(* Gate::run and its helpers. *)

\* while(mainLoop()): send messages when open, else wait for a command.
run == /\ gateAt = "run"
       /\ gateAt' = IF ~gateRunning THEN "ended"
                    ELSE IF cmd = Null THEN "crash" ELSE IF cmd.open THEN "loop" ELSE "wait"
       /\ sent' = 0
       /\ UNCHANGED <<queues, cmd, held, forwarded, allowed, taken>>

\* Faulty variant: the count is compared one too late.
MoreToSendLate == cmd.num = Unlimited \/ sent <= cmd.num

\* sentMessages < numMessages, in the variant that counts.
MoreToSend == cmd.num = Unlimited \/ sent < cmd.num

(***************************************************************************)
(* The loop of sendMessages.  The continuous variant leaves it with a null *)
(* pointer when the node stops, the counting one with a close command.     *)
(***************************************************************************)
sendLoop == /\ gateAt = "loop"
            /\ \/ gateRunning /\ MoreToSend /\ gateAt' = "any" /\ UNCHANGED cmd
               \/ ~(gateRunning /\ MoreToSend) /\ gateAt' = "run"
                  /\ cmd' = IF cmd.num = Unlimited THEN Null ELSE Cmd(FALSE, Unlimited)
            /\ UNCHANGED <<queues, held, sent, forwarded, allowed, taken>>

\* Faulty variant: only the data input is waited for.
waitAnyInput == /\ gateAt = "any"
                /\ \/ input # <<>> /\ ~inputClosed /\ gateAt' = "control"
                   \/ inputClosed /\ gateAt' = "loop"
                /\ UNCHANGED <<queues, cmd, held, sent, forwarded, allowed, taken>>

(***************************************************************************)
(* MessageQueue::waitAny(inputs) (external: module MessageQueue): true     *)
(* once an open queue has a message; false only after a queue was closed.  *)
(***************************************************************************)
waitAny == /\ gateAt = "any"
           /\ \/ /\ \/ input # <<>> /\ ~inputClosed
                    \/ control # <<>> /\ ~controlClosed
                 /\ gateAt' = "control"
              \/ (inputClosed \/ controlClosed) /\ gateAt' = "loop"
           /\ UNCHANGED <<queues, cmd, held, sent, forwarded, allowed, taken>>

\* A command is taken: it replaces the current one.
Obey(c) == /\ cmd' = c /\ control' = Tail(control)
           /\ allowed' = allowed + Allows(c) /\ taken' = taken + 1
           /\ gateAt' = "run"

\* inputControl.tryGet; the counting variant asks mainLoop again first.
tryGetControl == /\ gateAt = "control" /\ ~controlClosed
                 /\ cmd.num = Unlimited \/ gateRunning
                 /\ \/ control # <<>> /\ Obey(Head(control))
                    \/ /\ control = <<>> /\ gateAt' = "data"
                       /\ UNCHANGED <<control, cmd, allowed, taken>>
                 /\ UNCHANGED <<input, inputClosed, controlClosed, outputClosed,
                                gateRunning, arrived, issued, held, sent, forwarded>>

breakStopped == /\ gateAt = "control" /\ cmd.num # Unlimited /\ ~gateRunning
                /\ cmd' = Cmd(FALSE, Unlimited) /\ gateAt' = "run"
                /\ UNCHANGED <<queues, held, sent, forwarded, allowed, taken>>

\* input.tryGet
tryGetInput == /\ gateAt = "data" /\ ~inputClosed
               /\ held' = input /\ input' = <<>>
               /\ gateAt' = IF input = <<>> THEN "loop" ELSE "send"
               /\ UNCHANGED <<control, inputClosed, controlClosed, outputClosed,
                              gateRunning, arrived, issued, cmd, sent, forwarded, allowed,
                              taken>>

\* output.send(in); sentMessages++
sendOutput == /\ gateAt = "send" /\ ~outputClosed
              /\ forwarded' = forwarded + 1
              /\ sent' = IF cmd.num = Unlimited THEN sent ELSE sent + 1
              /\ held' = <<>> /\ gateAt' = "loop"
              /\ UNCHANGED <<queues, cmd, allowed, taken>>

\* waitForCommand: blocks on inputControl.
waitForCommand == /\ gateAt = "wait" /\ ~controlClosed /\ control # <<>>
                  /\ Obey(Head(control))
                  /\ UNCHANGED <<input, inputClosed, controlClosed, outputClosed,
                                 gateRunning, arrived, issued, held, sent, forwarded>>

\* Faulty variant: a closed control input goes unnoticed by waitForCommand.
GateQueueExceptionMissed == /\ \/ /\ gateAt = "control" /\ controlClosed
                                  /\ cmd.num = Unlimited \/ gateRunning
                               \/ gateAt = "data" /\ inputClosed
                               \/ gateAt = "send" /\ outputClosed
                            /\ gateAt' = "ended"
                            /\ UNCHANGED <<queues, cmd, held, sent, forwarded, allowed,
                                           taken>>

GateQueueException == /\ \/ /\ gateAt = "control" /\ controlClosed
                            /\ cmd.num = Unlimited \/ gateRunning
                         \/ gateAt = "wait" /\ controlClosed
                         \/ gateAt = "data" /\ inputClosed
                         \/ gateAt = "send" /\ outputClosed
                      /\ gateAt' = "ended"
                      /\ UNCHANGED <<queues, cmd, held, sent, forwarded, allowed, taken>>

GateUnblocked == \/ run \/ sendLoop \/ waitAny \/ tryGetControl \/ breakStopped
                 \/ tryGetInput \/ waitForCommand \/ GateQueueException

GateStep == GateUnblocked \/ sendOutput

GateNext == \/ receiveInput \/ \E c \in Commands : command(c)
            \/ stopGate \/ closeGateOutput \/ GateStep

\* The node runs, what is behind the output takes messages until the stop, and a
\* stop goes through.
GateFairness == /\ WF_gateVars(GateUnblocked) /\ WF_gateVars(gateRunning /\ sendOutput)
                /\ WF_gateVars(~gateRunning /\ stopGate)
                /\ WF_gateVars(~gateRunning /\ closeGateOutput)

GateSpec == GateInit /\ [][GateNext]_gateVars /\ GateFairness

-----------------------------------------------------------------------------
(* Properties. *)

\* The queues keep their bounds, and a held message exists exactly while it is sent.
GateTypeOK == /\ input \in Seq(BOOLEAN) /\ Len(input) <= 1
              /\ control \in Seq(Commands) /\ Len(control) <= CtrlCap
              /\ inputClosed \in BOOLEAN /\ controlClosed \in BOOLEAN
              /\ outputClosed \in BOOLEAN /\ gateRunning \in BOOLEAN
              /\ cmd \in Commands \cup {Null}
              /\ gateAt \in {"run", "loop", "any", "control", "data", "send", "wait",
                            "ended", "crash"}
              /\ gateAt = "send" => Len(held) = 1
              /\ sent \in Nat /\ arrived \in Nat /\ issued \in Nat
              /\ forwarded \in Nat /\ allowed \in Nat /\ taken \in Nat

(***************************************************************************)
(* Over any history of commands, overlapping with messages in any order,   *)
(* the gate passes no more messages than the commands it took allow.       *)
(***************************************************************************)
WithinAllowance == forwarded <= allowed

\* A waiting command is taken, open or closed, as long as the node runs.
CommandsAreTaken == \A n \in 0 .. MaxCmds :
    (taken = n /\ control # <<>>) ~> (taken > n \/ ~gateRunning \/ outputClosed)

\* A stop ends the node's thread, wherever it is blocked.
StopEndsGate == ~gateRunning ~> gateAt = "ended"

-----------------------------------------------------------------------------
(***************************************************************************)
(* What the documentation says, and the code does not do: messages         *)
(* received while the gate is closed are discarded.  A closed gate does    *)
(* not read its input, so the last message stays in the queue and is       *)
(* passed on when the gate opens.                                          *)
(***************************************************************************)
ClosedGateDiscards == gateAt = "send" => held = <<TRUE>>

=============================================================================

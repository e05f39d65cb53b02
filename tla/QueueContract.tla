--------------------------- MODULE QueueContract ---------------------------
(***************************************************************************)
(* What a dai::LockingQueue promises to its users, with no threads, no     *)
(* condition variables and no wake-ups: a bounded FIFO buffer that may     *)
(* overwrite its oldest messages only while it is configured to, and that  *)
(* admits nothing more in blocking mode once it is closed.                 *)
(***************************************************************************)
EXTENDS Naturals, Sequences

CONSTANTS Messages,   \* the messages that may be put into the buffer
          Capacities  \* the capacities the buffer may be given

VARIABLES chan,       \* the messages in the buffer, oldest first
          log,        \* every message ever admitted, in order
          capacity,   \* the current capacity
          lossy,      \* TRUE: a full buffer overwrites its oldest messages
          closed      \* TRUE once the buffer has been shut

cvars == <<chan, log, capacity, lossy, closed>>

Init == /\ chan = << >>
        /\ log = << >>
        /\ capacity \in Capacities
        /\ lossy \in BOOLEAN
        /\ closed = FALSE

\* Everything after the k oldest messages.
Rest(k) == SubSeq(chan, k + 1, Len(chan))

(***************************************************************************)
(* Admit m, overwriting the k oldest messages.  A message is admitted at   *)
(* most once, only into a free place, and a buffer that is not lossy       *)
(* neither overwrites nor admits anything after it was closed.             *)
(***************************************************************************)
Put(m) == \E k \in 0 .. Len(chan) :
            /\ \A i \in DOMAIN log : log[i] # m
            /\ ~lossy => k = 0 /\ ~closed
            /\ Len(chan) - k < capacity
            /\ chan' = Append(Rest(k), m)
            /\ log' = Append(log, m)
            /\ UNCHANGED <<capacity, lossy, closed>>

\* The k oldest messages leave together, in order.
Take == /\ \E k \in 1 .. Len(chan) : chan' = Rest(k)
        /\ UNCHANGED <<log, capacity, lossy, closed>>

Configure == /\ capacity' \in Capacities
             /\ lossy' \in BOOLEAN
             /\ UNCHANGED <<chan, log, closed>>

Shut == /\ closed' = TRUE
        /\ UNCHANGED <<chan, log, capacity, lossy>>

Next == \/ \E m \in Messages : Put(m)
        \/ Take
        \/ Configure
        \/ Shut

Spec == Init /\ [][Next]_cvars
=============================================================================

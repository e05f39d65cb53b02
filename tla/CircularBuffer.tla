--------------------------- MODULE CircularBuffer ---------------------------
(***************************************************************************)
(* CircularBuffer and WindowedAverageBuffer                                *)
(* (include/depthai/utility/CircularBuffer.hpp): the last maxSize values   *)
(* added, in a vector that is written round and round.                     *)
(***************************************************************************)
EXTENDS Integers, Sequences

Empty == [buffer |-> <<>>, index |-> 0]

start(b, maxSize) == IF Len(b.buffer) < maxSize THEN 0 ELSE b.index

add(b, value, maxSize) ==
    IF Len(b.buffer) < maxSize
    THEN [b EXCEPT !.buffer = Append(@, value)]
    ELSE [buffer |-> [b.buffer EXCEPT ![b.index + 1] = value],
          index |-> IF b.index + 1 = maxSize THEN 0 ELSE b.index + 1]

\* From the oldest to the newest.
getBuffer(b, maxSize) ==
    IF Len(b.buffer) < maxSize
    THEN b.buffer
    ELSE SubSeq(b.buffer, b.index + 1, Len(b.buffer)) \o SubSeq(b.buffer, 1, b.index)

\* The place in the vector of the pos-th oldest value; the iterators' too.
at(b, maxSize, pos) ==
    LET p == start(b, maxSize) + pos
        n == Len(b.buffer) IN
    IF p < n THEN p ELSE p - n  \* (start() + pos) % buffer.size()

=============================================================================

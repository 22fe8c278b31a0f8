------------------------------ MODULE ModqFifo -------------------------------
(***************************************************************************)
(* What the MODQ ring promises its two ends: a bounded FIFO.  The host's    *)
(* messages are numbered as they are published; the device receives each   *)
(* of them once, in that order.  The promise ends with the host process.   *)
(***************************************************************************)
EXTENDS Naturals, Sequences

CONSTANT Capacity

VARIABLES open,        \* the first host process is there
          queue,       \* published, not yet received
          received     \* received by the device, in order

fifoVars == <<open, queue, received>>

Init == open = TRUE /\ queue = << >> /\ received = << >>

Publish ==
    /\ Len(queue) < Capacity
    /\ queue' = Append(queue, Len(received) + Len(queue))
    /\ UNCHANGED received

Receive ==
    /\ queue # << >>
    /\ received' = Append(received, Head(queue))
    /\ queue' = Tail(queue)

Next == (open' = TRUE /\ (Publish \/ Receive)) \/ open' = FALSE

Spec == Init /\ [][Next]_fifoVars

=============================================================================

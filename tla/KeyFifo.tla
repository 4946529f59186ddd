------------------------------ MODULE KeyFifo ------------------------------
(***************************************************************************)
(* What the keyboard buffer promises: a bounded queue of scan codes, in    *)
(* the order they came, that refuses the newest one when it is full, and   *)
(* from which a code leaves only when the reader takes it.                 *)
(***************************************************************************)
EXTENDS Naturals, Sequences

CONSTANTS Capacity, Scancodes

VARIABLES
  queue,
  gone     \* how many codes have left it, modulo Capacity + 1

Init == queue = <<>> /\ gone = 0

Put(sc) == Len(queue) < Capacity /\ queue' = Append(queue, sc) /\ UNCHANGED gone

(* The oldest codes are taken: one, the two of an extended key, or all. *)
Take ==
  \E n \in 1 .. Len(queue) :
    /\ queue' = SubSeq(queue, n + 1, Len(queue))
    /\ gone' = (gone + n) % (Capacity + 1)

Next == (\E sc \in Scancodes : Put(sc)) \/ Take

Spec == Init /\ [][Next]_<<queue, gone>>
=============================================================================

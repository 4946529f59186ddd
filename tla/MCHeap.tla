------------------------------- MODULE MCHeap ------------------------------
(* A heap of a few bytes for TLC, headers included.                          *)
EXTENDS Heap

SmallSizes == {0, 1, 2, 3, 5}
=============================================================================

-------------------------------- MODULE Heap -------------------------------
(***************************************************************************)
(* malloc and free of kernel.c: first fit over one list of blocks, in the  *)
(* order of their addresses, which free joins again.                       *)
(***************************************************************************)
EXTENDS Integers, Sequences

CONSTANTS
  HEAP_SIZE,
  HEADER,      \* sizeof(block_t)
  Sizes        \* bound: the sizes that are asked for

ASSUME HeapAssumption ==
  /\ HEADER \in Nat \ {0} /\ HEAP_SIZE \in Nat /\ HEAP_SIZE > HEADER
  /\ Sizes \subseteq Int

VARIABLES
  free_list,   \* the blocks as next links them; at is the address of the header
  granted      \* what the last malloc was asked, and returned

heapVars == <<free_list, granted>>

NULL == 0

Block(at, size, used) == [at |-> at, size |-> size, used |-> used]

(* the list after init_heap, which malloc calls when free_list is NULL *)
List == IF free_list = <<>> THEN <<Block(0, HEAP_SIZE - HEADER, FALSE)>> ELSE free_list

Split_AnyRest(b, n) ==
  <<Block(b.at, n, TRUE), Block(b.at + HEADER + n, b.size - n - HEADER, FALSE)>>

Split_NoHeader(b, n) ==
  IF b.size > n
  THEN <<Block(b.at, n, TRUE), Block(b.at + HEADER + n, b.size - n, FALSE)>>
  ELSE <<[b EXCEPT !.used = TRUE]>>

(* The block that is given out, and what is left of it. *)
Split(b, n) ==
  IF b.size > n + HEADER
  THEN <<Block(b.at, n, TRUE), Block(b.at + HEADER + n, b.size - n - HEADER, FALSE)>>
  ELSE <<[b EXCEPT !.used = TRUE]>>

Fits(b, n) == ~b.used /\ b.size >= n

Join_Apart(list, b) == Append(list, b)

(* One step of the walk of free: b follows the blocks of list. *)
Join(list, b) ==
  IF list # <<>> /\ ~list[Len(list)].used /\ ~b.used
     /\ list[Len(list)].at + HEADER + list[Len(list)].size = b.at
  THEN [list EXCEPT ![Len(list)].size = @ + HEADER + b.size]
  ELSE Append(list, b)

(* The whole walk: walk[n] is what it has made of the first n blocks.        *)
Joined(list) ==
  LET walk[n \in 0 .. Len(list)] == IF n = 0 THEN <<>> ELSE Join(walk[n - 1], list[n])
  IN  walk[Len(list)]

HeapInit == free_list = <<>> /\ granted = [asked |-> 0, ptr |-> NULL]

(* malloc *)
Malloc(n) ==
  \E k \in DOMAIN List :
    /\ n > 0
    /\ Fits(List[k], n) /\ \A j \in 1 .. k - 1 : ~Fits(List[j], n)
    /\ free_list' = SubSeq(List, 1, k - 1) \o Split(List[k], n) \o SubSeq(List, k + 1, Len(List))
    /\ granted' = [asked |-> n, ptr |-> List[k].at + HEADER]

(* malloc that returns NULL *)
MallocFails(n) ==
  /\ n > 0 => \A k \in DOMAIN List : ~Fits(List[k], n)
  /\ free_list' = List
  /\ granted' = [asked |-> n, ptr |-> NULL]

(* free of what malloc gave: the block is free, and the walk joins every     *)
(* pair of free neighbours.                                                  *)
Free ==
  /\ \E k \in DOMAIN free_list :
       /\ free_list[k].used
       /\ free_list' = Joined([free_list EXCEPT ![k].used = FALSE])
  /\ UNCHANGED granted

HeapNext == (\E n \in Sizes : Malloc(n) \/ MallocFails(n)) \/ Free

HeapSpec == HeapInit /\ [][HeapNext]_heapVars

-----------------------------------------------------------------------------

(* The blocks tile the heap from end to end: every header is where the block *)
(* before it ends, none is empty, and the last one ends with the heap.       *)
BlocksTile ==
  free_list # <<>> =>
    /\ free_list[1].at = 0
    /\ \A k \in DOMAIN free_list :
         LET b == free_list[k] IN
         /\ b.size > 0
         /\ b.at + HEADER + b.size =
              IF k = Len(free_list) THEN HEAP_SIZE ELSE free_list[k + 1].at

(* No two neighbours are both free between calls: what is given back can be  *)
(* given out again as one region.                                            *)
FreeIsJoined ==
  \A k \in 1 .. Len(free_list) - 1 : free_list[k].used \/ free_list[k + 1].used

(* malloc and free keep what Allocator says of them: the regions that are    *)
(* out never overlap, each until it is given back, and malloc refuses only   *)
(* when no gap is large enough.                                              *)
live == {[at |-> b.at + HEADER, size |-> b.size] :
           b \in {free_list[k] : k \in {i \in DOMAIN free_list : free_list[i].used}}}

Promise == INSTANCE Allocator

IsAllocator == Promise!Spec
=============================================================================

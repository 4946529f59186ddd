----------------------------- MODULE Allocator -----------------------------
(***************************************************************************)
(* What malloc and free promise: a region that is given out is inside the  *)
(* heap, is as large as asked, and with its header overlaps no other until *)
(* it is given back; and malloc refuses only when no gap between the       *)
(* regions is large enough.                                                *)
(***************************************************************************)
EXTENDS Integers

CONSTANTS HEAP_SIZE, HEADER, Sizes

VARIABLES
  live,      \* the regions given out: [at, size], the header below at
  granted    \* the last malloc's: [asked, ptr]

NULL == 0

Start(r) == r.at - HEADER
End(r)   == r.at + r.size

Regions == [at : HEADER .. HEAP_SIZE, size : 1 .. HEAP_SIZE]

Clear(r) ==
  /\ End(r) <= HEAP_SIZE
  /\ \A s \in live : End(r) <= Start(s) \/ End(s) <= Start(r)

Init == live = {} /\ granted = [asked |-> 0, ptr |-> NULL]

(* A region may be larger than asked: a rest with no room behind a header of *)
(* its own goes with it.                                                     *)
Give(n) ==
  \E r \in Regions :
    /\ r.size \in n .. n + HEADER
    /\ n > 0 /\ Clear(r)
    /\ live' = live \cup {r}
    /\ granted' = [asked |-> n, ptr |-> r.at]

Refuse(n) ==
  /\ n > 0 => \A a \in HEADER .. HEAP_SIZE : ~Clear([at |-> a, size |-> n])
  /\ granted' = [asked |-> n, ptr |-> NULL]
  /\ UNCHANGED live

TakeBack ==
  /\ \E r \in live : live' = live \ {r}
  /\ UNCHANGED granted

Next == (\E n \in Sizes : Give(n) \/ Refuse(n)) \/ TakeBack

Spec == Init /\ [][Next]_<<live, granted>>
=============================================================================

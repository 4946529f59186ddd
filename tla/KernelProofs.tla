---------------------------- MODULE KernelProofs ----------------------------
(***************************************************************************)
(* What kernel.c and jit.c keep in memory and compute at the prompt.       *)
(*                                                                         *)
(* The heap: that its blocks always tile it, that no free block has a free *)
(* neighbour between calls, and that malloc and free implement Allocator,  *)
(* for a heap and a header of any size and any sizes asked for.            *)
(*                                                                         *)
(* The variables: that their array is the map VarStore, for a table of any *)
(* size, any names and any way of cutting them.                            *)
(*                                                                         *)
(* Calculations: that there is a parser of each line, that it skips        *)
(* nothing, and that what is written for steps is read as these steps, for *)
(* lines and steps of any length.                                          *)
(*                                                                         *)
(* The assembler: that the code of each instruction runs as what the text  *)
(* asks for exactly when Misassembled does not list it, whatever its       *)
(* numbers are and in whichever of three ways they are written.            *)
(***************************************************************************)
EXTENDS Heap, Shell, Extremes, FiniteSetTheorems, SequenceTheorems

-----------------------------------------------------------------------------
(* The heap                                                                 *)

Blocks == [at : Nat, size : Nat \ {0}, used : BOOLEAN]

EndOf(b) == b.at + HEADER + b.size

(* The blocks of list lie one behind the other, from 0 to end. *)
Laid(list, end) ==
  /\ list \in Seq(Blocks)
  /\ IF list = <<>> THEN end = 0
     ELSE list[1].at = 0 /\ EndOf(list[Len(list)]) = end
  /\ \A k \in 1 .. Len(list) - 1 : EndOf(list[k]) = list[k + 1].at

(* No two neighbours of list are free. *)
Apart(list) == \A k \in 1 .. Len(list) - 1 : list[k].used \/ list[k + 1].used

Region(b) == [at |-> b.at + HEADER, size |-> b.size]

(* The regions of the blocks of list that are in use. *)
Out(list) == {Region(b) : b \in {list[k] : k \in {i \in DOMAIN list : list[i].used}}}

(* The inductive invariant. *)
HeapInv == free_list # <<>> => Laid(free_list, HEAP_SIZE) /\ Apart(free_list)

-----------------------------------------------------------------------------
(* Lists of blocks                                                          *)

LEMMA HeaderIsNatural ==
  /\ HEADER \in Nat \ {0} /\ HEAP_SIZE \in Nat /\ HEAP_SIZE > HEADER
  /\ Sizes \subseteq Int
BY HeapAssumption

LEMMA OutHolds ==
  ASSUME NEW list \in Seq(Blocks)
  PROVE  \A r : r \in Out(list) <=> \E i \in 1 .. Len(list) : list[i].used /\ r = Region(list[i])
<1>1. DOMAIN list = 1 .. Len(list)
  OBVIOUS
<1> QED  BY <1>1, Zenon DEF Out

LEMMA OneBlock ==
  ASSUME NEW b \in Blocks
  PROVE  <<b>> \in Seq(Blocks) /\ Len(<<b>>) = 1 /\ <<b>> # <<>> /\ <<b>>[1] = b
OBVIOUS

(* A block further on begins where an earlier one ends, or behind.           *)
LEMMA LaidInOrder ==
  ASSUME NEW list, NEW end, Laid(list, end),
         NEW i \in 1 .. Len(list), NEW j \in 1 .. Len(list), i < j
  PROVE  EndOf(list[i]) <= list[j].at
<1> DEFINE Over == {k \in 1 .. Len(list) : i < k /\ ~(EndOf(list[i]) <= list[k].at)}
<1>1. Over = {}
  <2>1. SUFFICES ASSUME Over # {}  PROVE FALSE
    OBVIOUS
  <2>2. Over \in SUBSET Nat
    OBVIOUS
  <2>3. PICK m \in Over : \A k \in Over : m <= k
    <3> HIDE DEF Over
    <3> QED  BY <2>1, <2>2, LeastExists
  <2>4. /\ list[i] \in Blocks /\ list[m] \in Blocks
        /\ m \in 1 .. Len(list) /\ i < m
    BY DEF Laid
  <2>5. CASE m = i + 1
    <3>1. EndOf(list[i]) = list[m].at
      BY <2>4, <2>5 DEF Laid
    <3> QED  BY <3>1, <2>4, <2>3, HeaderIsNatural DEF EndOf, Blocks
  <2>6. CASE m # i + 1
    <3>1. m - 1 \in 1 .. Len(list) /\ i < m - 1 /\ m - 1 \notin Over
      BY <2>4, <2>6, <2>3
    <3>2. EndOf(list[i]) <= list[m - 1].at
      BY <3>1
    <3>3. EndOf(list[m - 1]) = list[m].at /\ list[m - 1] \in Blocks
      <4>1. m - 1 \in 1 .. Len(list) - 1 /\ (m - 1) + 1 = m
        BY <2>4, <3>1
      <4> QED  BY <4>1 DEF Laid
    <3>4. list[m - 1].at <= EndOf(list[m - 1])
      BY <3>3, HeaderIsNatural DEF EndOf, Blocks
    <3>5. EndOf(list[i]) <= list[m].at
      BY <3>2, <3>3, <3>4, <2>4, HeaderIsNatural DEF EndOf, Blocks
    <3> QED  BY <3>5, <2>3
  <2> QED  BY <2>5, <2>6
<1> QED  BY <1>1

(* A block ends where the list ends, or before. *)
LEMMA LaidWithin ==
  ASSUME NEW list, NEW end, Laid(list, end), NEW i \in 1 .. Len(list)
  PROVE  list[i] \in Blocks /\ EndOf(list[i]) <= end /\ end \in Nat
<1>1. list \in Seq(Blocks) /\ list # <<>> /\ Len(list) \in 1 .. Len(list)
  BY DEF Laid
<1>2. list[i] \in Blocks /\ list[Len(list)] \in Blocks
  BY <1>1
<1>3. EndOf(list[Len(list)]) = end
  BY <1>1 DEF Laid
<1>4. end \in Nat
  BY <1>2, <1>3, HeaderIsNatural DEF EndOf, Blocks
<1>5. CASE i = Len(list)
  BY <1>2, <1>3, <1>4, <1>5
<1>6. CASE i # Len(list)
  <2>1. EndOf(list[i]) <= list[Len(list)].at
    BY <1>1, <1>6, LaidInOrder
  <2> QED  BY <2>1, <1>2, <1>3, <1>4, HeaderIsNatural DEF EndOf, Blocks
<1> QED  BY <1>5, <1>6

(* The list that malloc walks: after init_heap one free block.               *)
LEMMA ListIsLaid ==
  ASSUME HeapInv
  PROVE  /\ Laid(List, HEAP_SIZE) /\ Apart(List) /\ List # <<>>
         /\ Out(List) = Out(free_list)
<1>1. CASE free_list = <<>>
  <2>1. List = <<Block(0, HEAP_SIZE - HEADER, FALSE)>>
    BY <1>1 DEF List
  <2>2. Block(0, HEAP_SIZE - HEADER, FALSE) \in Blocks
    <3>1. HEAP_SIZE - HEADER \in Nat \ {0}
      BY HeaderIsNatural
    <3> QED  BY <3>1 DEF Block, Blocks
  <2>3. /\ List \in Seq(Blocks) /\ Len(List) = 1 /\ List # <<>>
        /\ List[1] = Block(0, HEAP_SIZE - HEADER, FALSE)
    BY <2>1, <2>2, OneBlock
  <2>4. EndOf(List[1]) = HEAP_SIZE /\ List[1].at = 0 /\ ~List[1].used
    <3>1. List[1] = [at |-> 0, size |-> HEAP_SIZE - HEADER, used |-> FALSE]
      BY <2>3 DEF Block
    <3> HIDE DEF List
    <3>2. List[1].at = 0 /\ List[1].size = HEAP_SIZE - HEADER /\ ~List[1].used
      BY <3>1
    <3> QED  BY <3>2, HeaderIsNatural DEF EndOf
  <2>5. Laid(List, HEAP_SIZE) /\ Apart(List)
    <3>1. 1 .. Len(List) - 1 = {} /\ List[Len(List)] = List[1]
      BY <2>3
    <3> HIDE DEF List
    <3> QED  BY <3>1, <2>3, <2>4 DEF Laid, Apart
  <2>6. ASSUME NEW r  PROVE  r \notin Out(List)
    <3>1. \A i \in 1 .. Len(List) : i = 1
      BY <2>3
    <3>2. \A i \in 1 .. Len(List) : ~List[i].used
      BY <2>4, <3>1
    <3> QED  BY <2>3, <3>2, OutHolds
  <2>7. ASSUME NEW r  PROVE  r \notin Out(free_list)
    <3>1. free_list \in Seq(Blocks) /\ Len(free_list) = 0
      BY <1>1
    <3>2. 1 .. Len(free_list) = {}
      BY <3>1
    <3> QED  BY <3>1, <3>2, OutHolds
  <2> QED  BY <2>3, <2>5, <2>6, <2>7
<1>2. CASE free_list # <<>>
  BY <1>2 DEF HeapInv, List
<1> QED  BY <1>1, <1>2

-----------------------------------------------------------------------------
(* The walk of free                                                         *)

(* b behind the blocks of list, not joined to them: as it is, or because one *)
(* of the two is in use.                                                     *)
LEMMA AppendLaid ==
  ASSUME NEW list, NEW b \in Blocks, Laid(list, b.at)
  PROVE  /\ Laid(Append(list, b), EndOf(b))
         /\ \A r : r \in Out(Append(list, b)) <=> r \in Out(list) \/ (b.used /\ r = Region(b))
         /\ Apart(list) /\ (list = <<>> \/ list[Len(list)].used \/ b.used)
              => Apart(Append(list, b))
<1> DEFINE L == Append(list, b)
<1>1. /\ list \in Seq(Blocks) /\ L \in Seq(Blocks) /\ Len(L) = Len(list) + 1
      /\ L # <<>> /\ L[Len(L)] = b /\ \A i \in 1 .. Len(list) : L[i] = list[i]
  <2>1. list \in Seq(Blocks)
    BY DEF Laid
  <2>2. L \in Seq(Blocks) /\ Len(L) = Len(list) + 1
        /\ \A i \in 1 .. Len(list) + 1 : L[i] = IF i <= Len(list) THEN list[i] ELSE b
    BY <2>1, AppendProperties
  <2>3. Len(list) \in Nat
    BY <2>1
  <2> QED  BY <2>1, <2>2, <2>3
<1>2. Len(list) \in Nat /\ (list = <<>> <=> Len(list) = 0)
  BY <1>1
<1>3. \A r : r \in Out(L) <=> r \in Out(list) \/ (b.used /\ r = Region(b))
  <2>1. \A i : i \in 1 .. Len(L) <=> i \in 1 .. Len(list) \/ i = Len(L)
    BY <1>1, <1>2
  <2> HIDE DEF L
  <2> QED  BY <1>1, <2>1, OutHolds
<1>4. \A k \in 1 .. Len(L) - 1 :
        /\ k \in 1 .. Len(list) /\ L[k] = list[k]
        /\ \/ k = Len(list) /\ L[k + 1] = b
           \/ k \in 1 .. Len(list) - 1 /\ L[k + 1] = list[k + 1]
  <2> HIDE DEF L
  <2> TAKE k \in 1 .. Len(L) - 1
  <2>1. k \in 1 .. Len(list)
    BY <1>1, <1>2
  <2>2. CASE k = Len(list)
    BY <2>1, <2>2, <1>1, <1>2
  <2>3. CASE k # Len(list)
    <3>1. k \in 1 .. Len(list) - 1 /\ k + 1 \in 1 .. Len(list)
      BY <2>1, <2>3, <1>2
    <3> QED  BY <2>1, <3>1, <1>1
  <2> QED  BY <2>2, <2>3
<1>5. Laid(L, EndOf(b))
  <2>1. L[1].at = 0
    <3>1. CASE list = <<>>
      <4>1. L[1] = b /\ b.at = 0
        BY <3>1, <1>1, <1>2 DEF Laid
      <4> QED  BY <4>1
    <3>2. CASE list # <<>>
      <4>1. 1 \in 1 .. Len(list) /\ list[1].at = 0
        BY <3>2, <1>2 DEF Laid
      <4> QED  BY <4>1, <1>1
    <3> QED  BY <3>1, <3>2
  <2>2. \A k \in 1 .. Len(L) - 1 : EndOf(L[k]) = L[k + 1].at
    <3> TAKE k \in 1 .. Len(L) - 1
    <3>1. CASE k = Len(list) /\ L[k + 1] = b
      <4>1. list # <<>>
        BY <3>1, <1>4, <1>2
      <4>2. EndOf(list[Len(list)]) = b.at
        BY <4>1 DEF Laid
      <4> QED  BY <3>1, <4>2, <1>4
    <3>2. CASE k \in 1 .. Len(list) - 1 /\ L[k + 1] = list[k + 1]
      <4>1. EndOf(list[k]) = list[k + 1].at
        BY <3>2 DEF Laid
      <4> QED  BY <3>2, <4>1, <1>4
    <3> QED  BY <1>4, <3>1, <3>2
  <2> HIDE DEF L
  <2> QED  BY <1>1, <2>1, <2>2 DEF Laid
<1>6. ASSUME Apart(list), list = <<>> \/ list[Len(list)].used \/ b.used  PROVE  Apart(L)
  <2>1. \A k \in 1 .. Len(L) - 1 : L[k].used \/ L[k + 1].used
    <3> TAKE k \in 1 .. Len(L) - 1
    <3>1. CASE k = Len(list) /\ L[k + 1] = b
      BY <3>1, <1>4, <1>6, <1>2
    <3>2. CASE k \in 1 .. Len(list) - 1 /\ L[k + 1] = list[k + 1]
      BY <3>2, <1>4, <1>6 DEF Apart
    <3> QED  BY <1>4, <3>1, <3>2
  <2> HIDE DEF L
  <2> QED  BY <2>1 DEF Apart
<1> QED  BY <1>3, <1>5, <1>6

(* The last block grown by a block behind it, both free. *)
LEMMA GrowLaid ==
  ASSUME NEW list, NEW b \in Blocks, Laid(list, b.at), list # <<>>,
         ~list[Len(list)].used, ~b.used, Apart(list),
         NEW grown, grown = [list EXCEPT ![Len(list)].size = @ + HEADER + b.size]
  PROVE  /\ Laid(grown, EndOf(b)) /\ Apart(grown)
         /\ \A r : r \in Out(grown) <=> r \in Out(list)
<1> DEFINE n == Len(list)
<1>1. list \in Seq(Blocks) /\ n \in 1 .. n /\ n \in Nat
  BY DEF Laid
<1>2. list[n] \in Blocks
  BY <1>1
<1>3. [list[n] EXCEPT !.size = @ + HEADER + b.size]
        = [at |-> list[n].at, size |-> list[n].size + HEADER + b.size, used |-> list[n].used]
  BY <1>2 DEF Blocks
<1>4. /\ grown \in Seq(Blocks) /\ Len(grown) = n /\ grown # <<>>
      /\ grown[n] = [at |-> list[n].at, size |-> list[n].size + HEADER + b.size,
                     used |-> list[n].used]
      /\ \A i \in 1 .. n : i # n => grown[i] = list[i]
  <2> DEFINE g == [at |-> list[n].at, size |-> list[n].size + HEADER + b.size,
                   used |-> list[n].used]
  <2>1. g \in Blocks
    <3>1. list[n].size + HEADER + b.size \in Nat \ {0}
      BY <1>2, HeaderIsNatural DEF Blocks
    <3> QED  BY <3>1, <1>2 DEF Blocks
  <2>2. grown = [list EXCEPT ![n] = g]
    BY <1>3
  <2> HIDE DEF g
  <2>3. grown \in Seq(Blocks) /\ Len(grown) = n /\ grown[n] = g
        /\ \A i \in 1 .. n : i # n => grown[i] = list[i]
    BY <2>1, <2>2, <1>1
  <2> QED  BY <2>3, <1>1 DEF g
<1>5. grown[n].at = list[n].at /\ grown[n].size = list[n].size + HEADER + b.size
      /\ grown[n].used = list[n].used
  BY <1>4
<1>6. \A i \in 1 .. n : grown[i].at = list[i].at /\ grown[i].used = list[i].used
  BY <1>4, <1>5
<1>7. EndOf(grown[n]) = EndOf(b)
  <2>1. EndOf(list[n]) = b.at
    BY DEF Laid
  <2> QED  BY <2>1, <1>5, <1>2, HeaderIsNatural DEF EndOf, Blocks
<1>8. \A k \in 1 .. n - 1 : k \in 1 .. n /\ k # n /\ k + 1 \in 1 .. n
  BY <1>1
<1>9. Laid(grown, EndOf(b))
  <2>1. grown[1].at = 0
    <3>1. 1 \in 1 .. n /\ list[1].at = 0
      BY <1>1 DEF Laid
    <3> QED  BY <3>1, <1>6
  <2>2. \A k \in 1 .. n - 1 : EndOf(grown[k]) = grown[k + 1].at
    <3> TAKE k \in 1 .. n - 1
    <3>1. grown[k] = list[k] /\ grown[k + 1].at = list[k + 1].at
      BY <1>8, <1>4, <1>6
    <3> QED  BY <3>1 DEF Laid
  <2> QED  BY <2>1, <2>2, <1>4, <1>7 DEF Laid
<1>10. Apart(grown)
  BY <1>6, <1>8, <1>4 DEF Apart
<1>11. \A r : r \in Out(grown) <=> r \in Out(list)
  <2>1. \A i \in 1 .. n : list[i].used => grown[i] = list[i]
    BY <1>4
  <2>2. \A r : (\E i \in 1 .. n : grown[i].used /\ r = Region(grown[i]))
                 <=> (\E i \in 1 .. n : list[i].used /\ r = Region(list[i]))
    BY <2>1, <1>6
  <2>3. \A r : r \in Out(list) <=> \E i \in 1 .. n : list[i].used /\ r = Region(list[i])
    BY <1>1, OutHolds
  <2>4. \A r : r \in Out(grown) <=> \E i \in 1 .. n : grown[i].used /\ r = Region(grown[i])
    <3>1. grown \in Seq(Blocks) /\ Len(grown) = n
      BY <1>4
    <3> HIDE DEF n
    <3> QED  BY <3>1, OutHolds
  <2> QED  BY <2>2, <2>3, <2>4
<1> QED  BY <1>9, <1>10, <1>11

LEMMA JoinLaid ==
  ASSUME NEW list, NEW b \in Blocks, Laid(list, b.at), Apart(list)
  PROVE  /\ Laid(Join(list, b), EndOf(b)) /\ Apart(Join(list, b))
         /\ \A r : r \in Out(Join(list, b)) <=> r \in Out(list) \/ (b.used /\ r = Region(b))
<1>1. CASE list # <<>> /\ ~list[Len(list)].used /\ ~b.used
  <2>1. list[Len(list)].at + HEADER + list[Len(list)].size = b.at
    BY <1>1 DEF Laid, EndOf
  <2>2. Join(list, b) = [list EXCEPT ![Len(list)].size = @ + HEADER + b.size]
    BY <1>1, <2>1 DEF Join
  <2> QED  BY <1>1, <2>2, GrowLaid
<1>2. CASE ~(list # <<>> /\ ~list[Len(list)].used /\ ~b.used)
  <2>1. Join(list, b) = Append(list, b)
    BY <1>2 DEF Join
  <2> QED  BY <1>2, <2>1, AppendLaid
<1> QED  BY <1>1, <1>2

(* The walk over the blocks of list makes a list of the same regions, in     *)
(* which no two neighbours are free.                                         *)
LEMMA JoinedLaid ==
  ASSUME NEW list, NEW end, Laid(list, end)
  PROVE  /\ Laid(Joined(list), end) /\ Apart(Joined(list))
         /\ \A r : r \in Out(Joined(list)) <=> r \in Out(list)
<1> DEFINE Dom == 0 .. Len(list)
           Val == Seq(Blocks)
           Step(w, n) == IF n = 0 THEN <<>> ELSE Join(w[n - 1], list[n])
           major == [n \in Dom |-> n]
           minor == [n \in Dom |-> 0]
           body == [w \in [Dom -> Val] |-> [n \in Dom |-> Step(w, n)]]
<1>1. list \in Seq(Blocks) /\ Len(list) \in Nat
  BY DEF Laid
<1>2. ASSUME NEW n \in Dom, n # 0
      PROVE  n - 1 \in Dom /\ n - 1 < n /\ n \in 1 .. Len(list) /\ list[n] \in Blocks
  BY <1>1, <1>2
<1>3. ASSUME NEW w \in Val, NEW b \in Blocks  PROVE  Join(w, b) \in Val
  <2>1. CASE w # <<>> /\ ~w[Len(w)].used /\ ~b.used
             /\ w[Len(w)].at + HEADER + w[Len(w)].size = b.at
    <3> DEFINE last == w[Len(w)]
               grown == [at |-> last.at, size |-> last.size + HEADER + b.size, used |-> last.used]
    <3>1. Len(w) \in 1 .. Len(w) /\ last \in Blocks
      BY <2>1, <1>3
    <3>2. last.size + HEADER + b.size \in Nat \ {0}
      BY <3>1, <1>3, HeaderIsNatural DEF Blocks
    <3>3. grown \in Blocks
      BY <3>1, <3>2 DEF Blocks
    <3>4. [last EXCEPT !.size = @ + HEADER + b.size] = grown
      BY <3>1 DEF Blocks
    <3>5. Join(w, b) = [w EXCEPT ![Len(w)] = grown]
      BY <2>1, <3>4 DEF Join
    <3> HIDE DEF grown
    <3> QED  BY <3>1, <3>3, <3>5, <1>3
  <2>2. CASE ~(w # <<>> /\ ~w[Len(w)].used /\ ~b.used
               /\ w[Len(w)].at + HEADER + w[Len(w)].size = b.at)
    <3>1. Join(w, b) = Append(w, b)
      BY <2>2 DEF Join
    <3> QED  BY <3>1, <1>3, AppendProperties
  <2> QED  BY <2>1, <2>2
<1>4. Grounded(Dom, Val, major, minor, body)
  <2>1. major \in [Dom -> Nat] /\ minor \in [Dom -> Nat]
    BY <1>1
  <2>2. ASSUME NEW w \in [Dom -> Val], NEW n \in Dom
        PROVE  Step(w, n) \in Val
    <3>1. CASE n = 0
      BY <3>1
    <3>2. CASE n # 0
      <4>1. w[n - 1] \in Val /\ list[n] \in Blocks
        BY <3>2, <1>2
      <4> QED  BY <3>2, <4>1, <1>3
    <3> QED  BY <3>1, <3>2
  <2>3. body \in [[Dom -> Val] -> [Dom -> Val]]
    <3> HIDE DEF Step, Dom, Val
    <3> QED  BY <2>2
  <2>4. ASSUME NEW g \in [Dom -> Val], NEW h \in [Dom -> Val], NEW n \in Dom,
               \A m \in Dom : Precedes(major, minor, m, n) => g[m] = h[m]
        PROVE  body[g][n] = body[h][n]
    <3>1. \A m \in Dom : m < n => g[m] = h[m]
      BY <2>4 DEF Precedes
    <3>2. Step(g, n) = Step(h, n)
      BY <3>1, <1>2
    <3>3. body[g][n] = Step(g, n) /\ body[h][n] = Step(h, n)
      <4> HIDE DEF Step, Dom, Val
      <4> QED  OBVIOUS
    <3> QED  BY <3>2, <3>3
  <2>5. \A g, h \in [Dom -> Val] : \A n \in Dom :
          (\A m \in Dom : Precedes(major, minor, m, n) => g[m] = h[m])
            => body[g][n] = body[h][n]
    BY <2>4
  <2> HIDE DEF major, minor, body, Val, Dom
  <2> QED  BY <2>1, <2>3, <2>5 DEF Grounded
<1>5. \E w \in [Dom -> Val] : w = body[w]
  <2>1. <<>> \in Val
    OBVIOUS
  <2> HIDE DEF major, minor, body, Val, Dom
  <2> QED  BY <1>4, <2>1, RecursionExists
<1> DEFINE walk == CHOOSE w : w = [n \in Dom |-> Step(w, n)]
<1>6. walk = [n \in Dom |-> Step(walk, n)]
  <2>1. \E w : w = [n \in Dom |-> Step(w, n)]
    <3> HIDE DEF Step, Dom, Val
    <3> QED  BY <1>5
  <2> HIDE DEF Step, Dom
  <2> QED  BY <2>1
<1>7. Joined(list) = walk[Len(list)]
  BY DEF Joined
<1> HIDE DEF walk
<1> DEFINE upTo(n) == IF n = 0 THEN 0 ELSE EndOf(list[n])
           Right(n) == /\ Laid(walk[n], upTo(n)) /\ Apart(walk[n])
                       /\ \A r : r \in Out(walk[n])
                                   <=> \E i \in 1 .. n : list[i].used /\ r = Region(list[i])
           Wrong == {n \in Dom : ~Right(n)}
<1>8. Right(0)
  <2>1. 0 \in Dom
    BY <1>1
  <2>2. walk[0] = <<>>
    <3> HIDE DEF Dom
    <3> QED  BY <2>1, <1>6
  <2>3. Len(walk[0]) = 0 /\ walk[0] \in Seq(Blocks) /\ 1 .. 0 = {} /\ 1 .. Len(walk[0]) - 1 = {}
    BY <2>2
  <2>4. Laid(walk[0], 0) /\ Apart(walk[0])
    BY <2>2, <2>3 DEF Laid, Apart
  <2>5. \A r : r \in Out(walk[0]) <=> \E i \in 1 .. 0 : list[i].used /\ r = Region(list[i])
    BY <2>3, OutHolds
  <2> QED  BY <2>4, <2>5
<1>9. ASSUME NEW n \in Dom, n # 0, Right(n - 1)  PROVE  Right(n)
  <2>1. walk[n] = Join(walk[n - 1], list[n])
    <3>1. walk[n] = Step(walk, n)
      <4> HIDE DEF Dom, Step
      <4> QED  BY <1>6
    <3> QED  BY <3>1, <1>9
  <2>2. list[n].at = upTo(n - 1)
    <3>1. CASE n = 1
      <4>1. list # <<>>
        BY <3>1, <1>2, <1>1
      <4> QED  BY <3>1, <4>1 DEF Laid
    <3>2. CASE n # 1
      <4>1. n - 1 \in 1 .. Len(list) - 1 /\ (n - 1) + 1 = n /\ n - 1 # 0
        BY <3>2, <1>9, <1>2
      <4>2. EndOf(list[n - 1]) = list[(n - 1) + 1].at
        BY <4>1 DEF Laid
      <4> QED  BY <4>1, <4>2
    <3> QED  BY <3>1, <3>2
  <2>3. \A i : i \in 1 .. n <=> i \in 1 .. n - 1 \/ i = n
    BY <1>9, <1>1
  <2>4. upTo(n) = EndOf(list[n]) /\ list[n] \in Blocks
    BY <1>9, <1>2
  <2>5. Laid(walk[n - 1], list[n].at) /\ Apart(walk[n - 1])
    BY <1>9, <2>2
  <2>6. /\ Laid(walk[n], upTo(n)) /\ Apart(walk[n])
        /\ \A r : r \in Out(walk[n]) <=> r \in Out(walk[n - 1]) \/ (list[n].used /\ r = Region(list[n]))
    BY <2>1, <2>4, <2>5, JoinLaid
  <2>7. \A r : r \in Out(walk[n - 1]) <=> \E i \in 1 .. n - 1 : list[i].used /\ r = Region(list[i])
    BY <1>9
  <2> QED  BY <2>6, <2>7, <2>3
<1>10. Wrong = {}
  <2>1. SUFFICES ASSUME Wrong # {}  PROVE FALSE
    OBVIOUS
  <2>2. Wrong \in SUBSET Nat
    <3> HIDE DEF Right
    <3> QED  BY <1>1
  <2>3. PICK n \in Wrong : \A m \in Wrong : n <= m
    <3> HIDE DEF Wrong
    <3> QED  BY <2>1, <2>2, LeastExists
  <2> HIDE DEF Right
  <2>4. n \in Dom /\ ~Right(n) /\ n # 0
    BY <1>8, <2>3
  <2>5. n - 1 \in Dom /\ n - 1 < n
    BY <2>4, <1>2
  <2>6. n - 1 \notin Wrong
    BY <2>3, <2>5, <2>4
  <2> QED  BY <2>4, <2>5, <2>6, <1>9
<1>11. Right(Len(list))
  <2>1. Len(list) \in Dom
    BY <1>1
  <2> HIDE DEF Right
  <2> QED  BY <1>10, <2>1
<1>12. upTo(Len(list)) = end
  <2>1. list = <<>> <=> Len(list) = 0
    BY <1>1
  <2> QED  BY <2>1 DEF Laid
<1> QED  BY <1>1, <1>7, <1>11, <1>12, OutHolds

-----------------------------------------------------------------------------
(* malloc                                                                   *)

Splice(list, k, mid) == SubSeq(list, 1, k - 1) \o mid \o SubSeq(list, k + 1, Len(list))

(* One block of a list replaced by the blocks of mid. *)
LEMMA Spliced ==
  ASSUME NEW list \in Seq(Blocks), NEW k \in 1 .. Len(list), NEW mid \in Seq(Blocks),
         NEW new, new = Splice(list, k, mid)
  PROVE  /\ new \in Seq(Blocks) /\ Len(new) = Len(list) - 1 + Len(mid)
         /\ \A i \in 1 .. Len(new) :
              new[i] = IF i < k THEN list[i]
                       ELSE IF i < k + Len(mid) THEN mid[i - k + 1]
                       ELSE list[i - Len(mid) + 1]
<1> DEFINE front == SubSeq(list, 1, k - 1)
           back == SubSeq(list, k + 1, Len(list))
<1>1. k \in Nat /\ k > 0 /\ k <= Len(list) /\ Len(list) \in Nat /\ Len(mid) \in Nat
  OBVIOUS
<1>2. /\ front \in Seq(Blocks) /\ Len(front) = k - 1
      /\ \A i \in 1 .. k - 1 : front[i] = list[i]
  <2>1. \A i \in 1 .. k - 1 : list[i] \in Blocks
    BY <1>1
  <2>2. front \in Seq(Blocks)
          /\ Len(front) = (IF 1 <= k - 1 THEN k - 1 - 1 + 1 ELSE 0)
          /\ \A i \in 1 .. k - 1 - 1 + 1 : front[i] = list[1 + i - 1]
    BY <1>1, <2>1, SubSeqProperties
  <2>3. Len(front) = k - 1 /\ k - 1 - 1 + 1 = k - 1 /\ \A i \in 1 .. k - 1 : 1 + i - 1 = i
    BY <1>1, <2>2
  <2> HIDE DEF front
  <2>4. \A i \in 1 .. k - 1 : front[i] = list[i]
    <3> TAKE i \in 1 .. k - 1
    <3>1. front[i] = list[1 + i - 1] /\ 1 + i - 1 = i
      BY <2>2, <2>3
    <3> QED  BY <3>1
  <2> QED  BY <2>2, <2>3, <2>4
<1>3. /\ back \in Seq(Blocks) /\ Len(back) = Len(list) - k
      /\ \A i \in 1 .. Len(list) - k : back[i] = list[k + i]
  <2>1. \A i \in k + 1 .. Len(list) : list[i] \in Blocks
    BY <1>1
  <2>2. back \in Seq(Blocks)
          /\ Len(back) = (IF k + 1 <= Len(list) THEN Len(list) - (k + 1) + 1 ELSE 0)
          /\ \A i \in 1 .. Len(list) - (k + 1) + 1 : back[i] = list[k + 1 + i - 1]
    BY <1>1, <2>1, SubSeqProperties
  <2>3. Len(back) = Len(list) - k /\ Len(list) - (k + 1) + 1 = Len(list) - k
        /\ \A i \in 1 .. Len(list) - k : k + 1 + i - 1 = k + i
    BY <1>1, <2>2
  <2> HIDE DEF back
  <2>4. \A i \in 1 .. Len(list) - k : back[i] = list[k + i]
    <3> TAKE i \in 1 .. Len(list) - k
    <3>1. back[i] = list[k + 1 + i - 1] /\ k + 1 + i - 1 = k + i
      BY <2>2, <2>3
    <3> QED  BY <3>1
  <2> QED  BY <2>2, <2>3, <2>4
<1> HIDE DEF front, back
<1>4. new = (front \o mid) \o back
  BY DEF front, back, Splice
<1>5. /\ front \o mid \in Seq(Blocks) /\ Len(front \o mid) = k - 1 + Len(mid)
      /\ \A i \in 1 .. k - 1 + Len(mid) :
           (front \o mid)[i] = IF i <= k - 1 THEN front[i] ELSE mid[i - (k - 1)]
  <2>1. /\ front \o mid \in Seq(Blocks) /\ Len(front \o mid) = Len(front) + Len(mid)
        /\ \A i \in 1 .. Len(front) + Len(mid) :
             (front \o mid)[i] = IF i <= Len(front) THEN front[i] ELSE mid[i - Len(front)]
    BY <1>2, ConcatProperties
  <2>2. Len(front) = k - 1
    BY <1>2
  <2> HIDE DEF front
  <2> QED  BY ONLY <2>1, <2>2
<1>6. /\ new \in Seq(Blocks) /\ Len(new) = k - 1 + Len(mid) + (Len(list) - k)
      /\ \A i \in 1 .. k - 1 + Len(mid) + (Len(list) - k) :
           new[i] = IF i <= k - 1 + Len(mid) THEN (front \o mid)[i]
                    ELSE back[i - (k - 1 + Len(mid))]
  <2> DEFINE first == front \o mid
  <2>1. first \in Seq(Blocks) /\ Len(first) = k - 1 + Len(mid) /\ new = first \o back
    BY <1>4, <1>5
  <2> HIDE DEF first
  <2>2. /\ new \in Seq(Blocks) /\ Len(new) = Len(first) + Len(back)
        /\ \A i \in 1 .. Len(first) + Len(back) :
             new[i] = IF i <= Len(first) THEN first[i] ELSE back[i - Len(first)]
    <3>1. back \in Seq(Blocks) /\ first \in Seq(Blocks) /\ new = first \o back
      BY <2>1, <1>3
    <3> QED  BY ONLY <3>1, ConcatProperties
  <2>3. Len(back) = Len(list) - k
    BY <1>3
  <2> QED  BY ONLY <2>1, <2>2, <2>3 DEF first
<1>7. Len(new) = Len(list) - 1 + Len(mid)
  BY <1>1, <1>6
<1>8. ASSUME NEW i \in 1 .. Len(new)
      PROVE  new[i] = IF i < k THEN list[i]
                       ELSE IF i < k + Len(mid) THEN mid[i - k + 1]
                       ELSE list[i - Len(mid) + 1]
  <2>1. CASE i < k
    <3>1. i <= k - 1 + Len(mid) /\ i <= k - 1 /\ i \in 1 .. k - 1 /\ i \in 1 .. k - 1 + Len(mid)
      BY <1>1, <1>7, <2>1
    <3>2. new[i] = front[i]
      BY <3>1, <1>5, <1>6
    <3> QED  BY <3>1, <3>2, <1>2, <2>1
  <2>2. CASE ~(i < k) /\ i < k + Len(mid)
    <3>1. i <= k - 1 + Len(mid) /\ ~(i <= k - 1) /\ i \in 1 .. k - 1 + Len(mid) /\ i - (k - 1) = i - k + 1
      BY <1>1, <1>7, <2>2
    <3>2. new[i] = mid[i - (k - 1)]
      BY <3>1, <1>5, <1>6
    <3> QED  BY <3>1, <3>2, <2>2
  <2>3. CASE ~(i < k) /\ ~(i < k + Len(mid))
    <3>1. /\ ~(i <= k - 1 + Len(mid)) /\ i - (k - 1 + Len(mid)) \in 1 .. Len(list) - k
          /\ k + (i - (k - 1 + Len(mid))) = i - Len(mid) + 1
      <4>1. i \in Int /\ i <= Len(list) - 1 + Len(mid)
        <5>1. i \in 1 .. Len(new)
          OBVIOUS
        <5> QED  BY ONLY <5>1, <1>1, <1>7
      <4> QED  BY <1>1, <2>3, <4>1
    <3>2. new[i] = back[i - (k - 1 + Len(mid))]
      BY <3>1, <1>6
    <3>3. back[i - (k - 1 + Len(mid))] = list[k + (i - (k - 1 + Len(mid)))]
      BY <3>1, <1>3
    <3> QED  BY <3>1, <3>2, <3>3, <2>3
  <2> QED  BY <2>1, <2>2, <2>3
<1> QED  BY <1>6, <1>7, <1>8

(* What a free block is split into: the first part is in use, no other.      *)
Divides(mid, b) ==
  /\ mid \in Seq(Blocks) /\ Len(mid) \in {1, 2}
  /\ mid[1].used /\ mid[1].at = b.at
  /\ IF Len(mid) = 1 THEN EndOf(mid[1]) = EndOf(b)
     ELSE ~mid[2].used /\ EndOf(mid[1]) = mid[2].at /\ EndOf(mid[2]) = EndOf(b)

LEMMA BlockSetUsed ==
  ASSUME NEW b \in Blocks, NEW flag \in BOOLEAN
  PROVE  [b EXCEPT !.used = flag] = [at |-> b.at, size |-> b.size, used |-> flag]
BY DEF Blocks

LEMMA SplitDivides ==
  ASSUME NEW b \in Blocks, ~b.used, NEW n \in Int, n > 0, b.size >= n
  PROVE  /\ Divides(Split(b, n), b)
         /\ Split(b, n)[1].size \in n .. n + HEADER
<1>1. CASE b.size > n + HEADER
  <2> DEFINE b1 == Block(b.at, n, TRUE)
             b2 == Block(b.at + HEADER + n, b.size - n - HEADER, FALSE)
  <2>1. Split(b, n) = <<b1, b2>>
    BY <1>1 DEF Split
  <2>2. b1 \in Blocks /\ b2 \in Blocks
    <3>1. n \in Nat \ {0} /\ b.at + HEADER + n \in Nat /\ b.size - n - HEADER \in Nat \ {0}
      BY <1>1, HeaderIsNatural DEF Blocks
    <3> QED  BY <3>1 DEF Block, Blocks
  <2>3. /\ b1.at = b.at /\ b1.size = n /\ b1.used = TRUE
        /\ b2.at = b.at + HEADER + n /\ b2.size = b.size - n - HEADER /\ b2.used = FALSE
    BY DEF Block
  <2> HIDE DEF b1, b2
  <2>4. <<b1, b2>> \in Seq(Blocks) /\ Len(<<b1, b2>>) = 2
        /\ <<b1, b2>>[1] = b1 /\ <<b1, b2>>[2] = b2
    BY <2>2
  <2>5. EndOf(b1) = b2.at /\ EndOf(b2) = EndOf(b)
    BY <2>3, HeaderIsNatural DEF EndOf, Blocks
  <2>6. n \in n .. n + HEADER
    BY HeaderIsNatural
  <2> QED  BY <2>1, <2>3, <2>4, <2>5, <2>6 DEF Divides
<1>2. CASE ~(b.size > n + HEADER)
  <2> DEFINE whole == [b EXCEPT !.used = TRUE]
  <2>1. Split(b, n) = <<whole>>
    BY <1>2 DEF Split
  <2>3. whole \in Blocks /\ whole.at = b.at /\ whole.size = b.size /\ whole.used = TRUE
    <3>1. whole = [at |-> b.at, size |-> b.size, used |-> TRUE]
      BY BlockSetUsed
    <3> HIDE DEF whole
    <3> QED  BY <3>1 DEF Blocks
  <2> HIDE DEF whole
  <2>4. EndOf(whole) = EndOf(b)
    BY <2>3 DEF EndOf
  <2>5. whole.size \in n .. n + HEADER
    BY <2>3, <1>2, HeaderIsNatural DEF Blocks
  <2> QED  BY <2>1, <2>3, <2>4, <2>5, OneBlock DEF Divides
<1> QED  BY <1>1, <1>2

(* A free block split where it lies: the blocks still tile the heap, and one *)
(* more region is out.                                                       *)
LEMMA SplitLaid ==
  ASSUME NEW list, NEW end, Laid(list, end), Apart(list),
         NEW k \in 1 .. Len(list), ~list[k].used,
         NEW mid, Divides(mid, list[k]),
         NEW new, new = Splice(list, k, mid)
  PROVE  /\ Laid(new, end) /\ Apart(new) /\ new # <<>>
         /\ \A r : r \in Out(new) <=> r \in Out(list) \/ r = Region(mid[1])
<1> DEFINE m == Len(mid)
           M == Len(list)
           Piece(i) == IF i < k THEN list[i]
                      ELSE IF i < k + m THEN mid[i - k + 1] ELSE list[i - m + 1]
<1>1. list \in Seq(Blocks) /\ mid \in Seq(Blocks) /\ m \in {1, 2}
  BY DEF Laid, Divides
<1>2. k \in Nat /\ M \in Nat /\ k > 0 /\ k <= M /\ m \in Nat
  BY <1>1
<1>3. new \in Seq(Blocks) /\ Len(new) = M - 1 + m /\ \A i \in 1 .. Len(new) : new[i] = Piece(i)
  <2>1. /\ new \in Seq(Blocks) /\ Len(new) = Len(list) - 1 + Len(mid)
        /\ \A i \in 1 .. Len(new) :
             new[i] = IF i < k THEN list[i]
                      ELSE IF i < k + Len(mid) THEN mid[i - k + 1]
                      ELSE list[i - Len(mid) + 1]
    <3>1. list \in Seq(Blocks) /\ mid \in Seq(Blocks) /\ k \in 1 .. Len(list)
          /\ new = Splice(list, k, mid)
      BY <1>1
    <3> QED  BY ONLY <3>1, Spliced
  <2> QED  BY ONLY <2>1
<1> HIDE DEF m, M
<1>4. new # <<>>
  <2>1. Len(new) # 0
    BY ONLY <1>1, <1>2, <1>3
  <2> QED  BY <2>1, <1>3
<1>5. ASSUME NEW i \in 1 .. Len(new)
      PROVE  \/ i < k /\ i \in 1 .. M /\ new[i] = list[i]
             \/ i = k /\ new[i] = mid[1]
             \/ m = 2 /\ i = k + 1 /\ new[i] = mid[2]
             \/ i >= k + m /\ i - m + 1 \in k + 1 .. M /\ new[i] = list[i - m + 1]
  <2>1. i \in Nat /\ i > 0 /\ i <= M - 1 + m /\ new[i] = Piece(i)
    <3>1. i \in 1 .. Len(new)
      OBVIOUS
    <3>2. i \in Nat /\ i > 0 /\ i <= M - 1 + m
      BY ONLY <3>1, <1>3, <1>2
    <3> QED  BY <3>2, <1>3
  <2>2. CASE i < k
    <3>1. i \in 1 .. M
      BY ONLY <2>1, <2>2, <1>2
    <3> QED  BY <2>1, <2>2, <3>1
  <2>3. CASE ~(i < k) /\ i < k + m
    <3>1. \/ i = k /\ i - k + 1 = 1
          \/ m = 2 /\ i = k + 1 /\ i - k + 1 = 2
      BY ONLY <2>1, <2>3, <1>1, <1>2
    <3> QED  BY <3>1, <2>1, <2>3
  <2>4. CASE ~(i < k) /\ ~(i < k + m)
    <3>1. i >= k + m /\ i - m + 1 \in k + 1 .. M
      BY ONLY <2>1, <2>4, <1>1, <1>2
    <3> QED  BY <2>1, <2>4, <3>1
  <2> QED  BY <2>2, <2>3, <2>4
<1>6. /\ \A i \in 1 .. k - 1 : i \in 1 .. Len(new) /\ new[i] = list[i]
      /\ k \in 1 .. Len(new) /\ new[k] = mid[1]
      /\ m = 2 => k + 1 \in 1 .. Len(new) /\ new[k + 1] = mid[2]
      /\ \A j \in k + 1 .. M : j + m - 1 \in 1 .. Len(new) /\ new[j + m - 1] = list[j]
  <2>1. ASSUME NEW i \in 1 .. k - 1
        PROVE  i \in 1 .. Len(new) /\ new[i] = list[i]
    <3>1. i \in 1 .. k - 1
      OBVIOUS
    <3>2. i < k /\ i \in 1 .. Len(new)
      BY ONLY <3>1, <1>1, <1>2, <1>3
    <3> QED  BY <3>2, <1>3
  <2>2. k \in 1 .. Len(new) /\ new[k] = mid[1]
    <3>1. ~(k < k) /\ k < k + m /\ k - k + 1 = 1 /\ k \in 1 .. Len(new)
      BY ONLY <1>1, <1>2, <1>3
    <3> QED  BY <3>1, <1>3
  <2>3. ASSUME NEW j \in k + 1 .. M
        PROVE  j + m - 1 \in 1 .. Len(new) /\ new[j + m - 1] = list[j]
    <3>1. j \in k + 1 .. M
      OBVIOUS
    <3>2. /\ j + m - 1 \in 1 .. Len(new) /\ ~(j + m - 1 < k) /\ ~(j + m - 1 < k + m)
          /\ (j + m - 1) - m + 1 = j
      BY ONLY <3>1, <1>1, <1>2, <1>3
    <3> QED  BY <3>2, <1>3
  <2>4. ASSUME m = 2  PROVE  k + 1 \in 1 .. Len(new) /\ new[k + 1] = mid[2]
    <3>1. ~(k + 1 < k) /\ k + 1 < k + m /\ k + 1 - k + 1 = 2 /\ k + 1 \in 1 .. Len(new)
      BY ONLY <2>4, <1>2, <1>3
    <3>2. new[k + 1] = Piece(k + 1)
      BY <3>1, <1>3
    <3>3. Piece(k + 1) = mid[2]
      BY ONLY <3>1
    <3> HIDE DEF Piece
    <3> QED  BY <3>1, <3>2, <3>3
  <2> QED  BY <2>1, <2>2, <2>3, <2>4
<1>7. \A i \in 1 .. M - 1 : EndOf(list[i]) = list[i + 1].at /\ (list[i].used \/ list[i + 1].used)
  BY DEF Laid, Apart, M
<1>8. ASSUME NEW i \in 1 .. Len(new) - 1
      PROVE  EndOf(new[i]) = new[i + 1].at /\ (new[i].used \/ new[i + 1].used)
  <2>0. i \in 1 .. Len(new) - 1
    OBVIOUS
  <2>1. i \in 1 .. Len(new) /\ i + 1 \in 1 .. Len(new) /\ i \in Nat
    BY ONLY <2>0, <1>3, <1>1, <1>2
  <2>2. CASE i < k - 1
    <3>1. /\ i \in 1 .. k - 1 /\ i + 1 \in 1 .. k - 1 /\ i \in 1 .. M - 1
      BY ONLY <2>1, <2>2, <1>2
    <3>2. new[i] = list[i] /\ new[i + 1] = list[i + 1]
      BY <3>1, <1>6
    <3> QED  BY <3>1, <3>2, <1>7
  <2>3. CASE i = k - 1
    <3>1. /\ i \in 1 .. k - 1 /\ i + 1 = k /\ i \in 1 .. M - 1
      BY ONLY <2>1, <2>3, <1>2
    <3>2. new[i] = list[i] /\ new[i + 1] = mid[1]
      BY <3>1, <1>6
    <3> QED  BY <3>1, <3>2, <1>7 DEF Divides
  <2>4. CASE i = k
    <3>1. new[i] = mid[1] /\ new[i].used
      BY <2>4, <1>6 DEF Divides
    <3>2. CASE m = 2
      <4>1. new[i + 1] = mid[2]
        BY <2>4, <3>2, <1>6
      <4>2. EndOf(mid[1]) = mid[2].at
        BY <3>2 DEF Divides, m
      <4> QED  BY <3>1, <4>1, <4>2
    <3>3. CASE m = 1
      <4>1. k + 1 \in k + 1 .. M /\ k + 1 + m - 1 = i + 1 /\ k \in 1 .. M - 1
        BY ONLY <1>2, <1>3, <2>1, <2>4, <3>3
      <4>2. new[i + 1] = list[k + 1]
        BY <4>1, <1>6
      <4>3. EndOf(list[k]) = list[k + 1].at
        BY <4>1, <1>7
      <4> QED  BY <3>1, <3>3, <4>2, <4>3 DEF Divides, m
    <3> QED  BY <3>2, <3>3, <1>1
  <2>5. CASE i > k
    <3>1. CASE m = 2 /\ i = k + 1
      <4>2. new[i] = mid[2]
        BY <3>1, <1>6
      <4>3. k + 1 \in k + 1 .. M /\ k + 1 + m - 1 = i + 1 /\ k \in 1 .. M - 1
        BY ONLY <1>2, <1>3, <2>1, <3>1
      <4>4. new[i + 1] = list[k + 1]
        BY <4>3, <1>6
      <4>5. EndOf(list[k]) = list[k + 1].at /\ list[k + 1].used
        BY <4>3, <1>7
      <4> QED  BY <3>1, <4>2, <4>4, <4>5 DEF Divides, m
    <3>2. CASE ~(m = 2 /\ i = k + 1)
      <4> DEFINE j == i - m + 1
      <4>1. /\ j \in k + 1 .. M /\ j + 1 \in k + 1 .. M /\ j \in 1 .. M - 1
            /\ j + m - 1 = i /\ (j + 1) + m - 1 = i + 1
        BY ONLY <1>1, <1>2, <1>3, <2>1, <2>5, <3>2
      <4> HIDE DEF j
      <4>2. new[i] = list[j]
        BY <4>1, <1>6
      <4>3. new[i + 1] = list[j + 1]
        BY <4>1, <1>6
      <4> QED  BY <4>1, <4>2, <4>3, <1>7
    <3> QED  BY <3>1, <3>2
  <2>6. i < k - 1 \/ i = k - 1 \/ i = k \/ i > k
    BY ONLY <2>1, <1>2
  <2> QED  BY <2>2, <2>3, <2>4, <2>5, <2>6
<1>9. new[1].at = 0
  <2>0. list[1].at = 0
    <3>1. list # <<>>
      BY <1>1, <1>2 DEF M
    <3> QED  BY <3>1 DEF Laid
  <2>1. CASE k = 1
    BY <2>0, <2>1, <1>6 DEF Divides
  <2>2. CASE k # 1
    <3>1. 1 \in 1 .. k - 1
      BY ONLY <2>2, <1>2
    <3> QED  BY <2>0, <3>1, <1>6
  <2> QED  BY <2>1, <2>2
<1>10. EndOf(new[Len(new)]) = end
  <2>0. EndOf(list[M]) = end
    <3>1. list # <<>>
      BY <1>1, <1>2 DEF M
    <3> QED  BY <3>1 DEF Laid, M
  <2>1. CASE k = M /\ m = 1
    <3>1. Len(new) = k
      BY ONLY <1>2, <1>3, <2>1
    <3>2. EndOf(mid[1]) = EndOf(list[k])
      BY <2>1 DEF Divides, m
    <3> QED  BY <2>0, <2>1, <3>1, <3>2, <1>6
  <2>2. CASE k = M /\ m = 2
    <3>1. Len(new) = k + 1
      BY ONLY <1>2, <1>3, <2>2
    <3>2. new[Len(new)] = mid[2]
      BY <3>1, <2>2, <1>6
    <3>3. EndOf(mid[2]) = EndOf(list[k])
      BY <2>2 DEF Divides, m
    <3> QED  BY <2>0, <2>2, <3>2, <3>3
  <2>3. CASE k # M
    <3>1. M \in k + 1 .. M /\ M + m - 1 = Len(new)
      BY ONLY <1>2, <1>3, <2>3
    <3>2. new[Len(new)] = list[M]
      BY <3>1, <1>6
    <3> QED  BY <2>0, <3>2
  <2>4. (k = M /\ m = 1) \/ (k = M /\ m = 2) \/ k # M
    BY <1>1 DEF m
  <2> QED  BY <2>1, <2>2, <2>3, <2>4
<1>11. Laid(new, end) /\ Apart(new)
  <2> HIDE DEF Piece
  <2> QED  BY <1>3, <1>4, <1>8, <1>9, <1>10 DEF Laid, Apart
<1>12. ASSUME NEW r
       PROVE  r \in Out(new) <=> r \in Out(list) \/ r = Region(mid[1])
  <2>1. r \in Out(list) <=> \E i \in 1 .. M : list[i].used /\ r = Region(list[i])
    BY <1>1, OutHolds DEF M
  <2>2. r \in Out(new) <=> \E i \in 1 .. Len(new) : new[i].used /\ r = Region(new[i])
    BY <1>3, OutHolds
  <2>3. ASSUME NEW i \in 1 .. Len(new), new[i].used, r = Region(new[i])
        PROVE  r \in Out(list) \/ r = Region(mid[1])
    <3>1. CASE i < k /\ i \in 1 .. M /\ new[i] = list[i]
      BY <3>1, <2>1, <2>3
    <3>2. CASE i = k /\ new[i] = mid[1]
      BY <3>2, <2>3
    <3>3. CASE m = 2 /\ i = k + 1 /\ new[i] = mid[2]
      BY <3>3, <2>3 DEF Divides, m
    <3>4. CASE i >= k + m /\ i - m + 1 \in k + 1 .. M /\ new[i] = list[i - m + 1]
      <4>1. i - m + 1 \in 1 .. M
        BY ONLY <3>4, <1>2
      <4> QED  BY <3>4, <4>1, <2>1, <2>3
    <3> QED  BY <3>1, <3>2, <3>3, <3>4, <1>5
  <2>4. ASSUME NEW i \in 1 .. M, list[i].used, r = Region(list[i])
        PROVE  r \in Out(new)
    <3>0. i \in 1 .. M /\ i # k
      BY <2>4
    <3>1. CASE i < k
      <4>1. i \in 1 .. k - 1
        BY ONLY <3>0, <3>1, <1>2
      <4> QED  BY <4>1, <1>6, <2>2, <2>4
    <3>2. CASE ~(i < k)
      <4>1. i \in k + 1 .. M
        BY ONLY <3>0, <3>2, <1>2
      <4> QED  BY <4>1, <1>6, <2>2, <2>4
    <3> QED  BY <3>1, <3>2
  <2>5. Region(mid[1]) \in Out(new)
    <3>1. k \in 1 .. Len(new) /\ new[k] = mid[1] /\ new[k].used
      BY <1>6 DEF Divides
    <3> QED  BY <3>1, <1>3, OutHolds
  <2> QED  BY <2>1, <2>2, <2>3, <2>4, <2>5
<1> QED  BY <1>4, <1>11, <1>12

LEMMA LiveIsOut == live = Out(free_list) /\ live' = Out(free_list')
BY DEF live, Out, Region

LEMMA EndIsBehind ==
  ASSUME NEW b \in Blocks
  PROVE  EndOf(b) \in Nat /\ b.at \in Nat /\ b.at + HEADER < EndOf(b)
BY HeaderIsNatural DEF EndOf, Blocks

(* Two blocks have different regions, and apart from each other, the headers *)
(* included.                                                                 *)
LEMMA RegionsApart ==
  ASSUME NEW list, NEW end, Laid(list, end),
         NEW i \in 1 .. Len(list), NEW j \in 1 .. Len(list), i # j
  PROVE  /\ Region(list[i]) # Region(list[j])
         /\ EndOf(list[i]) <= list[j].at \/ EndOf(list[j]) <= list[i].at
<1>1. list[i] \in Blocks /\ list[j] \in Blocks
  BY LaidWithin
<1>2. EndOf(list[i]) <= list[j].at \/ EndOf(list[j]) <= list[i].at
  <2>1. i < j \/ j < i
    OBVIOUS
  <2> QED  BY <2>1, LaidInOrder
<1>3. list[i].at # list[j].at
  BY <1>1, <1>2, HeaderIsNatural DEF EndOf, Blocks
<1>4. list[i].at + HEADER # list[j].at + HEADER
  BY <1>1, <1>3, HeaderIsNatural DEF Blocks
<1> QED  BY <1>2, <1>4 DEF Region

(* The region of a block that was free is clear of all that are out.         *)
LEMMA GivenIsClear ==
  ASSUME NEW new, Laid(new, HEAP_SIZE), NEW old, old \in Seq(Blocks),
         NEW k \in 1 .. Len(old), Laid(old, HEAP_SIZE), ~old[k].used,
         NEW b \in Blocks, b.at = old[k].at, EndOf(b) <= EndOf(old[k]), b.size >= 1
  PROVE  /\ Region(b) \in Promise!Regions
         /\ Region(b).at + Region(b).size <= HEAP_SIZE
         /\ \A s \in Out(old) : \/ Region(b).at + Region(b).size <= s.at - HEADER
                                \/ s.at + s.size <= Region(b).at - HEADER
<1>1. Region(b).at = b.at + HEADER /\ Region(b).size = b.size
  BY DEF Region
<1>2. Region(b).at + Region(b).size = EndOf(b) /\ Region(b).at - HEADER = b.at
  BY <1>1, HeaderIsNatural DEF EndOf, Blocks
<1>3. old[k] \in Blocks /\ EndOf(old[k]) <= HEAP_SIZE
  BY LaidWithin
<1>4. EndOf(b) <= HEAP_SIZE
  BY <1>3, HeaderIsNatural DEF EndOf, Blocks
<1>5. Region(b) \in Promise!Regions
  <2>1. b.at + HEADER \in HEADER .. HEAP_SIZE /\ b.size \in 1 .. HEAP_SIZE
    <3>1. b.at \in Nat /\ b.size \in Nat
      BY DEF Blocks
    <3>2. b.at + HEADER + b.size <= HEAP_SIZE
      BY <1>4 DEF EndOf
    <3>3. HEADER \in Nat /\ HEAP_SIZE \in Nat /\ b.size >= 1
      BY HeapAssumption DEF HeapAssumption
    <3> QED  BY ONLY <3>1, <3>2, <3>3
  <2> QED  BY <2>1 DEF Region, Promise!Regions
<1>6. ASSUME NEW s \in Out(old)
      PROVE  \/ Region(b).at + Region(b).size <= s.at - HEADER
             \/ s.at + s.size <= Region(b).at - HEADER
  <2>1. PICK i \in 1 .. Len(old) : old[i].used /\ s = Region(old[i])
    BY OutHolds
  <2>2. i # k /\ old[i] \in Blocks
    BY <2>1, LaidWithin
  <2>3. EndOf(old[i]) <= old[k].at \/ EndOf(old[k]) <= old[i].at
    BY <2>2, RegionsApart
  <2>4. s.at = old[i].at + HEADER /\ s.size = old[i].size
    BY <2>1 DEF Region
  <2>5. s.at + s.size = EndOf(old[i]) /\ s.at - HEADER = old[i].at
    BY <2>2, <2>4, HeaderIsNatural DEF EndOf, Blocks
  <2>6. EndOf(old[i]) <= b.at \/ EndOf(b) <= old[i].at
    <3>1. EndOf(old[i]) \in Nat /\ EndOf(old[k]) \in Nat /\ EndOf(b) \in Nat /\ old[i].at \in Nat
      BY <1>3, <2>2, EndIsBehind
    <3> QED  BY <2>3, <3>1
  <2> QED  BY <2>5, <2>6, <1>2
<1> QED  BY <1>2, <1>4, <1>5, <1>6

(* malloc gives a region out. *)
LEMMA MallocGives ==
  ASSUME HeapInv, NEW n \in Sizes, Malloc(n)
  PROVE  HeapInv' /\ Promise!Give(n)
<1>1. Laid(List, HEAP_SIZE) /\ Apart(List) /\ Out(List) = live
  BY ListIsLaid, LiveIsOut
<1>2. PICK k \in DOMAIN List :
        /\ n > 0 /\ Fits(List[k], n)
        /\ free_list' = Splice(List, k, Split(List[k], n))
        /\ granted' = [asked |-> n, ptr |-> List[k].at + HEADER]
  BY DEF Malloc, Splice
<1> DEFINE mid == Split(List[k], n)
<1>3. k \in 1 .. Len(List) /\ List \in Seq(Blocks) /\ List[k] \in Blocks
  <2>1. List \in Seq(Blocks)
    BY <1>1 DEF Laid
  <2> QED  BY <2>1
<1>4. n \in Int /\ ~List[k].used /\ List[k].size >= n /\ n > 0
  BY <1>2, HeaderIsNatural DEF Fits
<1>5. Divides(mid, List[k]) /\ mid[1].size \in n .. n + HEADER
  BY <1>3, <1>4, SplitDivides
<1> HIDE DEF mid
<1>6. /\ Laid(free_list', HEAP_SIZE) /\ Apart(free_list') /\ free_list' # <<>>
      /\ \A r : r \in Out(free_list') <=> r \in Out(List) \/ r = Region(mid[1])
  <2>1. free_list' = Splice(List, k, mid)
    BY <1>2 DEF mid
  <2> QED  BY <2>1, <1>1, <1>3, <1>4, <1>5, SplitLaid
<1>7. HeapInv'
  BY <1>6 DEF HeapInv
<1>8. mid[1] \in Blocks /\ mid[1].at = List[k].at /\ EndOf(mid[1]) <= EndOf(List[k])
      /\ mid[1].size >= 1
  <2>1. mid[1] \in Blocks /\ mid[1].at = List[k].at
    BY <1>5 DEF Divides
  <2>2. CASE Len(mid) = 1
    BY <2>1, <2>2, <1>3, <1>5, HeaderIsNatural DEF Divides, EndOf, Blocks
  <2>3. CASE Len(mid) = 2
    <3>1. mid[2] \in Blocks /\ EndOf(mid[1]) = mid[2].at /\ EndOf(mid[2]) = EndOf(List[k])
      <4>1. Len(mid) # 1 /\ 2 \in 1 .. Len(mid) /\ mid \in Seq(Blocks)
        BY <1>5, <2>3 DEF Divides
      <4> QED  BY <4>1, <1>5 DEF Divides
    <3>2. /\ mid[2].at < EndOf(mid[2]) /\ mid[1].size \in Nat /\ mid[1].size >= 1
          /\ mid[2].at \in Nat /\ EndOf(mid[2]) \in Nat
      BY <2>1, <3>1, HeaderIsNatural DEF EndOf, Blocks
    <3> QED  BY <2>1, <3>1, <3>2
  <2> QED  BY <2>1, <2>2, <2>3, <1>5 DEF Divides
<1> DEFINE r == Region(mid[1])
<1>9. /\ r \in Promise!Regions /\ r.at + r.size <= HEAP_SIZE
      /\ \A s \in Out(List) : r.at + r.size <= s.at - HEADER \/ s.at + s.size <= r.at - HEADER
  BY <1>1, <1>3, <1>4, <1>8, GivenIsClear
<1>10. r.size \in n .. n + HEADER /\ r.at = List[k].at + HEADER
  BY <1>5, <1>8 DEF Region
<1>11. live' = live \cup {r}
  <2>1. live' = Out(free_list')
    BY LiveIsOut
  <2>2. \A x : x \in live' <=> x \in live \/ x = r
    BY <2>1, <1>1, <1>6
  <2> HIDE DEF r
  <2> QED  BY <2>2
<1>12. granted' = [asked |-> n, ptr |-> r.at]
  BY <1>2, <1>10
<1> HIDE DEF r
<1>13. Promise!Clear(r)
  BY <1>1, <1>9 DEF Promise!Clear, Promise!Start, Promise!End
<1> QED  BY <1>4, <1>7, <1>9, <1>10, <1>11, <1>12, <1>13 DEF Promise!Give

(* A region that is clear of all that are out lies inside one free block:    *)
(* the one its header begins in is free, and the next one is not.            *)
LEMMA ClearFits ==
  ASSUME NEW list, Laid(list, HEAP_SIZE), Apart(list), list # <<>>,
         NEW a \in Nat, NEW n \in Nat, n > 0, a >= HEADER, a + n <= HEAP_SIZE,
         \A s \in Out(list) : a + n <= s.at - HEADER \/ s.at + s.size <= a - HEADER
  PROVE  \E k \in 1 .. Len(list) : Fits(list[k], n)
<1>1. list \in Seq(Blocks) /\ Len(list) \in Nat /\ 1 \in 1 .. Len(list) /\ list[1].at = 0
  BY DEF Laid
<1>2. \A i \in 1 .. Len(list) : list[i] \in Blocks
  BY <1>1
<1> DEFINE Begun == {i \in 1 .. Len(list) : list[i].at <= a - HEADER}
<1>3. PICK j \in Begun : \A i \in Begun : j >= i
  <2>1. 1 \in Begun
    BY <1>1, HeaderIsNatural
  <2>2. Begun \in SUBSET (0 .. Len(list)) /\ Begun # {}
    BY <2>1
  <2> HIDE DEF Begun
  <2> QED  BY <1>1, <2>2, GreatestExists
<1>4. j \in 1 .. Len(list) /\ list[j].at <= a - HEADER /\ list[j] \in Blocks
  BY <1>2
<1>5. ASSUME NEW i \in 1 .. Len(list), list[i].used
      PROVE  a + n <= list[i].at \/ EndOf(list[i]) <= a - HEADER
  <2>1. Region(list[i]) \in Out(list)
    BY <1>1, <1>5, OutHolds
  <2>2. a + n <= Region(list[i]).at - HEADER \/ Region(list[i]).at + Region(list[i]).size <= a - HEADER
    BY <2>1
  <2>3. Region(list[i]).at = list[i].at + HEADER /\ Region(list[i]).size = list[i].size
    BY DEF Region
  <2> QED  BY <2>2, <2>3, <1>2, HeaderIsNatural DEF EndOf, Blocks
<1>6. EndOf(list[j]) > a - HEADER
  <2>1. CASE j = Len(list)
    <3>1. EndOf(list[j]) = HEAP_SIZE
      BY <2>1 DEF Laid
    <3> QED  BY <3>1, HeaderIsNatural
  <2>2. CASE j # Len(list)
    <3>1. j \in 1 .. Len(list) - 1 /\ j + 1 \in 1 .. Len(list) /\ ~(j >= j + 1)
      BY <2>2, <1>1, <1>4
    <3>2. j + 1 \notin Begun
      BY <3>1, <1>3
    <3>3. list[j + 1].at > a - HEADER
      BY <3>1, <3>2, <1>2, HeaderIsNatural DEF Blocks
    <3>4. EndOf(list[j]) = list[j + 1].at
      BY <3>1 DEF Laid
    <3> QED  BY <3>3, <3>4
  <2> QED  BY <2>1, <2>2
<1>7. ~list[j].used
  <2>1. SUFFICES ASSUME list[j].used  PROVE FALSE
    OBVIOUS
  <2>2. a + n <= list[j].at \/ EndOf(list[j]) <= a - HEADER
    BY <2>1, <1>4, <1>5
  <2> QED  BY <2>2, <1>4, <1>6, EndIsBehind, HeaderIsNatural
<1>8. a + n <= EndOf(list[j])
  <2>1. CASE j = Len(list)
    <3>1. EndOf(list[j]) = HEAP_SIZE
      BY <2>1 DEF Laid
    <3> QED  BY <3>1
  <2>2. CASE j # Len(list)
    <3>1. j \in 1 .. Len(list) - 1 /\ j + 1 \in 1 .. Len(list)
      BY <2>2, <1>1, <1>4
    <3>2. EndOf(list[j]) = list[j + 1].at /\ list[j + 1].used /\ list[j + 1] \in Blocks
      BY <3>1, <1>7, <1>2 DEF Laid, Apart
    <3>3. a + n <= list[j + 1].at \/ EndOf(list[j + 1]) <= a - HEADER
      BY <3>1, <3>2, <1>5
    <3>4. EndOf(list[j + 1]) > list[j + 1].at /\ list[j + 1].at \in Nat /\ EndOf(list[j + 1]) \in Nat
      BY <3>2, EndIsBehind, HeaderIsNatural
    <3> QED  BY <3>2, <3>3, <3>4, <1>6, HeaderIsNatural
  <2> QED  BY <2>1, <2>2
<1>9. list[j].size >= n
  BY <1>4, <1>8, HeaderIsNatural DEF EndOf, Blocks
<1> QED  BY <1>4, <1>7, <1>9 DEF Fits

(* malloc refuses only when no gap is large enough. *)
LEMMA MallocRefuses ==
  ASSUME HeapInv, NEW n \in Sizes, MallocFails(n)
  PROVE  HeapInv' /\ Promise!Refuse(n)
<1>1. Laid(List, HEAP_SIZE) /\ Apart(List) /\ Out(List) = live /\ List # <<>>
  BY ListIsLaid, LiveIsOut
<1>2. free_list' = List /\ granted' = [asked |-> n, ptr |-> NULL]
  BY DEF MallocFails
<1>3. HeapInv' /\ live' = live
  BY <1>1, <1>2, LiveIsOut DEF HeapInv
<1>4. ASSUME n > 0, NEW a \in HEADER .. HEAP_SIZE, Promise!Clear([at |-> a, size |-> n])
      PROVE  FALSE
  <2>1. a \in Nat /\ n \in Nat /\ a >= HEADER
    BY <1>4, HeaderIsNatural
  <2>2. a + n <= HEAP_SIZE
        /\ \A s \in live : a + n <= s.at - HEADER \/ s.at + s.size <= a - HEADER
    BY <1>4 DEF Promise!Clear, Promise!Start, Promise!End
  <2>3. \E k \in 1 .. Len(List) : Fits(List[k], n)
    BY <1>1, <1>4, <2>1, <2>2, ClearFits
  <2>4. DOMAIN List = 1 .. Len(List)
    BY <1>1 DEF Laid
  <2> QED  BY <1>4, <2>3, <2>4 DEF MallocFails
<1> QED  BY <1>2, <1>3, <1>4 DEF Promise!Refuse, NULL, Promise!NULL

(* free takes back the region of the block it is called with, and no other.  *)
LEMMA FreeTakesBack ==
  ASSUME HeapInv, Free
  PROVE  HeapInv' /\ Promise!TakeBack
<1>1. PICK k \in DOMAIN free_list :
        free_list[k].used /\ free_list' = Joined([free_list EXCEPT ![k].used = FALSE])
  BY DEF Free
<1> DEFINE back == [free_list EXCEPT ![k].used = FALSE]
           M == Len(free_list)
<1>2. free_list # <<>>
  BY <1>1
<1>3. Laid(free_list, HEAP_SIZE) /\ free_list \in Seq(Blocks)
  BY <1>2 DEF HeapInv, Laid
<1>4. k \in 1 .. M /\ free_list[k] \in Blocks /\ M \in Nat
  BY <1>1, <1>3
<1>5. /\ back \in Seq(Blocks) /\ Len(back) = M
      /\ \A i \in 1 .. M : back[i].at = free_list[i].at /\ EndOf(back[i]) = EndOf(free_list[i])
      /\ \A i \in 1 .. M : i # k => back[i] = free_list[i]
      /\ ~back[k].used
  <2> DEFINE b == [at |-> free_list[k].at, size |-> free_list[k].size, used |-> FALSE]
  <2>1. [free_list[k] EXCEPT !.used = FALSE] = b
    BY <1>4, BlockSetUsed
  <2>2. b \in Blocks /\ b.at = free_list[k].at /\ EndOf(b) = EndOf(free_list[k]) /\ ~b.used
    BY <1>4 DEF Blocks, EndOf
  <2>3. back = [free_list EXCEPT ![k] = b]
    BY <2>1
  <2> HIDE DEF back, b
  <2>4. /\ back \in Seq(Blocks) /\ Len(back) = M /\ back[k] = b
        /\ \A i \in 1 .. M : i # k => back[i] = free_list[i]
    BY <1>3, <1>4, <2>2, <2>3
  <2> QED  BY <2>2, <2>4
<1> HIDE DEF back
<1>6. Laid(back, HEAP_SIZE)
  <2>1. M \in 1 .. M /\ 1 \in 1 .. M /\ back # <<>>
    BY <1>4, <1>5
  <2>2. back[1].at = 0 /\ EndOf(back[M]) = HEAP_SIZE
    BY <2>1, <1>2, <1>3, <1>5 DEF Laid
  <2>3. ASSUME NEW i \in 1 .. M - 1
        PROVE  EndOf(back[i]) = back[i + 1].at
    <3>1. i \in 1 .. M /\ i + 1 \in 1 .. M
      BY <1>4
    <3>2. EndOf(free_list[i]) = free_list[i + 1].at
      BY <1>3 DEF Laid
    <3> QED  BY <3>1, <3>2, <1>5
  <2> QED  BY <1>5, <2>1, <2>2, <2>3 DEF Laid
<1>7. /\ Laid(free_list', HEAP_SIZE) /\ Apart(free_list')
      /\ \A r : r \in Out(free_list') <=> r \in Out(back)
  <2>1. free_list' = Joined(back)
    BY <1>1 DEF back
  <2> QED  BY <2>1, <1>6, JoinedLaid
<1>8. HeapInv'
  BY <1>7 DEF HeapInv
<1> DEFINE gone == Region(free_list[k])
<1>9. ASSUME NEW r
      PROVE  r \in Out(back) <=> r \in Out(free_list) /\ r # gone
  <2>1. r \in Out(back) <=> \E i \in 1 .. M : back[i].used /\ r = Region(back[i])
    BY <1>5, OutHolds
  <2>2. r \in Out(free_list) <=> \E i \in 1 .. M : free_list[i].used /\ r = Region(free_list[i])
    BY <1>3, OutHolds
  <2>3. \A i \in 1 .. M : i # k => Region(free_list[i]) # gone
    BY <1>3, <1>4, RegionsApart
  <2>4. ASSUME NEW i \in 1 .. M, back[i].used, r = Region(back[i])
        PROVE  r \in Out(free_list) /\ r # gone
    <3>1. i # k
      BY <2>4, <1>5
    <3>2. back[i] = free_list[i]
      BY <3>1, <1>5
    <3> QED  BY <3>1, <3>2, <2>2, <2>3, <2>4
  <2>5. ASSUME NEW i \in 1 .. M, free_list[i].used, r = Region(free_list[i]), r # gone
        PROVE  r \in Out(back)
    <3>1. i # k
      BY <2>5
    <3>2. back[i] = free_list[i]
      BY <3>1, <1>5
    <3> QED  BY <3>2, <2>1, <2>5
  <2> QED  BY <2>1, <2>2, <2>4, <2>5
<1>10. gone \in live /\ live' = live \ {gone}
  <2>1. gone \in Out(free_list)
    BY <1>1, <1>3, <1>4, OutHolds
  <2>2. \A x : x \in live' <=> x \in live /\ x # gone
    BY <1>7, <1>9, LiveIsOut
  <2> HIDE DEF gone
  <2> QED  BY <2>1, <2>2, LiveIsOut
<1> HIDE DEF gone
<1>11. granted' = granted
  BY DEF Free
<1> QED  BY <1>8, <1>10, <1>11 DEF Promise!TakeBack

-----------------------------------------------------------------------------
(* Theorems                                                                 *)

LEMMA HeapStep ==
  ASSUME HeapInv, [HeapNext]_heapVars
  PROVE  HeapInv' /\ [Promise!Next]_<<live, granted>>
<1>1. CASE \E n \in Sizes : Malloc(n)
  BY <1>1, MallocGives DEF Promise!Next
<1>2. CASE \E n \in Sizes : MallocFails(n)
  BY <1>2, MallocRefuses DEF Promise!Next
<1>3. CASE Free
  BY <1>3, FreeTakesBack DEF Promise!Next
<1>4. CASE UNCHANGED heapVars
  BY <1>4 DEF heapVars, HeapInv, live
<1> QED  BY <1>1, <1>2, <1>3, <1>4 DEF HeapNext

LEMMA HeapInvariant == HeapSpec => []HeapInv
<1>1. HeapInit => HeapInv
  BY DEF HeapInit, HeapInv
<1> QED  BY <1>1, HeapStep, PTL DEF HeapSpec

(* The blocks tile the heap from end to end: BlocksTile. *)
THEOREM HeapIsTiled == HeapSpec => []BlocksTile
<1>1. HeapInv => BlocksTile
  <2>1. SUFFICES ASSUME HeapInv, free_list # <<>>
                 PROVE  /\ free_list[1].at = 0
                        /\ \A k \in DOMAIN free_list :
                             /\ free_list[k].size > 0
                             /\ free_list[k].at + HEADER + free_list[k].size =
                                  IF k = Len(free_list) THEN HEAP_SIZE ELSE free_list[k + 1].at
    BY DEF BlocksTile
  <2>2. Laid(free_list, HEAP_SIZE) /\ free_list \in Seq(Blocks)
    BY <2>1 DEF HeapInv, Laid
  <2>3. ASSUME NEW k \in DOMAIN free_list
        PROVE  /\ free_list[k].size > 0
               /\ EndOf(free_list[k]) =
                    IF k = Len(free_list) THEN HEAP_SIZE ELSE free_list[k + 1].at
    <3>1. k \in 1 .. Len(free_list) /\ free_list[k] \in Blocks /\ Len(free_list) \in Nat
      BY <2>2
    <3>2. free_list[k].size > 0
      BY <3>1 DEF Blocks
    <3>3. k # Len(free_list) => k \in 1 .. Len(free_list) - 1
      BY <3>1
    <3> QED  BY <3>2, <3>3, <2>1, <2>2 DEF Laid
  <2> QED  BY <2>1, <2>2, <2>3 DEF Laid, EndOf
<1> QED  BY <1>1, HeapInvariant, PTL

(* Between calls no two neighbours are both free: FreeIsJoined. *)
THEOREM HeapIsJoined == HeapSpec => []FreeIsJoined
<1>1. HeapInv => FreeIsJoined
  <2>1. CASE free_list = <<>>
    <3>1. 1 .. Len(free_list) - 1 = {}
      BY <2>1
    <3> QED  BY <3>1 DEF FreeIsJoined
  <2>2. CASE free_list # <<>>
    BY <2>2 DEF HeapInv, Apart, FreeIsJoined
  <2> QED  BY <2>1, <2>2
<1> QED  BY <1>1, HeapInvariant, PTL

(* malloc and free do what Allocator says: IsAllocator. *)
THEOREM HeapIsAllocator == HeapSpec => IsAllocator
<1>1. HeapInit => Promise!Init
  <2>1. SUFFICES ASSUME HeapInit  PROVE live = {} /\ granted = [asked |-> 0, ptr |-> NULL]
    BY DEF Promise!Init, NULL, Promise!NULL
  <2>2. DOMAIN free_list = {}
    BY <2>1 DEF HeapInit
  <2> QED  BY <2>1, <2>2 DEF HeapInit, live
<1>2. HeapInv /\ [HeapNext]_heapVars => [Promise!Next]_<<live, granted>>
  BY HeapStep
<1> QED  BY <1>1, <1>2, HeapInvariant, PTL DEF HeapSpec, IsAllocator, Promise!Spec

-----------------------------------------------------------------------------
(* The variables of the shell                                               *)

Entry == [name : Names, value : Values]

(* An array in which no name is twice, so that the first hit is the only one. *)
Array(a) ==
  /\ a \in Seq(Entry)
  /\ Len(a) <= MAX_VARS
  /\ \A i, j \in DOMAIN a : a[i].name = a[j].name => i = j

(* What find_var and the commands make of an array a. *)
HitsIn(a, n) == {i \in DOMAIN a : a[i].name = n}
Look(a, n)   == IF HitsIn(a, n) = {} THEN Undefined ELSE a[Min(HitsIn(a, n))].value
NamesOf(a)   == {a[i].name : i \in DOMAIN a}
MapOf(a)     == [n \in NamesOf(a) |-> Look(a, n)]

LEMMA ArrayFacts ==
  ASSUME NEW a, Array(a)
  PROVE  /\ Len(a) \in Nat /\ DOMAIN a = 1 .. Len(a)
         /\ \A i \in DOMAIN a : a[i] \in Entry /\ a[i].name \in Names /\ i \in Nat
<1>1. a \in Seq(Entry)
  BY DEF Array
<1>2. /\ Len(a) \in Nat /\ DOMAIN a = 1 .. Len(a)
      /\ \A i \in 1 .. Len(a) : a[i] \in Entry
  BY <1>1
<1>3. \A e \in Entry : e.name \in Names
  BY DEF Entry
<1> QED  BY <1>2, <1>3

LEMMA HitIsOnly ==
  ASSUME NEW a, Array(a), NEW i \in DOMAIN a
  PROVE  /\ HitsIn(a, a[i].name) = {i} /\ Min(HitsIn(a, a[i].name)) = i
         /\ Look(a, a[i].name) = a[i].value
<1>1. HitsIn(a, a[i].name) = {i}
  BY DEF HitsIn, Array
<1>2. i \in Nat
  BY ArrayFacts
<1>3. Min({i}) = i
  BY <1>2 DEF Min
<1> QED  BY <1>1, <1>3 DEF Look

LEMMA MapFacts ==
  ASSUME NEW a, Array(a)
  PROVE  /\ \A i \in DOMAIN a : a[i].name \in NamesOf(a) /\ MapOf(a)[a[i].name] = a[i].value
         /\ \A n \in NamesOf(a) : \E i \in DOMAIN a : a[i].name = n
         /\ DOMAIN MapOf(a) = NamesOf(a)
         /\ \A n : n \in NamesOf(a) <=> HitsIn(a, n) # {}
<1>1. \A i \in DOMAIN a : a[i].name \in NamesOf(a)
  BY DEF NamesOf
<1>2. \A n : n \in NamesOf(a) <=> HitsIn(a, n) # {}
  BY DEF NamesOf, HitsIn
<1>3. \A n \in NamesOf(a) : \E i \in DOMAIN a : a[i].name = n
  BY DEF NamesOf
<1>4. \A i \in DOMAIN a : Look(a, a[i].name) = a[i].value
  BY HitIsOnly
<1> QED  BY <1>1, <1>2, <1>3, <1>4 DEF MapOf

(* A map is what it gives for the name of each entry.                        *)
LEMMA MapIs ==
  ASSUME NEW a, Array(a), NEW F, F = [n \in NamesOf(a) |-> F[n]],
         \A i \in DOMAIN a : F[a[i].name] = a[i].value
  PROVE  MapOf(a) = F
<1>1. \A n \in NamesOf(a) : F[n] = MapOf(a)[n]
  BY MapFacts
<1>2. MapOf(a) = [n \in NamesOf(a) |-> MapOf(a)[n]]
  BY DEF MapOf
<1> QED  BY <1>1, <1>2

(* The array is as long as it has names.                                     *)
LEMMA AsLongAsNames ==
  ASSUME NEW a, Array(a)
  PROVE  Cardinality(NamesOf(a)) = Len(a)
<1> DEFINE f == [i \in 1 .. Len(a) |-> a[i].name]
<1>1. Len(a) \in Nat /\ DOMAIN a = 1 .. Len(a)
  BY ArrayFacts
<1>2. f \in Bijection(1 .. Len(a), NamesOf(a))
  <2>1. f \in [1 .. Len(a) -> NamesOf(a)]
    BY <1>1 DEF NamesOf
  <2>2. f \in Injection(1 .. Len(a), NamesOf(a))
    BY <1>1, <2>1 DEF Injection, IsInjective, Array
  <2>3. f \in Surjection(1 .. Len(a), NamesOf(a))
    BY <1>1, <2>1 DEF Surjection, NamesOf
  <2> QED  BY <2>2, <2>3 DEF Bijection
<1>3. 1 \in Int /\ Len(a) \in Int /\ (1 > Len(a) => Len(a) = 0) /\ Len(a) - 1 + 1 = Len(a)
  BY <1>1
<1>4. IsFiniteSet(1 .. Len(a)) /\ Cardinality(1 .. Len(a)) = Len(a)
  BY <1>3, FS_Interval
<1> QED  BY <1>2, <1>4, FS_Bijection DEF ExistsBijection

-----------------------------------------------------------------------------
(* The array after each command                                              *)

Put(f, S, n, v) == [x \in S \cup {n} |-> IF x = n THEN v ELSE f[x]]

LEMMA Replaced ==
  ASSUME NEW a, Array(a), NEW h \in DOMAIN a, NEW e \in Entry, e.name = a[h].name
  PROVE  LET b == [a EXCEPT ![h] = e] IN
         Array(b) /\ MapOf(b) = Put(MapOf(a), NamesOf(a), e.name, e.value)
<1> DEFINE b == [a EXCEPT ![h] = e]
           F == Put(MapOf(a), NamesOf(a), e.name, e.value)
<1>1. a \in Seq(Entry)
  BY DEF Array
<1>2. b \in Seq(Entry) /\ Len(b) = Len(a) /\ DOMAIN b = DOMAIN a
  BY <1>1
<1>3. b[h] = e /\ \A i \in DOMAIN a : i # h => b[i] = a[i]
  BY <1>1
<1> HIDE DEF b
<1>4. \A i \in DOMAIN a : b[i].name = a[i].name
  BY <1>3
<1>5. Array(b)
  BY <1>2, <1>4 DEF Array
<1>6. NamesOf(b) = NamesOf(a) \cup {e.name}
  BY <1>2, <1>4 DEF NamesOf
<1>7. \A i \in DOMAIN b : F[b[i].name] = b[i].value
  <2> SUFFICES ASSUME NEW i \in DOMAIN b  PROVE F[b[i].name] = b[i].value
    OBVIOUS
  <2>1. CASE i = h
    BY <1>3, <2>1 DEF Put
  <2>2. CASE i # h
    <3>1. b[i] = a[i] /\ a[i].name # e.name
      BY <1>2, <1>3, <2>2 DEF Array
    <3>2. MapOf(a)[a[i].name] = a[i].value /\ a[i].name \in NamesOf(a)
      BY <1>2, MapFacts
    <3> QED  BY <3>1, <3>2 DEF Put
  <2> QED  BY <2>1, <2>2
<1>8. F = [x \in NamesOf(b) |-> F[x]]
  BY <1>6 DEF Put
<1> HIDE DEF F
<1>9. MapOf(b) = F
  BY <1>5, <1>7, <1>8, MapIs
<1> QED  BY <1>5, <1>9 DEF b, F

LEMMA Added ==
  ASSUME NEW a, Array(a), Len(a) < MAX_VARS, NEW e \in Entry, e.name \notin NamesOf(a)
  PROVE  LET b == Append(a, e) IN
         Array(b) /\ MapOf(b) = Put(MapOf(a), NamesOf(a), e.name, e.value)
<1> DEFINE b == Append(a, e)
           F == Put(MapOf(a), NamesOf(a), e.name, e.value)
<1>1. a \in Seq(Entry) /\ Len(a) \in Nat /\ DOMAIN a = 1 .. Len(a) /\ MAX_VARS \in Nat
  BY ArrayFacts, VariablesAssumption DEF Array
<1>2. /\ b \in Seq(Entry) /\ Len(b) = Len(a) + 1 /\ DOMAIN b = 1 .. Len(a) + 1
      /\ \A i \in DOMAIN a : b[i] = a[i]
      /\ b[Len(a) + 1] = e
  BY <1>1
<1> HIDE DEF b
<1>3. \A i \in DOMAIN b : i \in DOMAIN a \/ i = Len(a) + 1
  BY <1>1, <1>2
<1>4. \A i \in DOMAIN a : a[i].name # e.name /\ i \in DOMAIN b
  BY <1>1, <1>2 DEF NamesOf
<1>5. Array(b)
  <2>1. ASSUME NEW i \in DOMAIN b, NEW j \in DOMAIN b, b[i].name = b[j].name  PROVE i = j
    BY <1>2, <1>3, <1>4, <2>1 DEF Array
  <2> QED  BY <1>1, <1>2, <2>1 DEF Array
<1>6. NamesOf(b) = NamesOf(a) \cup {e.name}
  <2>1. Len(a) + 1 \in DOMAIN b
    BY <1>1, <1>2
  <2> QED  BY <1>2, <1>3, <1>4, <2>1 DEF NamesOf
<1>7. \A i \in DOMAIN b : F[b[i].name] = b[i].value
  <2> SUFFICES ASSUME NEW i \in DOMAIN b  PROVE F[b[i].name] = b[i].value
    OBVIOUS
  <2>1. CASE i = Len(a) + 1
    BY <1>2, <2>1 DEF Put
  <2>2. CASE i \in DOMAIN a
    <3>1. b[i] = a[i] /\ a[i].name # e.name
      BY <1>2, <1>4, <2>2
    <3>2. MapOf(a)[a[i].name] = a[i].value /\ a[i].name \in NamesOf(a)
      BY <2>2, MapFacts
    <3> QED  BY <3>1, <3>2 DEF Put
  <2> QED  BY <1>3, <2>1, <2>2
<1>8. F = [x \in NamesOf(b) |-> F[x]]
  BY <1>6 DEF Put
<1> HIDE DEF F
<1>9. MapOf(b) = F
  BY <1>5, <1>7, <1>8, MapIs
<1> QED  BY <1>5, <1>9 DEF b, F

(* RemoveAt, element by element.                                             *)
LEMMA RemoveAtFacts ==
  ASSUME NEW S, NEW a \in Seq(S), NEW h \in 1 .. Len(a)
  PROVE  LET b == RemoveAt(a, h) IN
         /\ b \in Seq(S) /\ Len(b) = Len(a) - 1
         /\ \A k \in 1 .. Len(a) - 1 : b[k] = IF k < h THEN a[k] ELSE a[k + 1]
<1> DEFINE n == Len(a)
           l == SubSeq(a, 1, h - 1)
           r == SubSeq(a, h + 1, n)
           b == RemoveAt(a, h)
<1>1. n \in Nat /\ h \in 1 .. n
  OBVIOUS
<1>2. l \in Seq(S) /\ Len(l) = h - 1 /\ \A k \in 1 .. h - 1 : l[k] = a[k]
  BY <1>1
<1>3. r \in Seq(S) /\ Len(r) = n - h /\ \A k \in 1 .. n - h : r[k] = a[h + k]
  BY <1>1
<1>4. b = l \o r
  BY DEF RemoveAt
<1> HIDE DEF l, r, b
<1>5. b \in Seq(S) /\ Len(b) = n - 1
  BY <1>1, <1>2, <1>3, <1>4
<1>6. ASSUME NEW k \in 1 .. n - 1  PROVE b[k] = IF k < h THEN a[k] ELSE a[k + 1]
  <2>1. k \in 1 .. Len(l) + Len(r)
    BY <1>1, <1>2, <1>3
  <2>2. b[k] = IF k <= Len(l) THEN l[k] ELSE r[k - Len(l)]
    BY <1>2, <1>3, <1>4, <2>1, ConcatProperties
  <2>3. CASE k < h
    <3>1. k \in 1 .. h - 1 /\ k <= h - 1
      BY <1>1, <2>3
    <3> QED  BY <1>2, <2>2, <2>3, <3>1
  <2>4. CASE ~(k < h)
    <3>1. k - (h - 1) \in 1 .. n - h /\ h + (k - (h - 1)) = k + 1 /\ ~(k <= h - 1)
      BY <1>1, <2>4
    <3> QED  BY <1>2, <1>3, <2>2, <2>4, <3>1
  <2> QED  BY <2>3, <2>4
<1> QED  BY <1>5, <1>6 DEF b

LEMMA TakenOut ==
  ASSUME NEW a, Array(a), NEW h \in DOMAIN a
  PROVE  LET b == RemoveAt(a, h) IN
         /\ Array(b)
         /\ MapOf(b) = [x \in NamesOf(a) \ {a[h].name} |-> MapOf(a)[x]]
<1> DEFINE b == RemoveAt(a, h)
           n == Len(a)
           S == NamesOf(a) \ {a[h].name}
           F == [x \in S |-> MapOf(a)[x]]
           From(k) == IF k < h THEN k ELSE k + 1
<1>1. a \in Seq(Entry) /\ n \in Nat /\ DOMAIN a = 1 .. n /\ h \in 1 .. n /\ MAX_VARS \in Nat
  BY ArrayFacts, VariablesAssumption DEF Array
<1>2. /\ b \in Seq(Entry) /\ Len(b) = n - 1 /\ DOMAIN b = 1 .. n - 1
      /\ \A k \in 1 .. n - 1 : b[k] = IF k < h THEN a[k] ELSE a[k + 1]
  <2>1. /\ b \in Seq(Entry) /\ Len(b) = Len(a) - 1
        /\ \A k \in 1 .. Len(a) - 1 : b[k] = IF k < h THEN a[k] ELSE a[k + 1]
    BY <1>1, RemoveAtFacts
  <2> HIDE DEF b
  <2>2. DOMAIN b = 1 .. Len(b)
    BY <2>1
  <2> QED  BY <2>1, <2>2
<1> HIDE DEF b
<1>3. n <= MAX_VARS
  BY DEF Array
<1> HIDE DEF n
<1>4. \A k \in DOMAIN b : b[k] = a[From(k)] /\ From(k) \in DOMAIN a /\ From(k) # h
  BY <1>1, <1>2
<1>5. \A j, k \in DOMAIN b : From(j) = From(k) => j = k
  BY <1>1, <1>2
<1>6. \A i \in DOMAIN a : i # h => \E k \in DOMAIN b : From(k) = i
  <2> SUFFICES ASSUME NEW i \in DOMAIN a, i # h  PROVE \E k \in DOMAIN b : From(k) = i
    OBVIOUS
  <2>1. CASE i < h
    <3>1. i \in DOMAIN b /\ From(i) = i
      BY <1>1, <1>2, <2>1
    <3> QED  BY <3>1
  <2>2. CASE i > h
    <3>1. i - 1 \in DOMAIN b /\ From(i - 1) = i
      BY <1>1, <1>2, <2>2
    <3> QED  BY <3>1
  <2> QED  BY <1>1, <2>1, <2>2
<1> HIDE DEF From
<1>7. Array(b)
  <2>1. ASSUME NEW j \in DOMAIN b, NEW k \in DOMAIN b, b[j].name = b[k].name  PROVE j = k
    <3>1. From(j) = From(k)
      BY <1>4, <2>1 DEF Array
    <3> QED  BY <1>5, <3>1
  <2>2. Len(b) <= MAX_VARS
    BY <1>1, <1>2, <1>3
  <2> QED  BY <1>2, <2>1, <2>2 DEF Array
<1>8. NamesOf(b) = S
  <2>1. ASSUME NEW k \in DOMAIN b  PROVE b[k].name \in S
    BY <1>4 DEF NamesOf, Array
  <2>2. ASSUME NEW x \in S  PROVE x \in NamesOf(b)
    <3>1. PICK i \in DOMAIN a : a[i].name = x /\ i # h
      BY DEF NamesOf
    <3>2. PICK k \in DOMAIN b : From(k) = i
      BY <1>6, <3>1
    <3>3. b[k].name = x
      BY <1>4, <3>1, <3>2
    <3> QED  BY <3>3 DEF NamesOf
  <2>3. \A x : x \in NamesOf(b) => \E k \in DOMAIN b : x = b[k].name
    BY DEF NamesOf
  <2> QED  BY <2>1, <2>2, <2>3
<1>9. \A k \in DOMAIN b : F[b[k].name] = b[k].value
  <2> SUFFICES ASSUME NEW k \in DOMAIN b  PROVE F[b[k].name] = b[k].value
    OBVIOUS
  <2>1. b[k].name \in NamesOf(b)
    BY DEF NamesOf
  <2>2. b[k] = a[From(k)] /\ From(k) \in DOMAIN a
    BY <1>4
  <2>3. MapOf(a)[a[From(k)].name] = a[From(k)].value
    BY <2>2, MapFacts
  <2> QED  BY <1>8, <2>1, <2>2, <2>3
<1>10. F = [x \in NamesOf(b) |-> F[x]]
  BY <1>8
<1> HIDE DEF F
<1>11. MapOf(b) = F
  BY <1>7, <1>9, <1>10, MapIs
<1> QED  BY <1>7, <1>11 DEF b, F

-----------------------------------------------------------------------------
(* The refinement                                                            *)

VarInv == Array(vars)

StoreMap  == [n \in Known |-> ValueOf(n)]
LastReply == IF answer.did \in {"var", "delete", "echo"} THEN answer ELSE Silent

LEMMA MapOfVars ==
  /\ Known = NamesOf(vars) /\ StoreMap = MapOf(vars)
  /\ \A n : Hits(n) = HitsIn(vars, n) /\ ValueOf(n) = Look(vars, n)
BY DEF Known, NamesOf, StoreMap, MapOf, Hits, HitsIn, ValueOf, Look

LEMMA NextMap == StoreMap' = MapOf(vars')
BY DEF StoreMap, MapOf, Known, NamesOf, ValueOf, Look, Hits, HitsIn

LEMMA SameCardinality == \A S : Store!Cardinality(S) = Cardinality(S)
BY DEF Store!Cardinality, Cardinality

LEMMA SetIsSet ==
  ASSUME VarInv, NEW n \in Names, NEW l \in Literals, SetVar(n, l)
  PROVE  VarInv' /\ Store!Set(Kept[n], Stored(l))
<1> DEFINE name == Kept[n]
           e == [name |-> name, value |-> Stored(l)]
<1>1. name \in Names /\ Stored(l) \in Values
  BY VariablesAssumption DEF Values
<1>2. e \in Entry /\ e.name = name /\ e.value = Stored(l)
  BY <1>1 DEF Entry
<1>3. LastReply' = [did |-> "var", name |-> name, value |-> Stored(l)]
  BY DEF SetVar, LastReply
<1>4. DOMAIN StoreMap = Known /\ Known = NamesOf(vars) /\ StoreMap = MapOf(vars)
  BY MapOfVars DEF StoreMap
<1> DEFINE After == IF name \notin Known /\ Cardinality(Known) = MAX_VARS THEN StoreMap
                    ELSE Put(StoreMap, Known, name, Stored(l))
<1>5. VarInv' /\ StoreMap' = After
  <2>1. CASE Hits(name) # {}
    <3>1. PICK h \in DOMAIN vars : vars[h].name = name
      BY <2>1 DEF Hits
    <3>2. Min(Hits(name)) = h
      BY <3>1, HitIsOnly, MapOfVars DEF VarInv
    <3>3. vars' = [vars EXCEPT ![h] = e]
      BY <2>1, <3>2 DEF SetVar
    <3>4. name \in Known
      BY <3>1 DEF Known
    <3>5. Array(vars') /\ MapOf(vars') = Put(MapOf(vars), NamesOf(vars), name, Stored(l))
      BY <1>2, <3>1, <3>3, Replaced DEF VarInv
    <3> QED  BY <1>4, <3>4, <3>5, NextMap DEF VarInv
  <2>2. CASE Hits(name) = {} /\ Len(vars) < MAX_VARS
    <3>1. vars' = Append(vars, e)
      BY <2>2 DEF SetVar
    <3>2. name \notin NamesOf(vars)
      BY <2>2, MapOfVars, MapFacts DEF VarInv
    <3>3. Array(vars') /\ MapOf(vars') = Put(MapOf(vars), NamesOf(vars), name, Stored(l))
      BY <1>2, <2>2, <3>1, <3>2, Added DEF VarInv
    <3>4. Cardinality(Known) # MAX_VARS
      <4>1. Cardinality(Known) = Len(vars)
        BY <1>4, AsLongAsNames DEF VarInv
      <4>2. Len(vars) \in Nat /\ MAX_VARS \in Nat
        BY ArrayFacts, VariablesAssumption DEF VarInv
      <4> QED  BY <2>2, <4>1, <4>2
    <3> QED  BY <1>4, <3>3, <3>4, NextMap DEF VarInv
  <2>3. CASE Hits(name) = {} /\ Len(vars) = MAX_VARS
    <3>1. vars' = vars
      BY <2>3, VariablesAssumption DEF SetVar
    <3>2. name \notin Known
      BY <2>3, MapOfVars, MapFacts DEF VarInv
    <3>3. Cardinality(Known) = MAX_VARS
      BY <1>4, <2>3, AsLongAsNames DEF VarInv
    <3> QED  BY <1>4, <3>1, <3>2, <3>3, NextMap DEF VarInv
  <2> QED  BY <2>1, <2>2, <2>3 DEF SetVar
<1>6. Store!Set(name, Stored(l)) <=>
        /\ LastReply' = [did |-> "var", name |-> name, value |-> Stored(l)]
        /\ StoreMap' = IF name \notin DOMAIN StoreMap /\ Cardinality(DOMAIN StoreMap) = MAX_VARS
                       THEN StoreMap
                       ELSE [x \in DOMAIN StoreMap \cup {name} |->
                               IF x = name THEN Stored(l) ELSE StoreMap[x]]
  BY SameCardinality DEF Store!Set, StoreMap, LastReply
<1>7. DOMAIN StoreMap = Known
  BY <1>4
<1> HIDE DEF name
<1> QED  BY <1>3, <1>5, <1>6, <1>7 DEF Put, name

LEMMA DeleteIsDelete ==
  ASSUME VarInv, NEW n \in Names, DeleteVar(n)
  PROVE  VarInv' /\ Store!Delete(n)
<1>1. LastReply' = [did |-> "delete", name |-> n]
  BY DEF DeleteVar, LastReply
<1>2. DOMAIN StoreMap = Known /\ Known = NamesOf(vars) /\ StoreMap = MapOf(vars)
  BY MapOfVars DEF StoreMap
<1>3. VarInv' /\ StoreMap' = [x \in Known \ {n} |-> StoreMap[x]]
  <2>1. CASE Hits(n) = {}
    <3>1. vars' = vars
      BY <2>1 DEF DeleteVar
    <3>2. Known \ {n} = Known
      BY <2>1, MapOfVars, MapFacts DEF VarInv
    <3>3. StoreMap = [x \in Known |-> StoreMap[x]]
      BY DEF StoreMap
    <3> QED  BY <1>2, <3>1, <3>2, <3>3, NextMap DEF VarInv
  <2>2. CASE Hits(n) # {}
    <3>1. PICK h \in DOMAIN vars : vars[h].name = n
      BY <2>2 DEF Hits
    <3>2. Min(Hits(n)) = h
      BY <3>1, HitIsOnly, MapOfVars DEF VarInv
    <3>3. vars' = RemoveAt(vars, h)
      BY <2>2, <3>2 DEF DeleteVar
    <3> QED  BY <1>2, <3>1, <3>3, TakenOut, NextMap DEF VarInv
  <2> QED  BY <2>1, <2>2
<1> QED  BY <1>1, <1>2, <1>3 DEF Store!Delete, StoreMap, LastReply

LEMMA EchoIsRead ==
  ASSUME VarInv, NEW n \in Names, Echo(n)
  PROVE  VarInv' /\ Store!Read(n)
<1>1. LastReply' = [did |-> "echo", name |-> n, value |-> ValueOf(n)] /\ vars' = vars
  BY DEF Echo, LastReply
<1>2. StoreMap' = StoreMap
  BY <1>1, MapOfVars, NextMap
<1>3. ValueOf(n) = IF n \in DOMAIN StoreMap THEN StoreMap[n] ELSE Undefined
  BY MapOfVars, MapFacts DEF VarInv, StoreMap, ValueOf
<1>4. Store!ValueOf(n) = ValueOf(n)
  BY <1>3 DEF Store!ValueOf, Store!Undefined, Undefined, StoreMap
<1> QED  BY <1>1, <1>2, <1>4 DEF Store!Read, StoreMap, LastReply, VarInv

(* The array of variables implements the store: IsStore, for a table of any  *)
(* size, whatever names are typed and however they are cut.                  *)
THEOREM VariablesAreAStore == VarSpec => IsStore
<1>1. VarInit => VarInv /\ Store!Init
  <2> SUFFICES ASSUME VarInit  PROVE VarInv /\ Store!Init
    OBVIOUS
  <2>1. vars = <<>> /\ answer = Silent
    BY DEF VarInit
  <2>2. Array(<<>>)
    BY VariablesAssumption DEF Array
  <2>3. StoreMap = <<>>
    BY <2>1 DEF StoreMap, Known
  <2>4. LastReply = Store!Silent
    BY <2>1 DEF LastReply, Silent, Store!Silent
  <2> QED  BY <2>1, <2>2, <2>3, <2>4 DEF VarInv, Store!Init, StoreMap, LastReply
<1>2. VarInv /\ [VarNext]_<<vars, answer>> => VarInv' /\ [Store!Next]_<<StoreMap, LastReply>>
  <2> SUFFICES ASSUME VarInv, [VarNext]_<<vars, answer>>
               PROVE  VarInv' /\ (Store!Next \/ UNCHANGED <<StoreMap, LastReply>>)
    OBVIOUS
  <2>1. ASSUME NEW n \in Names, NEW l \in Literals, SetVar(n, l)  PROVE VarInv' /\ Store!Next
    <3>1. Kept[n] \in Names /\ Stored(l) \in Values
      BY VariablesAssumption DEF Values
    <3> QED  BY <2>1, <3>1, SetIsSet DEF Store!Next
  <2>2. ASSUME NEW n \in Names, DeleteVar(n)  PROVE VarInv' /\ Store!Next
    BY <2>2, DeleteIsDelete DEF Store!Next
  <2>3. ASSUME NEW n \in Names, Echo(n)  PROVE VarInv' /\ Store!Next
    BY <2>3, EchoIsRead DEF Store!Next
  <2>4. CASE Another
    <3>1. vars' = vars /\ LastReply' = Silent
      BY <2>4 DEF Another, LastReply
    <3>2. StoreMap' = StoreMap
      BY <3>1, MapOfVars, NextMap
    <3> QED  BY <3>1, <3>2 DEF Store!Next, Store!Other, StoreMap, LastReply, Store!Silent, Silent, VarInv
  <2>5. CASE UNCHANGED <<vars, answer>>
    <3>1. StoreMap' = StoreMap
      BY <2>5, MapOfVars, NextMap
    <3> QED  BY <2>5, <3>1 DEF VarInv, LastReply
  <2> QED  BY <2>1, <2>2, <2>3, <2>4, <2>5 DEF VarNext
<1> QED  BY <1>1, <1>2, PTL DEF VarSpec, IsStore, Store!Spec, Store!vars, StoreMap, LastReply

(* The shell's commands on variables are the only ones that change them: its *)
(* array of variables is the store, whatever is calculated or assembled in   *)
(* between (console_func's commands).                                        *)
THEOREM ShellKeepsAStore == Spec => IsStore
<1>1. [Next]_<<vars, answer>> => [VarNext]_<<vars, answer>>
  <2>1. ASSUME NEW s, NEW m, Calculate(s, m)  PROVE Another
    BY <2>1 DEF Calculate, Another
  <2>2. ASSUME NEW i, Asm(i)  PROVE Another
    BY <2>2 DEF Asm, Another
  <2>3. ASSUME Prompt  PROVE Another
    BY <2>3 DEF Prompt, Another, Silent
  <2> QED  BY <2>1, <2>2, <2>3, Zenon DEF Next, Command, VarNext
<1>2. Spec => VarSpec
  BY <1>1, PTL DEF Spec, VarSpec, Init
<1> QED  BY <1>2, VariablesAreAStore, PTL

-----------------------------------------------------------------------------
(* Calculations: the parser of a line                                        *)

StepNames == Operands \cup Binary \cup {Sign, Missing}

Readings(s) == [steps : Seq(StepNames), next : 1 .. Len(s) + 1]

(* What the parts of a line are read as. *)
IsParser(s, of) ==
  /\ of \in [Parts(s) -> Readings(s)]
  /\ \A x \in Parts(s) : of[x] = Part(of, s, x) /\ x[3] <= of[x].next

(* How much of the line is left, and how many levels are below. *)
Left(s)  == [x \in Parts(s) |-> Len(s) + 1 - x[3]]
Below(s) == [x \in Parts(s) |-> IF x[1] = "rest" THEN 0 ELSE 5 - x[2]]

(* A part that stops before it begins, at its beginning instead. *)
Clamp(of, s) ==
  [x \in Parts(s) |-> IF x[3] <= of[x].next THEN of[x] ELSE [steps |-> <<>>, next |-> x[3]]]

LEMMA LevelFacts ==
  /\ FACTOR = 4 /\ 1 .. FACTOR = {1, 2, 3, 4}
  /\ Operators[1] = {"+", "-"} /\ Operators[2] = {"*", "/", "//", "%"}
  /\ Operators[3] = {"^"} /\ Operators[4] = {}
  /\ Binary = {"+", "-", "*", "/", "//", "%", "^"}
  /\ \A l \in 1 .. FACTOR : Operators[l] \subseteq Binary
  /\ END \notin Operands /\ END \notin Binary
  /\ \A w \in {"-", "(", ")", Sign, Missing} : w \notin Operands
<1>1. FACTOR = 4 /\ 1 .. 4 = {1, 2, 3, 4}
  BY DEF FACTOR
<1>2. /\ Operators[1] = {"+", "-"} /\ Operators[2] = {"*", "/", "//", "%"}
      /\ Operators[3] = {"^"} /\ Operators[4] = {}
  BY DEF Operators
<1>3. Binary = Operators[1] \cup Operators[2] \cup Operators[3] \cup Operators[4]
  BY <1>1, Zenon DEF Binary
<1>4. Binary = {"+", "-", "*", "/", "//", "%", "^"}
  BY <1>2, <1>3
<1>5. \A l \in 1 .. FACTOR : Operators[l] \subseteq Binary
  BY <1>1, <1>2, <1>4
<1>6. END \notin Operands /\ END \notin Binary
  BY <1>4, ExpressionAssumption DEF END
<1>7. \A w \in {"-", "(", ")", Sign, Missing} : w \notin Operands
  BY <1>4, ExpressionAssumption
<1> QED  BY <1>1, <1>2, <1>4, <1>5, <1>6, <1>7

LEMMA PartFacts ==
  ASSUME NEW S, NEW s \in Seq(S)
  PROVE  /\ Len(s) \in Nat
         /\ \A x : x \in Parts(s) <=>
              \E k \in {"whole", "rest"}, l \in 1 .. FACTOR, i \in 1 .. Len(s) + 1 : x = <<k, l, i>>
         /\ Left(s) \in [Parts(s) -> Nat] /\ Below(s) \in [Parts(s) -> Nat]
<1>1. Len(s) \in Nat
  OBVIOUS
<1>2. \A x : x \in Parts(s) <=>
        \E k \in {"whole", "rest"}, l \in 1 .. FACTOR, i \in 1 .. Len(s) + 1 : x = <<k, l, i>>
  BY DEF Parts
<1>3. \A x \in Parts(s) : x[3] \in 1 .. Len(s) + 1 /\ x[2] \in {1, 2, 3, 4}
  BY <1>2, LevelFacts
<1>4. \A x \in Parts(s) : Len(s) + 1 - x[3] \in Nat /\ (IF x[1] = "rest" THEN 0 ELSE 5 - x[2]) \in Nat
  BY <1>1, <1>3
<1>5. Left(s) \in [Parts(s) -> Nat] /\ Below(s) \in [Parts(s) -> Nat]
  BY <1>4 DEF Left, Below
<1> QED  BY <1>1, <1>2, <1>5

LEMMA TokenFacts ==
  ASSUME NEW S, NEW s \in Seq(S), NEW i \in 1 .. Len(s) + 1
  PROVE  /\ Token(s, i) # END => i <= Len(s) /\ i + 1 \in 1 .. Len(s) + 1 /\ Token(s, i) = s[i]
         /\ \A l \in 1 .. FACTOR : Token(s, i) \in Operators[l] =>
              /\ Token(s, i) # END /\ l + 1 \in 1 .. FACTOR /\ Token(s, i) \in Binary
         /\ Token(s, i) \in Operands => Token(s, i) # END
         /\ Token(s, i) \in {"-", "(", ")"} => Token(s, i) # END
<1>1. Token(s, i) # END => i <= Len(s)
  BY DEF Token
<1>2. \A l \in 1 .. FACTOR : Token(s, i) \in Operators[l] => l # 4 /\ Token(s, i) \in Binary
  BY LevelFacts
<1>3. \A l \in 1 .. FACTOR : l # 4 => l + 1 \in 1 .. FACTOR
  BY LevelFacts
<1>4. END \notin {"-", "(", ")"}
  BY DEF END
<1> QED  BY <1>1, <1>2, <1>3, <1>4, LevelFacts DEF Token

(* A part looks only at parts further on in the line, or below it.           *)
LEMMA PartIsGrounded ==
  ASSUME NEW S, NEW s \in Seq(S), NEW x \in Parts(s),
         NEW f \in [Parts(s) -> Readings(s)], NEW g,
         \A y \in Parts(s) : y[3] <= f[y].next,
         \A y \in Parts(s) : Precedes(Left(s), Below(s), y, x) => f[y] = g[y]
  PROVE  Part(f, s, x) = Part(g, s, x)
<1>1. PICK k \in {"whole", "rest"}, l \in 1 .. FACTOR, i \in 1 .. Len(s) + 1 : x = <<k, l, i>>
  BY PartFacts
<1>2. \A m \in 1 .. FACTOR, j \in 1 .. Len(s) + 1, h \in {"whole", "rest"} :
        j > i \/ (j = i /\ k = "whole" /\ (h = "rest" \/ m > l)) => f[<<h, m, j>>] = g[<<h, m, j>>]
  <2> TAKE m \in 1 .. FACTOR, j \in 1 .. Len(s) + 1, h \in {"whole", "rest"}
  <2>1. <<h, m, j>> \in Parts(s) /\ <<k, l, i>> \in Parts(s)
    BY PartFacts
  <2>2. /\ Left(s)[<<h, m, j>>] = Len(s) + 1 - j /\ Left(s)[<<k, l, i>>] = Len(s) + 1 - i
        /\ Below(s)[<<h, m, j>>] = (IF h = "rest" THEN 0 ELSE 5 - m)
        /\ Below(s)[<<k, l, i>>] = (IF k = "rest" THEN 0 ELSE 5 - l)
    BY <2>1 DEF Left, Below
  <2>3. m \in {1, 2, 3, 4} /\ l \in {1, 2, 3, 4} /\ Len(s) \in Nat
    BY LevelFacts, PartFacts
  <2>4. j > i \/ (j = i /\ k = "whole" /\ (h = "rest" \/ m > l))
          => Precedes(Left(s), Below(s), <<h, m, j>>, x)
    <3>1. j > i => Len(s) + 1 - j < Len(s) + 1 - i
      BY <2>3
    <3>2. (h = "rest" \/ m > l) /\ k = "whole"
            => (IF h = "rest" THEN 0 ELSE 5 - m) < (IF k = "rest" THEN 0 ELSE 5 - l)
      BY <2>3
    <3> QED  BY <3>1, <3>2, <1>1, <2>2, Zenon DEF Precedes
  <2> QED  BY <2>1, <2>4
<1>3. \A m \in 1 .. FACTOR, j \in 1 .. Len(s) + 1, h \in {"whole", "rest"} :
        f[<<h, m, j>>].next \in 1 .. Len(s) + 1 /\ j <= f[<<h, m, j>>].next
  <2> TAKE m \in 1 .. FACTOR, j \in 1 .. Len(s) + 1, h \in {"whole", "rest"}
  <2>1. <<h, m, j>> \in Parts(s)
    BY PartFacts
  <2> QED  BY <2>1 DEF Readings
<1>4. CASE k = "rest"
  <2>1. CASE Token(s, i) \in Operators[l]
    <3>1. l + 1 \in 1 .. FACTOR /\ i + 1 \in 1 .. Len(s) + 1 /\ i + 1 > i
      BY <2>1, TokenFacts
    <3>2. f[<<"whole", l + 1, i + 1>>] = g[<<"whole", l + 1, i + 1>>]
      BY <3>1, <1>2, Zenon
    <3> DEFINE n == f[<<"whole", l + 1, i + 1>>].next
    <3>3. n \in 1 .. Len(s) + 1 /\ i + 1 <= n
      BY <3>1, <1>3
    <3> HIDE DEF n
    <3>3a. n > i
      BY <3>3
    <3>4. f[<<"rest", l, n>>] = g[<<"rest", l, n>>]
      BY <3>3, <3>3a, <1>2, Zenon
    <3>5. Rest(f, s, l, i) = Rest(g, s, l, i)
      BY <3>2, <3>4, Zenon DEF Rest, n
    <3> QED  BY <3>5, <1>1, <1>4 DEF Part
  <2>2. CASE Token(s, i) \notin Operators[l]
    BY <2>2, <1>1, <1>4 DEF Part, Rest
  <2> QED  BY <2>1, <2>2
<1>5. CASE k = "whole" /\ l = FACTOR
  <2>1. Token(s, i) \in {"-", "("} => i + 1 \in 1 .. Len(s) + 1 /\ i + 1 > i
    BY TokenFacts
  <2>2. 1 \in 1 .. FACTOR /\ FACTOR \in 1 .. FACTOR
    BY LevelFacts
  <2>3. Token(s, i) \in {"-", "("} =>
          /\ f[<<"whole", FACTOR, i + 1>>] = g[<<"whole", FACTOR, i + 1>>]
          /\ f[<<"whole", 1, i + 1>>] = g[<<"whole", 1, i + 1>>]
    BY <2>1, <2>2, <1>2, Zenon
  <2>4. Factor(f, s, i) = Factor(g, s, i)
    BY <2>3, Zenon DEF Factor
  <2> QED  BY <2>4, <1>1, <1>5 DEF Part
<1>6. CASE k = "whole" /\ l < FACTOR
  <2>1. l + 1 \in 1 .. FACTOR /\ l + 1 > l
    BY <1>6, LevelFacts
  <2>2. f[<<"whole", l + 1, i>>] = g[<<"whole", l + 1, i>>]
    BY <2>1, <1>2, <1>6
  <2> DEFINE n == f[<<"whole", l + 1, i>>].next
  <2>3. n \in 1 .. Len(s) + 1 /\ i <= n
    BY <2>1, <1>3
  <2> HIDE DEF n
  <2>4. n > i \/ n = i
    BY <2>3
  <2>5. f[<<"rest", l, n>>] = g[<<"rest", l, n>>]
    BY <2>3, <2>4, <1>2, <1>6
  <2>6. Level(f, s, l, i) = Level(g, s, l, i)
    BY <2>2, <2>5, Zenon DEF Level, n
  <2>7. l # FACTOR
    BY <1>6, LevelFacts
  <2> QED  BY <2>6, <2>7, <1>1, <1>6 DEF Part
<1> QED  BY <1>1, <1>4, <1>5, <1>6, LevelFacts

(* A part is steps, and stops in the line and not before it begins.          *)
LEMMA PartReads ==
  ASSUME NEW S, NEW s \in Seq(S), NEW x \in Parts(s),
         NEW f \in [Parts(s) -> Readings(s)], \A y \in Parts(s) : y[3] <= f[y].next
  PROVE  Part(f, s, x) \in Readings(s) /\ x[3] <= Part(f, s, x).next
<1>1. PICK k \in {"whole", "rest"}, l \in 1 .. FACTOR, i \in 1 .. Len(s) + 1 : x = <<k, l, i>>
  BY PartFacts
<1>2. ASSUME NEW m \in 1 .. FACTOR, NEW j \in 1 .. Len(s) + 1, NEW h \in {"whole", "rest"}
      PROVE  /\ f[<<h, m, j>>] \in Readings(s)
             /\ f[<<h, m, j>>].steps \in Seq(StepNames) /\ f[<<h, m, j>>].next \in 1 .. Len(s) + 1
             /\ j <= f[<<h, m, j>>].next
  <2>1. <<h, m, j>> \in Parts(s)
    BY PartFacts
  <2>2. f[<<h, m, j>>] \in Readings(s)
    BY <2>1
  <2> QED  BY <2>1, <2>2 DEF Readings
<1>3. /\ \A w \in Operands \cup Binary \cup {Sign, Missing} : w \in StepNames
      /\ <<>> \in Seq(StepNames) /\ <<Missing>> \in Seq(StepNames)
      /\ Token(s, i) \in Operands => <<Token(s, i)>> \in Seq(StepNames)
  BY DEF StepNames
<1>4. ASSUME NEW p \in Seq(StepNames), NEW n \in 1 .. Len(s) + 1, i <= n,
             Part(f, s, x) = [steps |-> p, next |-> n]
      PROVE  Part(f, s, x) \in Readings(s) /\ x[3] <= Part(f, s, x).next
  <2>1. x[3] = i
    BY <1>1
  <2>2. [steps |-> p, next |-> n] \in Readings(s) /\ [steps |-> p, next |-> n].next = n
    BY DEF Readings
  <2> QED  BY <2>1, <2>2, <1>4
<1>5. Len(s) \in Nat /\ i \in Nat /\ i <= i
  BY PartFacts
<1>6. CASE k = "rest"
  <2>1. Part(f, s, x) = Rest(f, s, l, i)
    BY <1>6, <1>1 DEF Part
  <2>2. CASE Token(s, i) \in Operators[l]
    <3>1. l + 1 \in 1 .. FACTOR /\ i + 1 \in 1 .. Len(s) + 1 /\ Token(s, i) \in Binary
      BY <2>2, TokenFacts
    <3> DEFINE q == f[<<"whole", l + 1, i + 1>>]
               more == f[<<"rest", l, q.next>>]
    <3>2. q.steps \in Seq(StepNames) /\ q.next \in 1 .. Len(s) + 1 /\ i + 1 <= q.next
      BY <3>1, <1>2
    <3> HIDE DEF q
    <3>3. more.steps \in Seq(StepNames) /\ more.next \in 1 .. Len(s) + 1 /\ q.next <= more.next
      BY <3>2, <1>2
    <3>4. Rest(f, s, l, i) = [steps |-> Append(q.steps, Token(s, i)) \o more.steps, next |-> more.next]
      BY <2>2 DEF Rest, q
    <3> HIDE DEF more
    <3>5. Append(q.steps, Token(s, i)) \o more.steps \in Seq(StepNames)
      BY <3>1, <3>2, <3>3, <1>3
    <3>6. i <= more.next
      BY <3>2, <3>3, <1>5
    <3> QED  BY <2>1, <3>3, <3>4, <3>5, <3>6, <2>1, <1>4
  <2>3. CASE Token(s, i) \notin Operators[l]
    <3>1. Rest(f, s, l, i) = [steps |-> <<>>, next |-> i]
      BY <2>3 DEF Rest
    <3> QED  BY <3>1, <2>1, <1>1, <1>3, <1>4, <1>5
  <2> QED  BY <2>2, <2>3
<1>7. CASE k = "whole" /\ l = FACTOR
  <2>1. Part(f, s, x) = Factor(f, s, i)
    BY <1>7, <1>1 DEF Part
  <2>2. 1 \in 1 .. FACTOR /\ FACTOR \in 1 .. FACTOR
    BY LevelFacts
  <2>3. CASE Token(s, i) = "-"
    <3>1. i + 1 \in 1 .. Len(s) + 1
      BY <2>3, TokenFacts
    <3> DEFINE r == f[<<"whole", FACTOR, i + 1>>]
    <3>2. r \in Readings(s) /\ r.steps \in Seq(StepNames) /\ r.next \in 1 .. Len(s) + 1 /\ i + 1 <= r.next
      BY <3>1, <2>2, <1>2
    <3>3. Factor(f, s, i) = [steps |-> Append(r.steps, Sign), next |-> r.next]
      BY <2>3, LevelFacts DEF Factor
    <3> HIDE DEF r
    <3>4. Append(r.steps, Sign) \in Seq(StepNames)
      BY <3>2, <1>3
    <3>6. i <= r.next
      BY <3>2, <1>5
    <3> QED  BY <3>2, <3>3, <3>4, <3>6, <2>1, <1>4
  <2>4. CASE Token(s, i) = "("
    <3>1. i + 1 \in 1 .. Len(s) + 1
      BY <2>4, TokenFacts
    <3> DEFINE r == f[<<"whole", 1, i + 1>>]
               n == IF Token(s, r.next) = ")" THEN r.next + 1 ELSE r.next
    <3>2. r \in Readings(s) /\ r.steps \in Seq(StepNames) /\ r.next \in 1 .. Len(s) + 1 /\ i + 1 <= r.next
      BY <3>1, <2>2, <1>2
    <3>3. Factor(f, s, i) = [steps |-> r.steps, next |-> n]
      BY <2>4, LevelFacts DEF Factor
    <3> HIDE DEF r
    <3>4. n \in 1 .. Len(s) + 1 /\ i <= n
      BY <3>2, <1>5, TokenFacts
    <3> HIDE DEF n
    <3> QED  BY <3>2, <3>3, <3>4, <2>1, <1>4
  <2>5. CASE Token(s, i) \in Operands
    <3>1. i + 1 \in 1 .. Len(s) + 1 /\ i <= i + 1
      BY <2>5, TokenFacts, <1>5
    <3>2. Token(s, i) # "-" /\ Token(s, i) # "("
      BY <2>5, LevelFacts
    <3>3. Factor(f, s, i) = [steps |-> <<Token(s, i)>>, next |-> i + 1]
      BY <2>5, <3>2 DEF Factor
    <3> QED  BY <3>1, <3>3, <2>1, <2>5, <1>1, <1>3, <1>4
  <2>6. CASE Token(s, i) \notin Operands \cup {"-", "("}
    <3>1. Factor(f, s, i) = [steps |-> <<Missing>>, next |-> i]
      BY <2>6 DEF Factor
    <3> QED  BY <3>1, <2>1, <1>1, <1>3, <1>4, <1>5
  <2> QED  BY <2>3, <2>4, <2>5, <2>6
<1>8. CASE k = "whole" /\ l < FACTOR
  <2>1. l + 1 \in 1 .. FACTOR /\ l # FACTOR
    BY <1>8, LevelFacts
  <2>2. Part(f, s, x) = Level(f, s, l, i)
    BY <1>8, <1>1, <2>1 DEF Part
  <2> DEFINE r == f[<<"whole", l + 1, i>>]
             more == f[<<"rest", l, r.next>>]
  <2>3. r.steps \in Seq(StepNames) /\ r.next \in 1 .. Len(s) + 1 /\ i <= r.next
    BY <2>1, <1>2
  <2> HIDE DEF r
  <2>4. more.steps \in Seq(StepNames) /\ more.next \in 1 .. Len(s) + 1 /\ r.next <= more.next
    BY <2>3, <1>2
  <2>5. Level(f, s, l, i) = [steps |-> r.steps \o more.steps, next |-> more.next]
    BY DEF Level, r
  <2> HIDE DEF more
  <2>6. r.steps \o more.steps \in Seq(StepNames)
    BY <2>3, <2>4
  <2>7. i <= more.next
    BY <2>3, <2>4, <1>5
  <2> QED  BY <2>2, <2>4, <2>5, <2>6, <2>7, <1>1, <1>4
<1> QED  BY <1>1, <1>6, <1>7, <1>8, LevelFacts

LEMMA ClampReads ==
  ASSUME NEW S, NEW s \in Seq(S), NEW f \in [Parts(s) -> Readings(s)]
  PROVE  /\ Clamp(f, s) \in [Parts(s) -> Readings(s)]
         /\ \A y \in Parts(s) : y[3] <= Clamp(f, s)[y].next
<1> SUFFICES ASSUME NEW y \in Parts(s)
             PROVE  Clamp(f, s)[y] \in Readings(s) /\ y[3] <= Clamp(f, s)[y].next
  BY DEF Clamp
<1>1. y[3] \in 1 .. Len(s) + 1
  BY PartFacts
<1>2. [steps |-> <<>>, next |-> y[3]] \in Readings(s)
  BY <1>1 DEF Readings
<1>3. Clamp(f, s)[y] = IF y[3] <= f[y].next THEN f[y] ELSE [steps |-> <<>>, next |-> y[3]]
  BY DEF Clamp
<1> QED  BY <1>1, <1>2, <1>3

(* The parser there is. *)
LEMMA ParserExists ==
  ASSUME NEW S, NEW s \in Seq(S)
  PROVE  \E of : IsParser(s, of) /\ Parse(s) = of[<<"whole", 1, 1>>]
<1> DEFINE Dom == Parts(s)
           Val == Readings(s)
           body == [g \in [Dom -> Val] |-> [x \in Dom |-> Part(Clamp(g, s), s, x)]]
<1>1. Left(s) \in [Dom -> Nat] /\ Below(s) \in [Dom -> Nat]
  BY PartFacts
<1>2. ASSUME NEW g \in [Dom -> Val], NEW x \in Dom
      PROVE  Part(Clamp(g, s), s, x) \in Val /\ x[3] <= Part(Clamp(g, s), s, x).next
  BY ClampReads, PartReads
<1>3. body \in [[Dom -> Val] -> [Dom -> Val]]
  <2> HIDE DEF Dom, Val
  <2> QED  BY <1>2
<1>4. ASSUME NEW f \in [Dom -> Val], NEW g \in [Dom -> Val], NEW x \in Dom,
             \A y \in Dom : Precedes(Left(s), Below(s), y, x) => f[y] = g[y]
      PROVE  body[f][x] = body[g][x]
  <2>1. \A y \in Dom : Precedes(Left(s), Below(s), y, x) => Clamp(f, s)[y] = Clamp(g, s)[y]
    BY <1>4 DEF Clamp
  <2>2. Part(Clamp(f, s), s, x) = Part(Clamp(g, s), s, x)
    BY <2>1, ClampReads, PartIsGrounded
  <2>3. body[f][x] = Part(Clamp(f, s), s, x) /\ body[g][x] = Part(Clamp(g, s), s, x)
    <3> HIDE DEF Dom, Val
    <3> QED  OBVIOUS
  <2> QED  BY <2>2, <2>3
<1>5. Grounded(Dom, Val, Left(s), Below(s), body)
  <2> HIDE DEF Dom, Val, body
  <2> QED  BY <1>1, <1>3, <1>4 DEF Grounded
<1>6. Val # {}
  <2>1. [steps |-> <<>>, next |-> 1] \in Val
    BY PartFacts DEF Readings
  <2> QED  BY <2>1
<1>7. PICK f \in [Dom -> Val] : f = body[f]
  <2> HIDE DEF Dom, Val, body
  <2> QED  BY <1>5, <1>6, RecursionExists
<1>8. f = [x \in Dom |-> Part(Clamp(f, s), s, x)]
  <2> HIDE DEF Dom, Val
  <2> QED  BY <1>7
<1>9. \A x \in Dom : x[3] <= f[x].next
  <2> HIDE DEF Dom, Val
  <2> QED  BY <1>8, <1>2
<1>10. Clamp(f, s) = f
  BY <1>9 DEF Clamp
<1>11. f = [x \in Parts(s) |-> Part(f, s, x)]
  BY <1>8, <1>10
<1> DEFINE of == CHOOSE g : g = [x \in Parts(s) |-> Part(g, s, x)]
<1>12. of = [x \in Parts(s) |-> Part(of, s, x)]
  BY <1>11
<1>13. Parse(s) = of[<<"whole", 1, 1>>]
  BY DEF Parse
<1>14. of = f
  <2> DEFINE Differ == {x \in Parts(s) : of[x] # f[x]}
  <2>1. ASSUME Differ # {}  PROVE FALSE
    <3>1. PICK x \in Differ : \A y \in Differ : ~Precedes(Left(s), Below(s), y, x)
      <4>1. Differ \in SUBSET Parts(s)
        OBVIOUS
      <4> HIDE DEF Differ
      <4> QED  BY <2>1, <4>1, <1>1, FirstExists
    <3>2. \A y \in Parts(s) : Precedes(Left(s), Below(s), y, x) => f[y] = of[y]
      BY <3>1
    <3>3. x \in Parts(s)
      OBVIOUS
    <3> HIDE DEF of
    <3>4. Part(f, s, x) = Part(of, s, x)
      BY <3>2, <3>3, <1>9, PartIsGrounded
    <3>5. of[x] = Part(of, s, x) /\ f[x] = Part(f, s, x)
      BY <3>3, <1>11, <1>12
    <3> QED  BY <3>1, <3>4, <3>5
  <2> HIDE DEF of
  <2> QED  BY <2>1, <1>11, <1>12
<1> HIDE DEF of
<1>15. IsParser(s, f)
  <2>1. \A x \in Parts(s) : f[x] = Part(f, s, x)
    BY <1>11
  <2> QED  BY <2>1, <1>9 DEF IsParser
<1> QED  BY <1>13, <1>14, <1>15

(* Whatever holds of a part when it holds of those it looks at, holds of all. *)
LEMMA EveryPart ==
  ASSUME NEW S, NEW s \in Seq(S), NEW Holds,
         \A x \in Parts(s) :
           (\A y \in Parts(s) : Precedes(Left(s), Below(s), y, x) => y \in Holds) => x \in Holds
  PROVE  Parts(s) \subseteq Holds
<1> DEFINE Fails == {x \in Parts(s) : x \notin Holds}
<1>1. ASSUME Fails # {}  PROVE FALSE
  <2>1. Fails \in SUBSET Parts(s)
    OBVIOUS
  <2>2. PICK x \in Fails : \A y \in Fails : ~Precedes(Left(s), Below(s), y, x)
    <3> HIDE DEF Fails
    <3> QED  BY <1>1, <2>1, PartFacts, FirstExists
  <2> QED  BY <2>2
<1> QED  BY <1>1

-----------------------------------------------------------------------------
(* Steps on a stack                                                          *)

(* f is the stack after each step. *)
After(f, stack, steps) ==
  \A k \in 0 .. Len(steps) : f[k] = IF k = 0 THEN stack ELSE Push(f[k - 1], steps[k])

(* Two runs agree as long as they take the same steps. *)
LEMMA RunsAgree ==
  ASSUME NEW V, NEW W, NEW p \in Seq(V), NEW q \in Seq(W), NEW stack, NEW f, NEW g,
         After(f, stack, p), After(g, stack, q),
         NEW n \in Nat, n <= Len(p), n <= Len(q), \A k \in 1 .. n : p[k] = q[k]
  PROVE  f[n] = g[n]
<1> DEFINE Differ == {k \in 0 .. n : f[k] # g[k]}
<1>1. ASSUME Differ # {}  PROVE FALSE
  <2>1. Differ \in SUBSET Nat
    OBVIOUS
  <2>2. PICK k \in Differ : \A m \in Differ : k <= m
    <3> HIDE DEF Differ
    <3> QED  BY <1>1, <2>1, LeastExists
  <2>3. k \in 0 .. n /\ k \in 0 .. Len(p) /\ k \in 0 .. Len(q) /\ f[k] # g[k]
    OBVIOUS
  <2>4. k # 0
    BY <2>3 DEF After
  <2>5. k - 1 \in 0 .. n /\ ~(k <= k - 1) /\ k \in 1 .. n
    BY <2>3, <2>4
  <2>6. f[k - 1] = g[k - 1]
    BY <2>2, <2>5
  <2>7. f[k] = Push(f[k - 1], p[k]) /\ g[k] = Push(g[k - 1], q[k])
    BY <2>3, <2>4 DEF After
  <2> QED  BY <2>3, <2>5, <2>6, <2>7
<1> QED  BY <1>1

LEMMA RunIs ==
  ASSUME NEW W, NEW p \in Seq(W), NEW stack
  PROVE  /\ \E f : After(f, stack, p)
         /\ \A f : After(f, stack, p) => Run(stack, p) = f[Len(p)]
<1> DEFINE Upto(n, f) == f = [k \in 0 .. n |-> IF k = 0 THEN stack ELSE Push(f[k - 1], p[k])]
           None == {n \in 0 .. Len(p) : \A f : ~Upto(n, f)}
<1>1. Len(p) \in Nat
  OBVIOUS
<1>2. ASSUME None # {}  PROVE FALSE
  <2>1. None \in SUBSET Nat
    <3> HIDE DEF Upto
    <3> QED  OBVIOUS
  <2>2. PICK n \in None : \A m \in None : n <= m
    <3> HIDE DEF None
    <3> QED  BY <1>2, <2>1, LeastExists
  <2>3. n \in 0 .. Len(p) /\ \A f : ~Upto(n, f)
    OBVIOUS
  <2>4. n # 0
    <3>1. Upto(0, [k \in 0 .. 0 |-> stack])
      <4>1. \A k \in 0 .. 0 : k = 0
        OBVIOUS
      <4> QED  BY <4>1
    <3> HIDE DEF Upto
    <3> QED  BY <2>3, <3>1
  <2>5. n - 1 \in 0 .. Len(p) /\ ~(n <= n - 1)
    BY <2>3, <2>4
  <2>6. PICK g : Upto(n - 1, g)
    <3> HIDE DEF Upto
    <3> QED  BY <2>2, <2>5
  <2> DEFINE h == [k \in 0 .. n |-> IF k <= n - 1 THEN g[k] ELSE Push(g[n - 1], p[n])]
  <2>7. ASSUME NEW k \in 0 .. n
        PROVE  h[k] = IF k = 0 THEN stack ELSE Push(h[k - 1], p[k])
    <3>1. CASE k = n
      <4>1. n - 1 \in 0 .. n /\ n - 1 <= n - 1 /\ ~(n <= n - 1)
        BY <2>3, <2>4
      <4>2. h[k] = Push(g[n - 1], p[n]) /\ h[n - 1] = g[n - 1]
        BY <3>1, <4>1
      <4> HIDE DEF h
      <4> QED  BY <3>1, <4>2, <2>4
    <3>2. CASE k # n
      <4>1. k \in 0 .. n - 1 /\ k <= n - 1 /\ (k # 0 => k - 1 \in 0 .. n /\ k - 1 <= n - 1)
        BY <3>2, <2>3
      <4>2. g[k] = IF k = 0 THEN stack ELSE Push(g[k - 1], p[k])
        BY <4>1, <2>6
      <4>3. h[k] = g[k] /\ (k # 0 => h[k - 1] = g[k - 1])
        BY <4>1
      <4> HIDE DEF h
      <4> QED  BY <4>2, <4>3
    <3> QED  BY <3>1, <3>2
  <2>8. Upto(n, h)
    <3>1. h = [k \in 0 .. n |-> h[k]]
      OBVIOUS
    <3> HIDE DEF h
    <3> QED  BY <3>1, <2>7
  <2> HIDE DEF Upto, h
  <2> QED  BY <2>3, <2>8
<1>3. \E f : Upto(Len(p), f)
  <2> HIDE DEF Upto
  <2>1. Len(p) \in 0 .. Len(p)
    BY <1>1
  <2> QED  BY <1>2, <2>1
<1> DEFINE after == CHOOSE f : Upto(Len(p), f)
<1>4. Upto(Len(p), after)
  <2> HIDE DEF Upto
  <2> QED  BY <1>3
<1>5. Run(stack, p) = after[Len(p)]
  BY DEF Run
<1> HIDE DEF after
<1>6. After(after, stack, p)
  BY <1>4 DEF After
<1> HIDE DEF Upto
<1>7. ASSUME NEW f, After(f, stack, p)  PROVE Run(stack, p) = f[Len(p)]
  <2> QED  BY <1>1, <1>5, <1>6, <1>7, RunsAgree
<1> QED  BY <1>6, <1>7

LEMMA RunJoined ==
  ASSUME NEW W, NEW p \in Seq(W), NEW q \in Seq(W), NEW stack
  PROVE  Run(stack, p \o q) = Run(Run(stack, p), q)
<1>1. /\ p \o q \in Seq(W) /\ Len(p \o q) = Len(p) + Len(q) /\ Len(p) \in Nat /\ Len(q) \in Nat
      /\ \A k \in 1 .. Len(p) : (p \o q)[k] = p[k]
      /\ \A k \in 1 .. Len(q) : (p \o q)[Len(p) + k] = q[k]
  OBVIOUS
<1>2. PICK f : After(f, stack, p \o q)
  BY <1>1, RunIs
<1>3. PICK g : After(g, stack, p)
  BY RunIs
<1>4. PICK h : After(h, Run(stack, p), q)
  BY RunIs
<1>5. f[Len(p)] = Run(stack, p)
  <2>1. Len(p) \in Nat /\ Len(p) <= Len(p) /\ Len(p) <= Len(p \o q)
    BY <1>1
  <2> DEFINE pq == p \o q
  <2>1a. pq \in Seq(W) /\ (\A k \in 1 .. Len(p) : pq[k] = p[k]) /\ After(f, stack, pq)
    BY <1>1, <1>2
  <2> HIDE DEF pq
  <2>1b. Len(p) <= Len(pq)
    BY <2>1 DEF pq
  <2>2. f[Len(p)] = g[Len(p)]
    BY <2>1, <2>1a, <2>1b, <1>3, RunsAgree
  <2> QED  BY <2>2, <1>3, RunIs
<1> DEFINE r == [k \in 0 .. Len(q) |-> f[Len(p) + k]]
<1>6. After(r, Run(stack, p), q)
  <2> SUFFICES ASSUME NEW k \in 0 .. Len(q)
               PROVE  r[k] = IF k = 0 THEN Run(stack, p) ELSE Push(r[k - 1], q[k])
    BY DEF After
  <2>1. CASE k = 0
    BY <2>1, <1>1, <1>5
  <2>2. CASE k # 0
    <3>1. /\ Len(p) + k \in 0 .. Len(p \o q) /\ Len(p) + k # 0 /\ k - 1 \in 0 .. Len(q)
          /\ (Len(p) + k) - 1 = Len(p) + (k - 1) /\ k \in 1 .. Len(q)
      BY <2>2, <1>1
    <3>2. f[Len(p) + k] = Push(f[(Len(p) + k) - 1], (p \o q)[Len(p) + k])
      <4> DEFINE pq == p \o q
                 i == Len(p) + k
      <4>1. After(f, stack, pq) /\ i \in 0 .. Len(pq) /\ i # 0
        BY <3>1, <1>2
      <4> HIDE DEF pq, i
      <4>2. f[i] = Push(f[i - 1], pq[i])
        BY ONLY <4>1 DEF After
      <4> QED  BY <4>2 DEF pq, i
    <3>3. r[k] = f[Len(p) + k] /\ r[k - 1] = f[Len(p) + (k - 1)]
      BY <3>1
    <3> HIDE DEF r
    <3> QED  BY <3>1, <3>2, <3>3, <1>1, <2>2
  <2> QED  BY <2>1, <2>2
<1>7. Run(Run(stack, p), q) = r[Len(q)]
  <2> HIDE DEF r
  <2> QED  BY <1>6, RunIs
<1>8. Run(stack, p \o q) = f[Len(p) + Len(q)]
  BY <1>1, <1>2, RunIs
<1>9. r[Len(q)] = f[Len(p) + Len(q)]
  BY <1>1
<1> QED  BY <1>7, <1>8, <1>9

LEMMA RunNone ==
  ASSUME NEW stack
  PROVE  Run(stack, <<>>) = stack
<1>1. <<>> \in Seq({}) /\ Len(<<>>) = 0
  OBVIOUS
<1>2. PICK f : After(f, stack, <<>>)
  BY <1>1, RunIs
<1>3. f[0] = stack
  BY <1>1, <1>2 DEF After
<1> QED  BY <1>1, <1>2, <1>3, RunIs

LEMMA RunOne ==
  ASSUME NEW stack, NEW t
  PROVE  Run(stack, <<t>>) = Push(stack, t)
<1>1. <<t>> \in Seq({t}) /\ Len(<<t>>) = 1 /\ <<t>>[1] = t
  OBVIOUS
<1>2. PICK f : After(f, stack, <<t>>)
  BY <1>1, RunIs
<1>3. f[0] = stack /\ f[1] = Push(f[1 - 1], <<t>>[1]) /\ 1 - 1 = 0
  BY <1>1, <1>2 DEF After
<1> QED  BY <1>1, <1>2, <1>3, RunIs

LEMMA RunAppend ==
  ASSUME NEW W, NEW p \in Seq(W), NEW t \in W, NEW stack
  PROVE  Run(stack, Append(p, t)) = Push(Run(stack, p), t)
<1>1. <<t>> \in Seq(W) /\ Append(p, t) = p \o <<t>>
  OBVIOUS
<1>2. Run(stack, p \o <<t>>) = Run(Run(stack, p), <<t>>)
  BY <1>1, RunJoined
<1> QED  BY <1>1, <1>2, RunOne

-----------------------------------------------------------------------------
(* The numbers, names and operators of a line                                *)

Unwritten == {"(", ")", Missing}

(* b is what is bare of s up to each place. *)
BareTo(b, s) ==
  \A k \in 0 .. Len(s) :
    b[k] = IF k = 0 THEN <<>> ELSE IF s[k] \in Unwritten THEN b[k - 1] ELSE Append(b[k - 1], s[k])

LEMMA BareIs ==
  ASSUME NEW S, NEW s \in Seq(S)
  PROVE  \E b \in [0 .. Len(s) -> Seq(S)] : BareTo(b, s) /\ Bare(s) = b[Len(s)]
<1> DEFINE Next1(b, k) == IF k = 0 THEN <<>>
                          ELSE IF s[k] \in {"(", ")", Missing} THEN b[k - 1] ELSE Append(b[k - 1], s[k])
           Upto(n, b) == b = [k \in 0 .. n |-> Next1(b, k)]
           None == {n \in 0 .. Len(s) : \A b \in [0 .. n -> Seq(S)] : ~Upto(n, b)}
<1>1. Len(s) \in Nat /\ \A k \in 1 .. Len(s) : s[k] \in S
  OBVIOUS
<1>2. ASSUME None # {}  PROVE FALSE
  <2>1. None \in SUBSET Nat
    <3> HIDE DEF Upto
    <3> QED  OBVIOUS
  <2>2. PICK n \in None : \A m \in None : n <= m
    <3> HIDE DEF None
    <3> QED  BY <1>2, <2>1, LeastExists
  <2>3. n \in 0 .. Len(s) /\ \A b \in [0 .. n -> Seq(S)] : ~Upto(n, b)
    OBVIOUS
  <2>4. n # 0
    <3> DEFINE z == [k \in 0 .. 0 |-> <<>>]
    <3>1. Upto(0, z)
      <4>1. \A k \in 0 .. 0 : k = 0
        OBVIOUS
      <4> QED  BY <4>1
    <3>2. z \in [0 .. 0 -> Seq(S)]
      OBVIOUS
    <3> HIDE DEF Upto, z
    <3> QED  BY <2>3, <3>1, <3>2
  <2>5. n - 1 \in 0 .. Len(s) /\ ~(n <= n - 1) /\ n \in 1 .. Len(s)
    BY <2>3, <2>4
  <2>6. PICK g \in [0 .. n - 1 -> Seq(S)] : Upto(n - 1, g)
    <3> HIDE DEF Upto
    <3> QED  BY <2>2, <2>5
  <2> DEFINE h == [k \in 0 .. n |-> IF k <= n - 1 THEN g[k] ELSE Next1(g, n)]
  <2>7. ASSUME NEW k \in 0 .. n
        PROVE  h[k] = Next1(h, k) /\ h[k] \in Seq(S)
    <3>1. CASE k = n
      <4>1. n - 1 \in 0 .. n /\ n - 1 <= n - 1 /\ ~(n <= n - 1) /\ n - 1 \in 0 .. n - 1
        BY <2>3, <2>4
      <4>2. h[k] = Next1(g, n) /\ h[n - 1] = g[n - 1]
        <5> HIDE DEF Next1
        <5> QED  BY <3>1, <4>1
      <4>3. g[n - 1] \in Seq(S) /\ s[n] \in S
        BY <4>1, <2>5, <1>1
      <4>4. Next1(g, n) \in Seq(S)
        BY <4>3
      <4> HIDE DEF h
      <4> QED  BY <3>1, <4>2, <4>4, <2>4
    <3>2. CASE k # n
      <4>1. k \in 0 .. n - 1 /\ k <= n - 1 /\ (k # 0 => k - 1 \in 0 .. n /\ k - 1 <= n - 1)
        BY <3>2, <2>3
      <4>2. g[k] = Next1(g, k) /\ g[k] \in Seq(S)
        <5> HIDE DEF Next1
        <5> QED  BY <4>1, <2>6
      <4>3. h[k] = g[k] /\ (k # 0 => h[k - 1] = g[k - 1])
        BY <4>1
      <4> HIDE DEF h
      <4> QED  BY <4>2, <4>3
    <3> QED  BY <3>1, <3>2
  <2>8. Upto(n, h) /\ h \in [0 .. n -> Seq(S)]
    <3>1. h = [k \in 0 .. n |-> h[k]]
      OBVIOUS
    <3> HIDE DEF h, Next1
    <3> QED  BY <3>1, <2>7
  <2> HIDE DEF Upto, h
  <2> QED  BY <2>3, <2>8
<1>3. PICK b \in [0 .. Len(s) -> Seq(S)] : Upto(Len(s), b)
  <2> HIDE DEF Upto
  <2>1. Len(s) \in 0 .. Len(s)
    BY <1>1
  <2> QED  BY <1>2, <2>1
<1> DEFINE bare == CHOOSE c : Upto(Len(s), c)
<1>4. Upto(Len(s), bare)
  <2> HIDE DEF Upto
  <2> QED  BY <1>3
<1>5. Bare(s) = bare[Len(s)]
  BY DEF Bare
<1> HIDE DEF bare
<1>6. BareTo(b, s) /\ BareTo(bare, s)
  <2>1. \A k \in 0 .. Len(s) : b[k] = Next1(b, k) /\ bare[k] = Next1(bare, k)
    <3> HIDE DEF Next1
    <3> QED  BY <1>3, <1>4
  <2> QED  BY <2>1 DEF BareTo, Unwritten
<1> HIDE DEF Upto, Next1, None
<1> DEFINE Differ == {k \in 0 .. Len(s) : b[k] # bare[k]}
<1>7. ASSUME Differ # {}  PROVE FALSE
  <2>1. Differ \in SUBSET Nat
    OBVIOUS
  <2>2. PICK k \in Differ : \A m \in Differ : k <= m
    <3> HIDE DEF Differ
    <3> QED  BY <1>7, <2>1, LeastExists
  <2>3. k \in 0 .. Len(s) /\ b[k] # bare[k]
    OBVIOUS
  <2>4. k # 0
    BY <2>3, <1>6 DEF BareTo
  <2>5. k - 1 \in 0 .. Len(s) /\ ~(k <= k - 1)
    BY <2>3, <2>4
  <2>6. b[k - 1] = bare[k - 1]
    BY <2>2, <2>5
  <2> QED  BY <2>3, <2>4, <2>6, <1>6 DEF BareTo
<1>8. b[Len(s)] = bare[Len(s)]
  <2>1. Len(s) \in 0 .. Len(s)
    BY <1>1
  <2> QED  BY <2>1, <1>7
<1> QED  BY <1>5, <1>6, <1>8

LEMMA BareTyped ==
  ASSUME NEW S, NEW s \in Seq(S)
  PROVE  Bare(s) \in Seq(S)
<1>1. PICK b \in [0 .. Len(s) -> Seq(S)] : Bare(s) = b[Len(s)]
  BY BareIs
<1>2. Len(s) \in 0 .. Len(s)
  OBVIOUS
<1> QED  BY <1>1, <1>2

Glued(x, p, q) == x = p \o q
Bared(z, x, t) == z = IF t \in Unwritten THEN x ELSE Append(x, t)

LEMMA AppendJoined ==
  ASSUME NEW S, NEW p \in Seq(S), NEW q \in Seq(S), NEW t \in S,
         NEW x, x = p \o q, NEW y, y = Append(q, t), NEW z, z = Append(x, t)
  PROVE  z = p \o y
OBVIOUS

LEMMA BareGrows ==
  ASSUME NEW S, NEW p \in Seq(S), NEW q \in Seq(S), NEW t \in S, NEW x, NEW y, NEW z,
         Glued(x, p, q), Bared(y, q, t), Bared(z, x, t)
  PROVE  Glued(z, p, y)
<1>1. CASE t \in Unwritten
  BY <1>1 DEF Glued, Bared
<1>2. CASE t \notin Unwritten
  <2>1. y = Append(q, t) /\ z = Append(x, t) /\ x = p \o q
    BY <1>2 DEF Glued, Bared
  <2> QED  BY <2>1, AppendJoined DEF Glued
<1> QED  BY <1>1, <1>2

LEMMA BareJoined ==
  ASSUME NEW S, NEW s \in Seq(S), NEW r \in Seq(S), NEW sr, Glued(sr, s, r)
  PROVE  sr \in Seq(S) /\ Bare(s) \in Seq(S) /\ Glued(Bare(sr), Bare(s), Bare(r))
<1>1. /\ sr \in Seq(S) /\ Len(sr) = Len(s) + Len(r) /\ Len(s) \in Nat /\ Len(r) \in Nat
      /\ \A k \in 1 .. Len(s) : sr[k] = s[k]
      /\ \A k \in 1 .. Len(r) : sr[Len(s) + k] = r[k]
  BY DEF Glued
<1>2. PICK a \in [0 .. Len(s) -> Seq(S)] : BareTo(a, s) /\ Bare(s) = a[Len(s)]
  BY BareIs
<1>3. PICK b \in [0 .. Len(r) -> Seq(S)] : BareTo(b, r) /\ Bare(r) = b[Len(r)]
  BY BareIs
<1>4. PICK c \in [0 .. Len(sr) -> Seq(S)] : BareTo(c, sr) /\ Bare(sr) = c[Len(sr)]
  BY <1>1, BareIs
<1> DEFINE Wrong1 == {k \in 0 .. Len(s) : c[k] # a[k]}
           Wrong2 == {k \in 0 .. Len(r) : c[Len(s) + k] # a[Len(s)] \o b[k]}
<1>5. ASSUME Wrong1 # {}  PROVE FALSE
  <2>1. Wrong1 \in SUBSET Nat
    OBVIOUS
  <2>2. PICK k \in Wrong1 : \A m \in Wrong1 : k <= m
    <3> HIDE DEF Wrong1
    <3> QED  BY <1>5, <2>1, LeastExists
  <2>3. k \in 0 .. Len(s) /\ c[k] # a[k] /\ k \in 0 .. Len(sr)
    BY <1>1
  <2>4. k # 0
    BY <2>3, <1>2, <1>4 DEF BareTo
  <2>5. k - 1 \in 0 .. Len(s) /\ ~(k <= k - 1) /\ k \in 1 .. Len(s)
    BY <2>3, <2>4
  <2>6. c[k - 1] = a[k - 1]
    BY <2>2, <2>5
  <2>7. sr[k] = s[k]
    BY <2>5, <1>1
  <2>8. c[k] = IF sr[k] \in Unwritten THEN c[k - 1] ELSE Append(c[k - 1], sr[k])
    BY <2>3, <2>4, <1>4 DEF BareTo
  <2>9. a[k] = IF s[k] \in Unwritten THEN a[k - 1] ELSE Append(a[k - 1], s[k])
    BY <2>3, <2>4, <1>2 DEF BareTo
  <2> QED  BY <2>3, <2>6, <2>7, <2>8, <2>9
<1>6. c[Len(s)] = a[Len(s)] /\ a[Len(s)] \in Seq(S)
  <2>1. Len(s) \in 0 .. Len(s)
    BY <1>1
  <2> QED  BY <2>1, <1>5
<1>7. ASSUME Wrong2 # {}  PROVE FALSE
  <2>1. Wrong2 \in SUBSET Nat
    OBVIOUS
  <2>2. PICK k \in Wrong2 : \A m \in Wrong2 : k <= m
    <3> HIDE DEF Wrong2
    <3> QED  BY <1>7, <2>1, LeastExists
  <2>3. k \in 0 .. Len(r) /\ c[Len(s) + k] # a[Len(s)] \o b[k]
    OBVIOUS
  <2>4. k # 0
    <3>1. b[0] = <<>>
      <4>1. 0 \in 0 .. Len(r)
        BY <1>1
      <4> QED  BY <4>1, <1>3 DEF BareTo
    <3>1a. Len(s) + 0 = Len(s)
      BY <1>1
    <3>2. a[Len(s)] \o <<>> = a[Len(s)]
      BY <1>6
    <3> QED  BY <2>3, <3>1, <3>1a, <3>2, <1>6
  <2>5a. k - 1 \in 0 .. Len(r) /\ ~(k <= k - 1) /\ k \in 1 .. Len(r)
    BY <2>3, <2>4
  <2>5. /\ k - 1 \in 0 .. Len(r) /\ ~(k <= k - 1) /\ k \in 1 .. Len(r)
        /\ Len(s) + k \in 0 .. Len(sr) /\ Len(s) + k # 0 /\ (Len(s) + k) - 1 = Len(s) + (k - 1)
    <3>1. Len(s) \in Nat /\ Len(r) \in Nat /\ Len(sr) = Len(s) + Len(r)
      BY <1>1
    <3> QED  BY <2>5a, <3>1
  <2>6. c[Len(s) + (k - 1)] = a[Len(s)] \o b[k - 1]
    BY <2>2, <2>5
  <2>7. sr[Len(s) + k] = r[k] /\ r[k] \in S
    BY <2>5, <1>1
  <2>8. c[Len(s) + k] = IF sr[Len(s) + k] \in Unwritten THEN c[(Len(s) + k) - 1]
                        ELSE Append(c[(Len(s) + k) - 1], sr[Len(s) + k])
    <3> DEFINE n == Len(s) + k
    <3>1. n \in 0 .. Len(sr) /\ n # 0
      BY <2>5
    <3> HIDE DEF n
    <3>2. c[n] = IF sr[n] \in Unwritten THEN c[n - 1] ELSE Append(c[n - 1], sr[n])
      BY <3>1, <1>4 DEF BareTo
    <3> QED  BY <3>2 DEF n
  <2>9. b[k] = IF r[k] \in Unwritten THEN b[k - 1] ELSE Append(b[k - 1], r[k])
    BY <2>3, <2>4, <1>3 DEF BareTo
  <2>10. b[k - 1] \in Seq(S)
    BY <2>5
  <2> DEFINE a1 == a[Len(s)]
             b1 == b[k - 1]
             b2 == b[k]
             c1 == c[Len(s) + (k - 1)]
             c2 == c[Len(s) + k]
             t  == r[k]
  <2>11. /\ a1 \in Seq(S) /\ b1 \in Seq(S) /\ t \in S /\ Glued(c1, a1, b1)
         /\ Bared(b2, b1, t) /\ Bared(c2, c1, t)
    BY <2>5, <2>6, <2>7, <2>8, <2>9, <2>10, <1>6 DEF Glued, Bared
  <2>12. ~Glued(c2, a1, b2)
    BY <2>3 DEF Glued
  <2> HIDE DEF a1, b1, b2, c1, c2, t
  <2> QED  BY <2>11, <2>12, BareGrows, Zenon
<1>8. c[Len(s) + Len(r)] = a[Len(s)] \o b[Len(r)]
  <2>1. Len(r) \in 0 .. Len(r)
    BY <1>1
  <2> QED  BY <2>1, <1>7
<1> QED  BY <1>1, <1>2, <1>3, <1>4, <1>6, <1>8 DEF Glued

LEMMA BareShort ==
  /\ Bare(<<>>) = <<>>
  /\ \A t : Bare(<<t>>) = IF t \in Unwritten THEN <<>> ELSE <<t>>
<1>1. Bare(<<>>) = <<>>
  <2>1. <<>> \in Seq({}) /\ Len(<<>>) = 0
    OBVIOUS
  <2>2. PICK b \in [0 .. Len(<<>>) -> Seq({})] : BareTo(b, <<>>) /\ Bare(<<>>) = b[Len(<<>>)]
    BY <2>1, BareIs
  <2> QED  BY <2>1, <2>2 DEF BareTo
<1>2. ASSUME NEW t  PROVE Bare(<<t>>) = IF t \in Unwritten THEN <<>> ELSE <<t>>
  <2>1. <<t>> \in Seq({t}) /\ Len(<<t>>) = 1 /\ <<t>>[1] = t /\ Append(<<>>, t) = <<t>>
    OBVIOUS
  <2>2. PICK b \in [0 .. Len(<<t>>) -> Seq({t})] : BareTo(b, <<t>>) /\ Bare(<<t>>) = b[Len(<<t>>)]
    BY <2>1, BareIs
  <2>3. b[0] = <<>> /\ 1 - 1 = 0 /\ 0 \in 0 .. Len(<<t>>) /\ 1 \in 0 .. Len(<<t>>)
    BY <2>1, <2>2 DEF BareTo
  <2>4. b[1] = IF t \in Unwritten THEN b[1 - 1] ELSE Append(b[1 - 1], t)
    <3> DEFINE s == <<t>>
    <3> HIDE DEF s
    <3>1. 1 \in 0 .. Len(s) /\ BareTo(b, s) /\ s[1] = t
      BY <2>1, <2>2, <2>3 DEF s
    <3>2. \A k \in 0 .. Len(s) : k # 0 =>
            b[k] = IF s[k] \in Unwritten THEN b[k - 1] ELSE Append(b[k - 1], s[k])
      BY <3>1, Zenon DEF BareTo
    <3>3. 1 # 0
      OBVIOUS
    <3> QED  BY <3>1, <3>2, <3>3, Zenon
  <2> QED  BY <2>1, <2>2, <2>3, <2>4
<1> QED  BY <1>1, <1>2

-----------------------------------------------------------------------------
(* What steps push                                                           *)

Symbols == StepNames \cup {"(", ")", "-"}
Entries(S) == [text : Seq(S), level : 1 .. FACTOR]

(* The steps leave e on the stack, and all that was there below it. *)
Pushes(S, p, e) ==
  /\ p \in Seq(StepNames) /\ e \in Entries(S)
  /\ \A stack \in Seq(Entries(S)) : Run(stack, p) = Append(stack, e)

Leaf(t)       == [text |-> <<t>>, level |-> FACTOR]
Negative(e)   == [text |-> <<"-">> \o Within(e, FACTOR), level |-> FACTOR]
Compound(o, d, e) ==
  [text  |-> Append(Within(d, LevelOf(o)), o) \o Within(e, LevelOf(o) + 1),
   level |-> LevelOf(o)]

LEMMA TopOfStack ==
  ASSUME NEW T, NEW stack \in Seq(T), NEW e \in T
  PROVE  /\ Append(stack, e) \in Seq(T) /\ Len(Append(stack, e)) - 1 = Len(stack)
         /\ Append(stack, e)[Len(Append(stack, e))] = e
         /\ SubSeq(Append(stack, e), 1, Len(stack)) = stack
<1> DEFINE a == Append(stack, e)
<1>1. /\ a \in Seq(T) /\ Len(a) = Len(stack) + 1 /\ Len(stack) \in Nat
      /\ a[Len(stack) + 1] = e /\ \A k \in 1 .. Len(stack) : a[k] = stack[k]
  OBVIOUS
<1> HIDE DEF a
<1>2. SubSeq(a, 1, Len(stack)) = stack
  <2>1. \A k \in 1 .. Len(stack) : a[k] \in T
    BY <1>1
  <2> DEFINE b == SubSeq(a, 1, Len(stack))
  <2>2. /\ b \in Seq(T)
        /\ Len(b) = (IF 1 <= Len(stack) THEN Len(stack) - 1 + 1 ELSE 0)
        /\ \A k \in 1 .. Len(stack) - 1 + 1 : b[k] = a[1 + k - 1]
    BY <1>1, <2>1, SubSeqProperties
  <2> HIDE DEF b
  <2>3. Len(b) = Len(stack) /\ Len(stack) - 1 + 1 = Len(stack) /\ \A k \in 1 .. Len(stack) : 1 + k - 1 = k
    BY <1>1, <2>2
  <2>4. b = stack
    BY <1>1, <2>2, <2>3, SeqEqual
  <2> QED  BY <2>4 DEF b
<1>3. Len(a) - 1 = Len(stack) /\ a[Len(a)] = e
  BY <1>1
<1> QED  BY <1>1, <1>2, <1>3 DEF a

LEMMA TwoOnStack ==
  ASSUME NEW T, NEW stack \in Seq(T), NEW d \in T, NEW e \in T,
         NEW a, a = Append(Append(stack, d), e)
  PROVE  /\ a \in Seq(T) /\ a[Len(a) - 1] = d /\ a[Len(a)] = e
         /\ SubSeq(a, 1, Len(a) - 2) = stack
<1>1. /\ a \in Seq(T) /\ Len(a) = Len(stack) + 2 /\ Len(stack) \in Nat
      /\ a[Len(stack) + 2] = e /\ a[Len(stack) + 1] = d /\ \A k \in 1 .. Len(stack) : a[k] = stack[k]
  OBVIOUS
<1>2. Len(a) - 1 = Len(stack) + 1 /\ Len(a) - 2 = Len(stack)
  BY <1>1
<1>3. SubSeq(a, 1, Len(stack)) = stack
  <2>1. \A k \in 1 .. Len(stack) : a[k] \in T
    BY <1>1
  <2> DEFINE b == SubSeq(a, 1, Len(stack))
  <2>2. /\ b \in Seq(T)
        /\ Len(b) = (IF 1 <= Len(stack) THEN Len(stack) - 1 + 1 ELSE 0)
        /\ \A k \in 1 .. Len(stack) - 1 + 1 : b[k] = a[1 + k - 1]
    BY <1>1, <2>1, SubSeqProperties
  <2> HIDE DEF b
  <2>3. Len(b) = Len(stack) /\ Len(stack) - 1 + 1 = Len(stack) /\ \A k \in 1 .. Len(stack) : 1 + k - 1 = k
    BY <1>1, <2>2
  <2>4. b = stack
    BY <1>1, <2>2, <2>3, SeqEqual
  <2> QED  BY <2>4 DEF b
<1> QED  BY <1>1, <1>2, <1>3

LEMMA PushLeaf ==
  ASSUME NEW t \in Operands \cup {Missing}, NEW stack
  PROVE  Push(stack, t) = Append(stack, Leaf(t))
<1>1. t # Sign /\ t \notin Binary
  BY LevelFacts, ExpressionAssumption DEF Sign, Missing
<1> QED  BY <1>1 DEF Push, Leaf

LEMMA PushSign ==
  ASSUME NEW T, NEW stack \in Seq(T), NEW e \in T
  PROVE  Push(Append(stack, e), Sign) = Append(stack, Negative(e))
<1>1. Sign \notin Binary
  BY LevelFacts DEF Sign
<1> DEFINE a == Append(stack, e)
<1>2. Len(a) - 1 = Len(stack) /\ a[Len(a)] = e /\ SubSeq(a, 1, Len(stack)) = stack
  BY TopOfStack
<1> HIDE DEF a
<1>3. Push(a, Sign) = Append(SubSeq(a, 1, Len(a) - 1), Negative(a[Len(a)]))
  BY <1>1 DEF Push, Negative
<1> QED  BY <1>2, <1>3 DEF a

LEMMA PushBinary ==
  ASSUME NEW T, NEW stack \in Seq(T), NEW d \in T, NEW e \in T, NEW o \in Binary
  PROVE  Push(Append(Append(stack, d), e), o) = Append(stack, Compound(o, d, e))
<1>1. o # Sign
  BY LevelFacts DEF Sign
<1> DEFINE a == Append(Append(stack, d), e)
<1>2. /\ a[Len(a) - 1] = d /\ a[Len(a)] = e
      /\ SubSeq(a, 1, Len(a) - 2) = stack
  BY TwoOnStack
<1> HIDE DEF a
<1>3. Push(a, o) = Append(SubSeq(a, 1, Len(a) - 2), Compound(o, a[Len(a) - 1], a[Len(a)]))
  BY <1>1 DEF Push, Compound
<1> QED  BY <1>2, <1>3 DEF a

LEMMA LevelOfFacts ==
  ASSUME NEW o \in Binary
  PROVE  /\ LevelOf(o) \in 1 .. FACTOR /\ LevelOf(o) + 1 \in 1 .. FACTOR /\ o \in Operators[LevelOf(o)]
         /\ \A l \in 1 .. FACTOR : o \in Operators[l] => l = LevelOf(o)
<1>1. \E l \in 1 .. FACTOR : o \in Operators[l]
  BY LevelFacts
<1>2. LevelOf(o) \in 1 .. FACTOR /\ o \in Operators[LevelOf(o)]
  BY <1>1 DEF LevelOf
<1>3. \A l, m \in 1 .. FACTOR : o \in Operators[l] /\ o \in Operators[m] => l = m
  BY LevelFacts
<1>4. LevelOf(o) # 4
  BY <1>2, LevelFacts
<1> QED  BY <1>2, <1>3, <1>4, LevelFacts

LEMMA WithinIs ==
  ASSUME NEW S, Symbols \subseteq S, NEW e \in Entries(S), NEW l
  PROVE  Within(e, l) \in Seq(S) /\ e.text \in Seq(S) /\ Bare(Within(e, l)) = Bare(e.text)
<1>1. e.text \in Seq(S)
  BY DEF Entries
<1>2. <<"(">> \in Seq(S) /\ <<")">> \in Seq(S)
  <2>1. "(" \in S /\ ")" \in S
    BY DEF Symbols
  <2> QED  BY <2>1
<1>3. Bare(<<"(">>) = <<>> /\ Bare(<<")">>) = <<>>
  BY BareShort, Zenon DEF Unwritten
<1>4. PICK text \in Seq(S) : text = e.text
  BY <1>1
<1>5. PICK open \in Seq(S), close \in Seq(S) : open = <<"(">> /\ close = <<")">>
  BY <1>2
<1>6. PICK x : Glued(x, open, text)
  BY DEF Glued
<1>7. PICK y : Glued(y, x, close)
  BY DEF Glued
<1>8a. x \in Seq(S) /\ Bare(open) \in Seq(S) /\ Glued(Bare(x), Bare(open), Bare(text))
  BY <1>6, BareJoined
<1>8b. y \in Seq(S) /\ Bare(x) \in Seq(S) /\ Glued(Bare(y), Bare(x), Bare(close))
  BY <1>7, <1>8a, BareJoined
<1>8. /\ x \in Seq(S) /\ Bare(text) \in Seq(S) /\ Glued(Bare(x), Bare(open), Bare(text))
      /\ y \in Seq(S) /\ Glued(Bare(y), Bare(x), Bare(close))
  BY <1>8a, <1>8b, BareTyped
<1>9. \A b \in Seq(S) : <<>> \o b = b /\ b \o <<>> = b
  OBVIOUS
<1>10. Bare(y) = Bare(text)
  BY <1>3, <1>5, <1>8, <1>9 DEF Glued
<1>11. Within(e, l) = IF e.level < l THEN y ELSE text
  BY <1>4, <1>5, <1>6, <1>7 DEF Within, Glued
<1> QED  BY <1>4, <1>8, <1>10, <1>11

LEMMA EntriesAre ==
  ASSUME NEW S, Symbols \subseteq S
  PROVE  /\ \A t \in Operands \cup {Missing} : Leaf(t) \in Entries(S)
         /\ \A e \in Entries(S) : Negative(e) \in Entries(S)
         /\ \A o \in Binary, d, e \in Entries(S) : Compound(o, d, e) \in Entries(S)
<1>1. ASSUME NEW t \in Operands \cup {Missing}  PROVE Leaf(t) \in Entries(S)
  <2>1. t \in S
    BY DEF Symbols, StepNames
  <2>2. <<t>> \in Seq(S) /\ FACTOR \in 1 .. FACTOR
    BY <2>1, LevelFacts
  <2> QED  BY <2>2 DEF Leaf, Entries
<1>2. ASSUME NEW e \in Entries(S)  PROVE Negative(e) \in Entries(S)
  <2>1. PICK w \in Seq(S) : w = Within(e, FACTOR)
    BY WithinIs
  <2>2. "-" \in S
    BY DEF Symbols
  <2>3. <<"-">> \o w \in Seq(S) /\ FACTOR \in 1 .. FACTOR
    BY <2>2, LevelFacts
  <2> QED  BY <2>1, <2>3 DEF Negative, Entries
<1>3. ASSUME NEW o \in Binary, NEW d \in Entries(S), NEW e \in Entries(S)
      PROVE  Compound(o, d, e) \in Entries(S)
  <2>1. PICK v \in Seq(S) : v = Within(d, LevelOf(o))
    BY WithinIs
  <2>2. PICK w \in Seq(S) : w = Within(e, LevelOf(o) + 1)
    BY WithinIs
  <2>3. o \in S
    BY DEF Symbols, StepNames
  <2>4. Append(v, o) \o w \in Seq(S)
    BY <2>3
  <2> QED  BY <2>1, <2>2, <2>4, LevelOfFacts DEF Compound, Entries
<1> QED  BY <1>1, <1>2, <1>3

LEMMA GluedFacts ==
  ASSUME NEW S, NEW p \in Seq(S), NEW q \in Seq(S), NEW x, Glued(x, p, q)
  PROVE  x \in Seq(S)
BY DEF Glued

LEMMA GluedOnce ==
  ASSUME NEW x, NEW y, NEW p, NEW q, Glued(x, p, q), Glued(y, p, q)
  PROVE  x = y
BY DEF Glued

LEMMA GluedThrice ==
  ASSUME NEW S, NEW p \in Seq(S), NEW q \in Seq(S), NEW r \in Seq(S),
         NEW x, NEW y, NEW z, Glued(x, p, q), Glued(y, q, r)
  PROVE  Glued(z, x, r) <=> Glued(z, p, y)
<1>1. (p \o q) \o r = p \o (q \o r)
  BY ConcatAssociative
<1> QED  BY <1>1 DEF Glued

LEMMA GluedEmpty ==
  ASSUME NEW S, NEW p \in Seq(S)
  PROVE  /\ Glued(p, <<>>, p) /\ Glued(p, p, <<>>)
         /\ \A z : Glued(z, <<>>, p) \/ Glued(z, p, <<>>) => z = p
<1>1. <<>> \o p = p /\ p \o <<>> = p
  OBVIOUS
<1> QED  BY <1>1 DEF Glued

LEMMA GluedLast ==
  ASSUME NEW S, NEW p \in Seq(S), NEW t \in S
  PROVE  Append(p, t) \in Seq(S) /\ Glued(Append(p, t), p, <<t>>) /\ <<t>> \in Seq(S)
BY DEF Glued

LEMMA PushesLeaf ==
  ASSUME NEW S, Symbols \subseteq S, NEW t \in Operands \cup {Missing}
  PROVE  Pushes(S, <<t>>, Leaf(t))
<1>1. <<t>> \in Seq(StepNames)
  <2>1. t \in StepNames
    BY DEF StepNames
  <2> QED  BY <2>1
<1>2. \A stack : Run(stack, <<t>>) = Append(stack, Leaf(t))
  BY RunOne, PushLeaf
<1> QED  BY <1>1, <1>2, EntriesAre DEF Pushes

LEMMA PushesSign ==
  ASSUME NEW S, Symbols \subseteq S, NEW p, NEW e, Pushes(S, p, e)
  PROVE  Pushes(S, Append(p, Sign), Negative(e))
<1>1. Sign \in StepNames /\ p \in Seq(StepNames) /\ e \in Entries(S)
  BY DEF StepNames, Pushes
<1>2. Append(p, Sign) \in Seq(StepNames)
  BY <1>1
<1>3. ASSUME NEW stack \in Seq(Entries(S))
      PROVE  Run(stack, Append(p, Sign)) = Append(stack, Negative(e))
  <2>1. Run(stack, Append(p, Sign)) = Push(Run(stack, p), Sign)
    BY <1>1, RunAppend
  <2>2. Run(stack, p) = Append(stack, e)
    BY DEF Pushes
  <2> QED  BY <2>1, <2>2, <1>1, PushSign
<1> QED  BY <1>1, <1>2, <1>3, EntriesAre DEF Pushes

LEMMA PushesBinary ==
  ASSUME NEW S, Symbols \subseteq S, NEW p, NEW d, Pushes(S, p, d), NEW q, NEW e, Pushes(S, q, e),
         NEW o \in Binary, NEW x, Glued(x, p, q)
  PROVE  Pushes(S, Append(x, o), Compound(o, d, e))
<1>1. o \in StepNames /\ p \in Seq(StepNames) /\ q \in Seq(StepNames) /\ d \in Entries(S) /\ e \in Entries(S)
  BY DEF StepNames, Pushes
<1>2. x \in Seq(StepNames) /\ Append(x, o) \in Seq(StepNames)
  BY <1>1 DEF Glued
<1>3. ASSUME NEW stack \in Seq(Entries(S))
      PROVE  Run(stack, Append(x, o)) = Append(stack, Compound(o, d, e))
  <2>1. Run(stack, Append(x, o)) = Push(Run(stack, x), o)
    BY <1>1, <1>2, RunAppend
  <2>2. Run(stack, x) = Run(Run(stack, p), q)
    BY <1>1, RunJoined DEF Glued
  <2>3. Run(stack, p) = Append(stack, d)
    BY DEF Pushes
  <2>4. Append(stack, d) \in Seq(Entries(S))
    BY <1>1
  <2>5. Run(Append(stack, d), q) = Append(Append(stack, d), e)
    BY <2>4 DEF Pushes
  <2>6. Push(Append(Append(stack, d), e), o) = Append(stack, Compound(o, d, e))
    BY <1>1, PushBinary
  <2> QED  BY <2>1, <2>2, <2>3, <2>5, <2>6
<1> QED  BY <1>1, <1>2, <1>3, EntriesAre DEF Pushes

-----------------------------------------------------------------------------
(* Pieces of a line                                                          *)

Slice(s, i, n) == SubSeq(s, i, n - 1)
Read(s, i, n)  == Bare(Slice(s, i, n))

LEMMA SliceIs ==
  ASSUME NEW S, NEW s \in Seq(S), NEW i \in 1 .. Len(s) + 1, NEW n \in i .. Len(s) + 1
  PROVE  /\ Slice(s, i, n) \in Seq(S) /\ Len(Slice(s, i, n)) = n - i
         /\ \A k \in 1 .. n - i : Slice(s, i, n)[k] = s[i + k - 1]
<1>1. Len(s) \in Nat /\ i \in Int /\ n \in Int /\ n - 1 \in Int /\ i <= n /\ 1 <= i /\ n <= Len(s) + 1
  OBVIOUS
<1>2. \A k \in i .. n - 1 : s[k] \in S
  BY <1>1
<1> DEFINE b == SubSeq(s, i, n - 1)
<1>3. /\ b \in Seq(S)
      /\ Len(b) = (IF i <= n - 1 THEN (n - 1) - i + 1 ELSE 0)
      /\ \A k \in 1 .. (n - 1) - i + 1 : b[k] = s[i + k - 1]
  BY <1>1, <1>2, SubSeqProperties
<1> HIDE DEF b
<1>4. (n - 1) - i + 1 = n - i /\ Len(b) = n - i
  BY <1>1, <1>3
<1> QED  BY <1>3, <1>4 DEF Slice, b

LEMMA SliceJoins ==
  ASSUME NEW S, NEW s \in Seq(S), NEW i \in 1 .. Len(s) + 1, NEW n \in i .. Len(s) + 1,
         NEW m \in n .. Len(s) + 1
  PROVE  Glued(Slice(s, i, m), Slice(s, i, n), Slice(s, n, m))
<1>1. Len(s) \in Nat /\ i \in Nat /\ n \in Nat /\ m \in Nat
  OBVIOUS
<1>2. n \in 1 .. Len(s) + 1 /\ m \in i .. Len(s) + 1 /\ i <= n /\ n <= m
  BY <1>1
<1> DEFINE a == Slice(s, i, n)
           b == Slice(s, n, m)
           c == Slice(s, i, m)
<1>3. /\ a \in Seq(S) /\ Len(a) = n - i /\ \A k \in 1 .. n - i : a[k] = s[i + k - 1]
      /\ b \in Seq(S) /\ Len(b) = m - n /\ \A k \in 1 .. m - n : b[k] = s[n + k - 1]
      /\ c \in Seq(S) /\ Len(c) = m - i /\ \A k \in 1 .. m - i : c[k] = s[i + k - 1]
  BY <1>2, SliceIs
<1> HIDE DEF a, b, c
<1>4. /\ a \o b \in Seq(S) /\ Len(a \o b) = Len(a) + Len(b)
      /\ \A k \in 1 .. Len(a) + Len(b) : (a \o b)[k] = IF k <= Len(a) THEN a[k] ELSE b[k - Len(a)]
  BY <1>3, ConcatProperties
<1> DEFINE x == a \o b
<1>5. /\ x \in Seq(S) /\ Len(x) = m - i
      /\ \A k \in 1 .. m - i : x[k] = IF k <= n - i THEN a[k] ELSE b[k - (n - i)]
  <2>1. Len(a) + Len(b) = m - i
    BY <1>1, <1>3
  <2> QED  BY <2>1, <1>3, <1>4
<1> HIDE DEF x
<1>6. ASSUME NEW k \in 1 .. m - i  PROVE x[k] = c[k]
  <2>1. c[k] = s[i + k - 1]
    BY <1>3
  <2>2. CASE k <= n - i
    <3>1. k \in 1 .. n - i
      BY <2>2, <1>1
    <3> QED  BY <2>1, <2>2, <3>1, <1>3, <1>5
  <2>3. CASE ~(k <= n - i)
    <3>1. k - (n - i) \in 1 .. m - n /\ n + (k - (n - i)) - 1 = i + k - 1
      BY <2>3, <1>1, <1>2
    <3>2. b[k - (n - i)] = s[n + (k - (n - i)) - 1]
      BY <3>1, <1>3
    <3> QED  BY <2>1, <2>3, <3>1, <3>2, <1>5
  <2> QED  BY <2>2, <2>3
<1>7. c = x
  BY <1>3, <1>5, <1>6, SeqEqual
<1> QED  BY <1>7 DEF a, b, c, x, Glued

LEMMA SliceShort ==
  ASSUME NEW S, NEW s \in Seq(S), NEW i \in 1 .. Len(s) + 1
  PROVE  /\ Slice(s, i, i) = <<>>
         /\ i <= Len(s) => Slice(s, i, i + 1) = <<s[i]>>
         /\ Slice(s, 1, Len(s) + 1) = s
<1>1. Len(s) \in Nat /\ i \in Nat /\ i >= 1
  OBVIOUS
<1>2. Slice(s, i, i) = <<>>
  <2>1. i \in i .. Len(s) + 1 /\ i - i = 0
    BY <1>1
  <2>2. Slice(s, i, i) \in Seq(S) /\ Len(Slice(s, i, i)) = 0
    BY <2>1, SliceIs
  <2> QED  BY <2>2
<1>3. ASSUME i <= Len(s)  PROVE Slice(s, i, i + 1) = <<s[i]>>
  <2>1. i + 1 \in i .. Len(s) + 1 /\ (i + 1) - i = 1 /\ i + 1 - 1 = i /\ s[i] \in S
    BY <1>1, <1>3
  <2> DEFINE b == Slice(s, i, i + 1)
  <2>1a. PICK n \in i .. Len(s) + 1 : n = i + 1
    BY <2>1
  <2>1b. /\ Slice(s, i, n) \in Seq(S) /\ Len(Slice(s, i, n)) = n - i
         /\ \A k \in 1 .. n - i : Slice(s, i, n)[k] = s[i + k - 1]
    BY SliceIs
  <2>2. b \in Seq(S) /\ Len(b) = 1 /\ \A k \in 1 .. 1 : b[k] = s[i + k - 1]
    BY <2>1, <2>1a, <2>1b
  <2> HIDE DEF b
  <2>3. b[1] = s[i]
    BY <2>1, <2>2
  <2>4. b = <<s[i]>>
    BY <2>1, <2>2, <2>3
  <2> QED  BY <2>4 DEF b
<1>4. Slice(s, 1, Len(s) + 1) = s
  <2>1. 1 \in 1 .. Len(s) + 1 /\ Len(s) + 1 \in 1 .. Len(s) + 1 /\ (Len(s) + 1) - 1 = Len(s)
    BY <1>1
  <2> DEFINE b == Slice(s, 1, Len(s) + 1)
  <2>1a. PICK n \in 1 .. Len(s) + 1 : n = Len(s) + 1
    BY <2>1
  <2>1b. /\ Slice(s, 1, n) \in Seq(S) /\ Len(Slice(s, 1, n)) = n - 1
         /\ \A k \in 1 .. n - 1 : Slice(s, 1, n)[k] = s[1 + k - 1]
    BY <2>1, SliceIs
  <2>2. b \in Seq(S) /\ Len(b) = Len(s) /\ \A k \in 1 .. Len(s) : b[k] = s[1 + k - 1]
    BY <2>1, <2>1a, <2>1b
  <2> HIDE DEF b
  <2>3. \A k \in 1 .. Len(s) : 1 + k - 1 = k
    BY <1>1
  <2>4. b = s
    BY <2>2, <2>3, SeqEqual
  <2> QED  BY <2>4 DEF b
<1> QED  BY <1>2, <1>3, <1>4

LEMMA ReadIs ==
  ASSUME NEW S, NEW s \in Seq(S), NEW i \in 1 .. Len(s) + 1
  PROVE  /\ Read(s, i, i) = <<>>
         /\ i <= Len(s) => Read(s, i, i + 1) = (IF s[i] \in Unwritten THEN <<>> ELSE <<s[i]>>)
         /\ Read(s, 1, Len(s) + 1) = Bare(s)
         /\ \A n \in i .. Len(s) + 1 :
              /\ Read(s, i, n) \in Seq(S)
              /\ \A m \in n .. Len(s) + 1 : Glued(Read(s, i, m), Read(s, i, n), Read(s, n, m))
<1>1. Read(s, i, i) = <<>> /\ Read(s, 1, Len(s) + 1) = Bare(s)
  BY SliceShort, BareShort DEF Read
<1>2. i <= Len(s) => Read(s, i, i + 1) = (IF s[i] \in Unwritten THEN <<>> ELSE <<s[i]>>)
  BY SliceShort, BareShort DEF Read
<1>3. ASSUME NEW n \in i .. Len(s) + 1  PROVE Read(s, i, n) \in Seq(S)
  BY SliceIs, BareTyped DEF Read
<1>4. ASSUME NEW n \in i .. Len(s) + 1, NEW m \in n .. Len(s) + 1
      PROVE  Glued(Read(s, i, m), Read(s, i, n), Read(s, n, m))
  <2>1. Len(s) \in Nat
    OBVIOUS
  <2>2. n \in 1 .. Len(s) + 1
    BY <2>1
  <2>3. Slice(s, i, n) \in Seq(S) /\ Slice(s, n, m) \in Seq(S)
    BY <2>2, SliceIs
  <2>4. Glued(Slice(s, i, m), Slice(s, i, n), Slice(s, n, m))
    BY SliceJoins
  <2> QED  BY <2>3, <2>4, BareJoined DEF Read
<1> QED  BY <1>1, <1>2, <1>3, <1>4

(* The text of an entry is what was taken, each once and in order.           *)
LEMMA BareOfEntries ==
  ASSUME NEW S, Symbols \subseteq S
  PROVE  /\ \A e \in Entries(S) : Bare(e.text) \in Seq(S)
         /\ \A t \in Operands : Bare(Leaf(t).text) = <<t>>
         /\ Bare(Leaf(Missing).text) = <<>>
         /\ \A e \in Entries(S) : Glued(Bare(Negative(e).text), <<"-">>, Bare(e.text))
         /\ \A o \in Binary, d, e \in Entries(S) : \A x :
              Glued(x, <<o>>, Bare(e.text)) => Glued(Bare(Compound(o, d, e).text), Bare(d.text), x)
<1>1. ASSUME NEW e \in Entries(S)  PROVE Bare(e.text) \in Seq(S)
  BY WithinIs, BareTyped
<1>2. ASSUME NEW t \in Operands  PROVE Bare(Leaf(t).text) = <<t>>
  <2>1. t \notin Unwritten
    BY LevelFacts DEF Unwritten
  <2>2. Leaf(t).text = <<t>>
    BY DEF Leaf
  <2> QED  BY <2>1, <2>2, BareShort
<1>3. Bare(Leaf(Missing).text) = <<>>
  <2>1. Missing \in Unwritten /\ Leaf(Missing).text = <<Missing>>
    BY DEF Unwritten, Leaf
  <2> QED  BY <2>1, BareShort
<1>4. ASSUME NEW e \in Entries(S)  PROVE Glued(Bare(Negative(e).text), <<"-">>, Bare(e.text))
  <2>1. "-" \in S /\ "-" \notin Unwritten
    BY DEF Symbols, Unwritten, Missing
  <2>2. <<"-">> \in Seq(S) /\ Bare(<<"-">>) = <<"-">>
    BY <2>1, BareShort
  <2>3. Within(e, FACTOR) \in Seq(S) /\ Bare(Within(e, FACTOR)) = Bare(e.text)
    BY WithinIs
  <2>4. Glued(Negative(e).text, <<"-">>, Within(e, FACTOR))
    BY DEF Glued, Negative
  <2> QED  BY <2>2, <2>3, <2>4, BareJoined
<1>5. ASSUME NEW o \in Binary, NEW d \in Entries(S), NEW e \in Entries(S), NEW x,
             Glued(x, <<o>>, Bare(e.text))
      PROVE  Glued(Bare(Compound(o, d, e).text), Bare(d.text), x)
  <2>1. o \in S /\ o \notin Unwritten
    BY LevelFacts DEF Symbols, StepNames, Unwritten, Missing
  <2>2. <<o>> \in Seq(S) /\ Bare(<<o>>) = <<o>>
    BY <2>1, BareShort
  <2>3. PICK v \in Seq(S) : v = Within(d, LevelOf(o)) /\ Bare(v) = Bare(d.text)
    BY WithinIs
  <2>4. PICK w \in Seq(S) : w = Within(e, LevelOf(o) + 1) /\ Bare(w) = Bare(e.text)
    BY WithinIs
  <2>5. Append(v, o) \in Seq(S) /\ Glued(Append(v, o), v, <<o>>)
    BY <2>1, GluedLast
  <2>6. PICK y : Glued(y, Append(v, o), w) /\ y = Compound(o, d, e).text
    BY <2>3, <2>4 DEF Glued, Compound
  <2>7. Glued(Bare(y), Bare(Append(v, o)), Bare(w))
    BY <2>5, <2>6, BareJoined
  <2>8. Glued(Bare(Append(v, o)), Bare(v), Bare(<<o>>))
    BY <2>2, <2>5, BareJoined
  <2>9. Bare(v) \in Seq(S) /\ Bare(w) \in Seq(S)
    BY BareTyped
  <2>10. Glued(Bare(y), Bare(v), x)
    <3> DEFINE u == <<o>>
               av == Bare(Append(v, o))
               bv == Bare(v)
               bw == Bare(w)
               b  == Bare(y)
    <3>1. /\ u \in Seq(S) /\ bv \in Seq(S) /\ bw \in Seq(S)
          /\ Glued(av, bv, u) /\ Glued(x, u, bw) /\ Glued(b, av, bw)
      BY <1>5, <2>2, <2>4, <2>7, <2>8, <2>9
    <3> HIDE DEF u, av, bv, bw, b
    <3>2. Glued(b, bv, x)
      BY <3>1, GluedThrice
    <3> QED  BY <3>2 DEF b, bv
  <2> QED  BY <2>3, <2>6, <2>10
<1> QED  BY <1>1, <1>2, <1>3, <1>4, <1>5

-----------------------------------------------------------------------------
(* Nothing is skipped                                                        *)

(* A part pushes what it has read; the loop of a level, what is there too.   *)
Faithful(S, s, of, x) ==
  IF x[1] = "whole"
  THEN \E e : Pushes(S, of[x].steps, e) /\ Bare(e.text) = Read(s, x[3], of[x].next)
  ELSE \A p, d, y : Pushes(S, p, d) /\ Glued(y, p, of[x].steps)
         => \E e : Pushes(S, y, e) /\ Glued(Bare(e.text), Bare(d.text), Read(s, x[3], of[x].next))

LEMMA PushesTyped ==
  ASSUME NEW S, Symbols \subseteq S, NEW p, NEW e, Pushes(S, p, e)
  PROVE  p \in Seq(StepNames) /\ e \in Entries(S) /\ Bare(e.text) \in Seq(S)
BY BareOfEntries DEF Pushes

LEMMA ParserPart ==
  ASSUME NEW S, NEW s \in Seq(S), NEW of, IsParser(s, of), NEW x \in Parts(s), NEW r, r = of[x]
  PROVE  /\ r.steps \in Seq(StepNames) /\ r.next \in 1 .. Len(s) + 1
         /\ x[3] <= r.next /\ r = Part(of, s, x)
<1>1. r \in Readings(s) /\ x[3] <= r.next /\ r = Part(of, s, x)
  BY DEF IsParser
<1> QED  BY <1>1 DEF Readings

LEMMA ParserRest ==
  ASSUME NEW S, NEW s \in Seq(S), NEW of, IsParser(s, of),
         NEW l \in 1 .. FACTOR, NEW i \in 1 .. Len(s) + 1, NEW r, r = of[<<"rest", l, i>>]
  PROVE  /\ <<"rest", l, i>> \in Parts(s) /\ r.steps \in Seq(StepNames)
         /\ r.next \in 1 .. Len(s) + 1 /\ i <= r.next /\ r = Rest(of, s, l, i)
<1>1. PICK x \in Parts(s) : x = <<"rest", l, i>>
  BY PartFacts
<1>2. x[1] = "rest" /\ x[2] = l /\ x[3] = i
  BY <1>1
<1>3. Part(of, s, x) = Rest(of, s, l, i)
  BY <1>2 DEF Part
<1>4. /\ r.steps \in Seq(StepNames) /\ r.next \in 1 .. Len(s) + 1
      /\ x[3] <= r.next /\ r = Part(of, s, x)
  BY <1>1, ParserPart
<1> QED  BY <1>1, <1>2, <1>3, <1>4

LEMMA ParserWhole ==
  ASSUME NEW S, NEW s \in Seq(S), NEW of, IsParser(s, of),
         NEW l \in 1 .. FACTOR, NEW i \in 1 .. Len(s) + 1, NEW r, r = of[<<"whole", l, i>>]
  PROVE  /\ <<"whole", l, i>> \in Parts(s) /\ r.steps \in Seq(StepNames)
         /\ r.next \in 1 .. Len(s) + 1 /\ i <= r.next
         /\ r = IF l = FACTOR THEN Factor(of, s, i) ELSE Level(of, s, l, i)
<1>1. PICK x \in Parts(s) : x = <<"whole", l, i>>
  BY PartFacts
<1>2. x[1] = "whole" /\ x[2] = l /\ x[3] = i
  BY <1>1
<1>3. Part(of, s, x) = IF l = FACTOR THEN Factor(of, s, i) ELSE Level(of, s, l, i)
  <2>1. l = FACTOR \/ (l # FACTOR /\ l < FACTOR)
    BY LevelFacts
  <2> QED  BY <1>2, <2>1 DEF Part
<1>4. /\ r.steps \in Seq(StepNames) /\ r.next \in 1 .. Len(s) + 1
      /\ x[3] <= r.next /\ r = Part(of, s, x)
  BY <1>1, ParserPart
<1> QED  BY <1>1, <1>2, <1>3, <1>4

LEMMA BeforeFacts ==
  ASSUME NEW S, NEW s \in Seq(S), NEW x, x \in Parts(s),
         NEW k, NEW l \in 1 .. FACTOR, NEW i \in 1 .. Len(s) + 1, x = <<k, l, i>>,
         NEW h, NEW m \in 1 .. FACTOR, NEW j \in 1 .. Len(s) + 1, <<h, m, j>> \in Parts(s),
         j > i \/ (j = i /\ k = "whole" /\ (h = "rest" \/ m > l))
  PROVE  Precedes(Left(s), Below(s), <<h, m, j>>, x)
<1>1. /\ Left(s)[<<h, m, j>>] = Len(s) + 1 - j /\ Left(s)[<<k, l, i>>] = Len(s) + 1 - i
      /\ Below(s)[<<h, m, j>>] = (IF h = "rest" THEN 0 ELSE 5 - m)
      /\ Below(s)[<<k, l, i>>] = (IF k = "rest" THEN 0 ELSE 5 - l)
  BY DEF Left, Below
<1>2. m \in {1, 2, 3, 4} /\ l \in {1, 2, 3, 4} /\ Len(s) \in Nat
  BY LevelFacts, PartFacts
<1>3. j > i => Len(s) + 1 - j < Len(s) + 1 - i
  BY <1>2
<1>4. (h = "rest" \/ m > l) /\ k = "whole"
        => (IF h = "rest" THEN 0 ELSE 5 - m) < (IF k = "rest" THEN 0 ELSE 5 - l)
  BY <1>2
<1> QED  BY <1>1, <1>3, <1>4, Zenon DEF Precedes

LEMMA ReadOn ==
  ASSUME NEW S, NEW s \in Seq(S), NEW i \in 1 .. Len(s) + 1, NEW n \in 1 .. Len(s) + 1,
         NEW m \in 1 .. Len(s) + 1, i <= n, n <= m
  PROVE  /\ Read(s, i, n) \in Seq(S) /\ Read(s, n, m) \in Seq(S) /\ Read(s, i, m) \in Seq(S)
         /\ Glued(Read(s, i, m), Read(s, i, n), Read(s, n, m))
<1>1. n \in i .. Len(s) + 1 /\ m \in n .. Len(s) + 1 /\ m \in i .. Len(s) + 1
  OBVIOUS
<1> QED  BY <1>1, ReadIs

(* An operator and what follows it, after what was there. *)
LEMMA GluedOperator ==
  ASSUME NEW S, NEW d \in Seq(S), NEW o \in Seq(S), NEW e \in Seq(S), NEW r \in Seq(S),
         NEW oe, Glued(oe, o, e), NEW c, Glued(c, d, oe), NEW oer, Glued(oer, oe, r),
         NEW z, Glued(z, c, r)
  PROVE  Glued(z, d, oer)
<1>1. oe \in Seq(S)
  BY GluedFacts
<1> QED  BY <1>1, GluedThrice

LEMMA LoopSteps ==
  ASSUME NEW S, NEW p \in Seq(S), NEW q \in Seq(S), NEW t \in S, NEW r \in Seq(S),
         NEW x, Glued(x, p, q), NEW y, Glued(y, p, Append(q, t) \o r)
  PROVE  Glued(y, Append(x, t), r)
<1>1. x \in Seq(S) /\ Append(q, t) \in Seq(S)
  BY GluedFacts
<1>2. PICK qt \in Seq(S) : qt = Append(q, t)
  BY <1>1
<1>3. PICK xt : xt = Append(x, t)
  OBVIOUS
<1>4. PICK qtr : qtr = qt \o r
  OBVIOUS
<1>5. xt = p \o qt
  BY <1>2, <1>3, AppendJoined DEF Glued
<1>6. Glued(xt, p, qt) /\ Glued(qtr, qt, r) /\ Glued(y, p, qtr)
  BY <1>2, <1>4, <1>5 DEF Glued
<1>7. Glued(y, xt, r)
  BY <1>6, GluedThrice
<1> QED  BY <1>7, <1>3

LEMMA RestIsFaithful ==
  ASSUME NEW S, Symbols \subseteq S, NEW s \in Seq(S), NEW of, IsParser(s, of),
         NEW l \in 1 .. FACTOR, NEW i \in 1 .. Len(s) + 1,
         \A y \in Parts(s) : Precedes(Left(s), Below(s), y, <<"rest", l, i>>) => Faithful(S, s, of, y)
  PROVE  Faithful(S, s, of, <<"rest", l, i>>)
<1> DEFINE x == <<"rest", l, i>>
<1>1. x \in Parts(s) /\ of[x] = Rest(of, s, l, i)
  BY ParserRest
<1> SUFFICES ASSUME NEW p, NEW d, NEW y, Pushes(S, p, d), Glued(y, p, of[x].steps)
             PROVE  \E e : Pushes(S, y, e) /\ Glued(Bare(e.text), Bare(d.text), Read(s, i, of[x].next))
  BY DEF Faithful
<1>2. p \in Seq(StepNames) /\ d \in Entries(S) /\ Bare(d.text) \in Seq(S)
  BY PushesTyped
<1>3. CASE Token(s, i) \notin Operators[l]
  <2>1. of[x].steps = <<>> /\ of[x].next = i
    BY <1>1, <1>3 DEF Rest
  <2>2. y = p
    BY <1>2, <2>1, GluedEmpty
  <2>3. Glued(Bare(d.text), Bare(d.text), Read(s, i, i))
    BY <1>2, ReadIs, GluedEmpty
  <2> QED  BY <2>1, <2>2, <2>3
<1>4. CASE Token(s, i) \in Operators[l]
  <2> DEFINE t == Token(s, i)
             q == of[<<"whole", l + 1, i + 1>>]
             more == of[<<"rest", l, q.next>>]
  <2>1. /\ l + 1 \in 1 .. FACTOR /\ i + 1 \in 1 .. Len(s) + 1 /\ i + 1 > i /\ i <= Len(s)
        /\ t \in Binary /\ t = s[i]
    BY <1>4, TokenFacts
  <2>2. q.steps \in Seq(StepNames) /\ q.next \in 1 .. Len(s) + 1 /\ i + 1 <= q.next
        /\ <<"whole", l + 1, i + 1>> \in Parts(s)
    BY <2>1, ParserWhole
  <2>3. of[x].steps = Append(q.steps, t) \o more.steps /\ of[x].next = more.next
    <3> DEFINE w == Append(q.steps, t) \o more.steps
    <3>1. Rest(of, s, l, i) = [steps |-> w, next |-> more.next]
      BY <1>4, Zenon DEF Rest
    <3> HIDE DEF x, w, more
    <3>2. of[x].steps = w /\ of[x].next = more.next
      BY <1>1, <3>1
    <3> QED  BY <3>2 DEF w
  <2>4. Faithful(S, s, of, <<"whole", l + 1, i + 1>>)
    BY <1>1, <2>1, <2>2, BeforeFacts
  <2>5. PICK e1 : Pushes(S, q.steps, e1) /\ Bare(e1.text) = Read(s, i + 1, q.next)
    BY <2>4 DEF Faithful
  <2> HIDE DEF q
  <2>6. more.steps \in Seq(StepNames) /\ more.next \in 1 .. Len(s) + 1 /\ q.next <= more.next
        /\ <<"rest", l, q.next>> \in Parts(s)
    BY <2>2, ParserRest
  <2>7. Faithful(S, s, of, <<"rest", l, q.next>>)
    <3>1. q.next > i
      BY <2>1, <2>2
    <3> QED  BY <3>1, <1>1, <2>2, <2>6, BeforeFacts
  <2>8. PICK z : Glued(z, p, q.steps)
    BY DEF Glued
  <2>9. Pushes(S, Append(z, t), Compound(t, d, e1))
    BY <2>1, <2>5, <2>8, PushesBinary
  <2>10. Glued(y, Append(z, t), more.steps)
    <3> HIDE DEF more, t
    <3>1. t \in StepNames
      BY <2>1 DEF StepNames
    <3> QED  BY <3>1, <1>2, <2>2, <2>3, <2>6, <2>8, LoopSteps
  <2>11. PICK e : /\ Pushes(S, y, e)
                  /\ Glued(Bare(e.text), Bare(Compound(t, d, e1).text), Read(s, q.next, more.next))
    BY <2>7, <2>9, <2>10 DEF Faithful
  <2> HIDE DEF more
  <2>12. /\ Read(s, i, i + 1) = <<t>> /\ i <= i + 1 /\ i <= q.next
    <3>1. t \notin Unwritten
      BY <2>1, LevelFacts DEF Unwritten, Missing
    <3>2. i <= i + 1 /\ i <= q.next
      BY <2>1, <2>2
    <3> QED  BY <3>1, <3>2, <2>1, ReadIs
  <2>13. /\ Glued(Read(s, i, q.next), Read(s, i, i + 1), Read(s, i + 1, q.next))
         /\ Read(s, i, i + 1) \in Seq(S) /\ Read(s, i + 1, q.next) \in Seq(S)
    BY <2>1, <2>2, <2>12, ReadOn
  <2>14. /\ Glued(Read(s, i, more.next), Read(s, i, q.next), Read(s, q.next, more.next))
         /\ Read(s, q.next, more.next) \in Seq(S)
    BY <2>2, <2>6, <2>12, ReadOn
  <2>15. Glued(Bare(Compound(t, d, e1).text), Bare(d.text), Read(s, i, q.next))
    <3>1. e1 \in Entries(S)
      BY <2>5, PushesTyped
    <3>2. Glued(Read(s, i, q.next), <<t>>, Bare(e1.text))
      BY <2>5, <2>12, <2>13
    <3> HIDE DEF t
    <3> QED  BY <3>1, <3>2, <1>2, <2>1, BareOfEntries
  <2> DEFINE bd == Bare(d.text)
             bo == Read(s, i, i + 1)
             be == Read(s, i + 1, q.next)
             br == Read(s, q.next, more.next)
             boe == Read(s, i, q.next)
             bc == Bare(Compound(t, d, e1).text)
             bz == Bare(e.text)
             boer == Read(s, i, more.next)
  <2>16. /\ bd \in Seq(S) /\ bo \in Seq(S) /\ be \in Seq(S) /\ br \in Seq(S)
         /\ Glued(boe, bo, be) /\ Glued(bc, bd, boe) /\ Glued(boer, boe, br) /\ Glued(bz, bc, br)
    BY <1>2, <2>11, <2>13, <2>14, <2>15
  <2> HIDE DEF bd, bo, be, br, boe, bc, bz, boer
  <2>17. Glued(bz, bd, boer)
    BY <2>16, GluedOperator
  <2> QED  BY <2>3, <2>11, <2>17 DEF bz, bd, boer
<1> QED  BY <1>3, <1>4

LEMMA LevelIsFaithful ==
  ASSUME NEW S, Symbols \subseteq S, NEW s \in Seq(S), NEW of, IsParser(s, of),
         NEW l \in 1 .. FACTOR, l # FACTOR, NEW i \in 1 .. Len(s) + 1,
         \A y \in Parts(s) : Precedes(Left(s), Below(s), y, <<"whole", l, i>>) => Faithful(S, s, of, y)
  PROVE  Faithful(S, s, of, <<"whole", l, i>>)
<1> DEFINE x == <<"whole", l, i>>
           r == of[<<"whole", l + 1, i>>]
           more == of[<<"rest", l, r.next>>]
<1>1. x \in Parts(s) /\ of[x] = Level(of, s, l, i)
  BY ParserWhole
<1>2. l + 1 \in 1 .. FACTOR /\ l + 1 > l
  BY LevelFacts
<1>3. r.steps \in Seq(StepNames) /\ r.next \in 1 .. Len(s) + 1 /\ i <= r.next
      /\ <<"whole", l + 1, i>> \in Parts(s)
  BY <1>2, ParserWhole
<1>4. Faithful(S, s, of, <<"whole", l + 1, i>>)
  BY <1>1, <1>2, <1>3, BeforeFacts
<1>5. PICK d : Pushes(S, r.steps, d) /\ Bare(d.text) = Read(s, i, r.next)
  BY <1>4 DEF Faithful
<1>6. of[x].steps = r.steps \o more.steps /\ of[x].next = more.next
  <2> DEFINE w == r.steps \o more.steps
  <2>1. Level(of, s, l, i) = [steps |-> w, next |-> more.next]
    BY Zenon DEF Level
  <2> HIDE DEF x, w, more
  <2>2. of[x].steps = w /\ of[x].next = more.next
    BY <1>1, <2>1
  <2> QED  BY <2>2 DEF w
<1> HIDE DEF r
<1>7. more.steps \in Seq(StepNames) /\ more.next \in 1 .. Len(s) + 1 /\ r.next <= more.next
      /\ <<"rest", l, r.next>> \in Parts(s)
  BY <1>3, ParserRest
<1>8. Faithful(S, s, of, <<"rest", l, r.next>>)
  <2>1. r.next > i \/ r.next = i
    BY <1>3
  <2> QED  BY <2>1, <1>1, <1>3, <1>7, BeforeFacts
<1>9. PICK y : Glued(y, r.steps, more.steps)
  BY DEF Glued
<1>10. PICK e : Pushes(S, y, e) /\ Glued(Bare(e.text), Bare(d.text), Read(s, r.next, more.next))
  BY <1>5, <1>8, <1>9 DEF Faithful
<1> HIDE DEF more
<1>11. Glued(Read(s, i, more.next), Read(s, i, r.next), Read(s, r.next, more.next))
  BY <1>3, <1>7, ReadOn
<1>12. Bare(e.text) = Read(s, i, more.next)
  BY <1>5, <1>10, <1>11, GluedOnce
<1>13. of[x].steps = y
  BY <1>6, <1>9 DEF Glued
<1> QED  BY <1>6, <1>10, <1>12, <1>13 DEF Faithful

LEMMA FactorIsFaithful ==
  ASSUME NEW S, Symbols \subseteq S, NEW s \in Seq(S), NEW of, IsParser(s, of), NEW i \in 1 .. Len(s) + 1,
         \A y \in Parts(s) : Precedes(Left(s), Below(s), y, <<"whole", FACTOR, i>>) => Faithful(S, s, of, y)
  PROVE  Faithful(S, s, of, <<"whole", FACTOR, i>>)
<1> DEFINE x == <<"whole", FACTOR, i>>
           t == Token(s, i)
<1>0. 1 \in 1 .. FACTOR /\ FACTOR \in 1 .. FACTOR
  BY LevelFacts
<1>1. x \in Parts(s) /\ of[x] = Factor(of, s, i)
  BY <1>0, ParserWhole
<1> SUFFICES \E e : Pushes(S, of[x].steps, e) /\ Bare(e.text) = Read(s, i, of[x].next)
  BY DEF Faithful
<1>2. t # END => i + 1 \in 1 .. Len(s) + 1 /\ i + 1 > i /\ i <= i + 1 /\ i <= Len(s) /\ t = s[i]
  BY TokenFacts
<1>3. CASE t = "-"
  <2> DEFINE r == of[<<"whole", FACTOR, i + 1>>]
  <2>1. t # END
    BY <1>3, TokenFacts
  <2>2. r.steps \in Seq(StepNames) /\ r.next \in 1 .. Len(s) + 1 /\ i + 1 <= r.next
        /\ <<"whole", FACTOR, i + 1>> \in Parts(s)
    BY <1>0, <1>2, <2>1, ParserWhole
  <2>3. Faithful(S, s, of, <<"whole", FACTOR, i + 1>>)
    BY <1>0, <1>1, <1>2, <2>1, <2>2, BeforeFacts
  <2>4. PICK e : Pushes(S, r.steps, e) /\ Bare(e.text) = Read(s, i + 1, r.next)
    BY <2>3 DEF Faithful
  <2>5. of[x].steps = Append(r.steps, Sign) /\ of[x].next = r.next
    <3> DEFINE w == Append(r.steps, Sign)
    <3>1. Factor(of, s, i) = [steps |-> w, next |-> r.next]
      BY <1>3, LevelFacts DEF Factor
    <3> HIDE DEF x, w, r
    <3>2. of[x].steps = w /\ of[x].next = r.next
      BY <1>1, <3>1
    <3> QED  BY <3>2 DEF w
  <2> HIDE DEF r
  <2>6. Pushes(S, of[x].steps, Negative(e))
    BY <2>4, <2>5, PushesSign
  <2>7. Read(s, i, i + 1) = <<"-">>
    <3>1. "-" \notin Unwritten
      BY DEF Unwritten, Missing
    <3> QED  BY <3>1, <1>2, <1>3, <2>1, ReadIs
  <2>8. Glued(Read(s, i, r.next), Read(s, i, i + 1), Read(s, i + 1, r.next))
    BY <1>2, <2>1, <2>2, ReadOn
  <2>9. Glued(Bare(Negative(e).text), <<"-">>, Bare(e.text))
    <3>1. e \in Entries(S)
      BY <2>4, PushesTyped
    <3> QED  BY <3>1, BareOfEntries
  <2>10. Bare(Negative(e).text) = Read(s, i, r.next)
    <3> DEFINE bn == Bare(Negative(e).text)
               rr == Read(s, i, r.next)
               m == <<"-">>
               b == Bare(e.text)
    <3>1. Glued(bn, m, b) /\ Glued(rr, m, b)
      BY <2>4, <2>7, <2>8, <2>9
    <3> HIDE DEF bn, rr, m, b
    <3>2. bn = rr
      BY <3>1, GluedOnce
    <3> QED  BY <3>2 DEF bn, rr
  <2> QED  BY <2>5, <2>6, <2>10
<1>4. CASE t = "("
  <2> DEFINE r == of[<<"whole", 1, i + 1>>]
             n == IF Token(s, r.next) = ")" THEN r.next + 1 ELSE r.next
  <2>1. t # END
    BY <1>4, TokenFacts
  <2>2. r.steps \in Seq(StepNames) /\ r.next \in 1 .. Len(s) + 1 /\ i + 1 <= r.next
        /\ <<"whole", 1, i + 1>> \in Parts(s)
    BY <1>0, <1>2, <2>1, ParserWhole
  <2>3. Faithful(S, s, of, <<"whole", 1, i + 1>>)
    BY <1>0, <1>1, <1>2, <2>1, <2>2, BeforeFacts
  <2>4. PICK e : Pushes(S, r.steps, e) /\ Bare(e.text) = Read(s, i + 1, r.next)
    BY <2>3 DEF Faithful
  <2>5. of[x].steps = r.steps /\ of[x].next = n
    <3>1. Factor(of, s, i) = [steps |-> r.steps, next |-> n]
      BY <1>4, LevelFacts DEF Factor
    <3> HIDE DEF x, n, r
    <3> QED  BY <1>1, <3>1
  <2> HIDE DEF r
  <2>6. n \in 1 .. Len(s) + 1 /\ r.next <= n
        /\ (n # r.next => n = r.next + 1 /\ r.next <= Len(s) /\ s[r.next] = ")")
    BY <2>2, TokenFacts
  <2> HIDE DEF n
  <2>7. Read(s, i, i + 1) = <<>>
    <3>1. "(" \in Unwritten
      BY DEF Unwritten
    <3> QED  BY <3>1, <1>2, <1>4, <2>1, ReadIs
  <2>8. Read(s, r.next, n) = <<>>
    <3>1. ")" \in Unwritten
      BY DEF Unwritten
    <3> QED  BY <3>1, <2>2, <2>6, ReadIs
  <2>9. /\ Glued(Read(s, i, n), Read(s, i, r.next), Read(s, r.next, n))
        /\ Glued(Read(s, i, r.next), Read(s, i, i + 1), Read(s, i + 1, r.next))
        /\ Read(s, i, r.next) \in Seq(S) /\ Read(s, i + 1, r.next) \in Seq(S)
    <3>1. i <= r.next
      BY <1>2, <2>1, <2>2
    <3> QED  BY <1>2, <2>1, <2>2, <2>6, <3>1, ReadOn
  <2>10. Read(s, i, n) = Read(s, i, r.next) /\ Read(s, i, r.next) = Read(s, i + 1, r.next)
    BY <2>7, <2>8, <2>9, GluedEmpty
  <2> QED  BY <2>4, <2>5, <2>10
<1>5. CASE t \in Operands
  <2>1. t # END /\ t # "-" /\ t # "("
    BY <1>5, TokenFacts, LevelFacts
  <2>2. of[x].steps = <<t>> /\ of[x].next = i + 1
    <3> DEFINE w == <<t>>
    <3>1. Factor(of, s, i) = [steps |-> w, next |-> i + 1]
      BY <1>5, <2>1 DEF Factor
    <3> HIDE DEF x, w
    <3>2. of[x].steps = w /\ of[x].next = i + 1
      BY <1>1, <3>1
    <3> QED  BY <3>2 DEF w
  <2>3. Read(s, i, i + 1) = <<t>>
    <3>1. t \notin Unwritten
      BY <1>5, LevelFacts DEF Unwritten
    <3> QED  BY <3>1, <1>2, <2>1, ReadIs
  <2>4. Pushes(S, <<t>>, Leaf(t)) /\ Bare(Leaf(t).text) = <<t>>
    BY <1>5, PushesLeaf, BareOfEntries
  <2> QED  BY <2>2, <2>3, <2>4
<1>6. CASE t \notin Operands \cup {"-", "("}
  <2>1. of[x].steps = <<Missing>> /\ of[x].next = i
    <3> DEFINE w == <<Missing>>
    <3>1. Factor(of, s, i) = [steps |-> w, next |-> i]
      BY <1>6 DEF Factor
    <3> HIDE DEF x, w
    <3>2. of[x].steps = w /\ of[x].next = i
      BY <1>1, <3>1
    <3> QED  BY <3>2 DEF w
  <2>2. Pushes(S, <<Missing>>, Leaf(Missing)) /\ Bare(Leaf(Missing).text) = <<>>
    BY PushesLeaf, BareOfEntries
  <2>3. Read(s, i, i) = <<>>
    BY ReadIs
  <2> QED  BY <2>1, <2>2, <2>3
<1> QED  BY <1>3, <1>4, <1>5, <1>6

(* What a line is read as pushes one value, and its text is the line, but    *)
(* for brackets and operands that are not there.                             *)
LEMMA ParseIsFaithful ==
  ASSUME NEW S, Symbols \subseteq S, NEW s \in Seq(S)
  PROVE  /\ Parse(s).steps \in Seq(StepNames) /\ Parse(s).next \in 1 .. Len(s) + 1
         /\ \E e : Pushes(S, Parse(s).steps, e) /\ Bare(e.text) = Read(s, 1, Parse(s).next)
<1>1. PICK of : IsParser(s, of) /\ Parse(s) = of[<<"whole", 1, 1>>]
  BY ParserExists
<1> DEFINE Holds == {x \in Parts(s) : Faithful(S, s, of, x)}
<1>2. ASSUME NEW x \in Parts(s), \A y \in Parts(s) : Precedes(Left(s), Below(s), y, x) => y \in Holds
      PROVE  x \in Holds
  <2>1. PICK k \in {"whole", "rest"}, l \in 1 .. FACTOR, i \in 1 .. Len(s) + 1 : x = <<k, l, i>>
    BY PartFacts
  <2>2. \A y \in Parts(s) : Precedes(Left(s), Below(s), y, x) => Faithful(S, s, of, y)
    BY <1>2
  <2>3. CASE k = "rest"
    BY <1>1, <2>1, <2>2, <2>3, RestIsFaithful
  <2>4. CASE k = "whole" /\ l = FACTOR
    BY <1>1, <2>1, <2>2, <2>4, FactorIsFaithful
  <2>5. CASE k = "whole" /\ l # FACTOR
    BY <1>1, <2>1, <2>2, <2>5, LevelIsFaithful
  <2> QED  BY <2>3, <2>4, <2>5
<1>3. Parts(s) \subseteq Holds
  <2> HIDE DEF Holds
  <2> QED  BY <1>2, EveryPart
<1>4. 1 \in 1 .. FACTOR /\ 1 \in 1 .. Len(s) + 1
  BY LevelFacts, PartFacts
<1> DEFINE r == of[<<"whole", 1, 1>>]
<1>5. /\ <<"whole", 1, 1>> \in Parts(s) /\ r.steps \in Seq(StepNames) /\ r.next \in 1 .. Len(s) + 1
  BY <1>1, <1>4, ParserWhole
<1>6. Faithful(S, s, of, <<"whole", 1, 1>>)
  BY <1>3, <1>5
<1> QED  BY <1>1, <1>5, <1>6 DEF Faithful

(* The line an answer is about has been read to its end. *)
LEMMA LineIsFaithful ==
  ASSUME NEW S, NEW s \in Seq(S), Calculated(s).ok, ~Rounds(s)
  PROVE  Bare(Text(Parse(s).steps)) = Bare(s)
<1> DEFINE T == S \cup Symbols
           p == Parse(s).steps
<1>1. s \in Seq(T) /\ Symbols \subseteq T
  OBVIOUS
<1> HIDE DEF T
<1>2. PICK e : Pushes(T, p, e) /\ Bare(e.text) = Read(s, 1, Parse(s).next)
  BY <1>1, ParseIsFaithful
<1>3. Parse(s).next = Len(s) + 1
  BY DEF Calculated
<1>4. <<>> \in Seq(Entries(T)) /\ Append(<<>>, e)[1] = e
  OBVIOUS
<1>5. Run(<<>>, p) = Append(<<>>, e)
  BY <1>2, <1>4 DEF Pushes
<1>6. Text(p) = e.text
  BY <1>4, <1>5 DEF Text
<1>7. Read(s, 1, Len(s) + 1) = Bare(s)
  <2>1. 1 \in 1 .. Len(s) + 1
    BY PartFacts
  <2> QED  BY <2>1, ReadIs
<1> QED  BY <1>2, <1>3, <1>6, <1>7

-----------------------------------------------------------------------------
(* What is written is what is read                                           *)

(* Text t stands at i, and no operator of a level above l follows at j.      *)
At(s, i, t)   == i + Len(t) <= Len(s) + 1 /\ \A k \in 1 .. Len(t) : s[i + k - 1] = t[k]
Ends(s, j, l) == \A m \in 1 .. FACTOR : m > l => Token(s, j) \notin Operators[m]

(* Level l reads steps c from i to j, and goes on with its loop there.       *)
ReadAs(s, of, c, l, i, j) ==
  /\ Glued(of[<<"whole", l, i>>].steps, c, of[<<"rest", l, j>>].steps)
  /\ of[<<"whole", l, i>>].next = of[<<"rest", l, j>>].next

(* Wherever t stands, level l reads it as c. *)
Means(S, t, l, c) ==
  /\ t \in Seq(S) /\ c \in Seq(StepNames)
  /\ \A s \in Seq(S) : \A i \in 1 .. Len(s) + 1 : \A of :
       IsParser(s, of) /\ At(s, i, t) /\ Ends(s, i + Len(t), l)
         => ReadAs(s, of, c, l, i, i + Len(t))

LEMMA RestStops ==
  ASSUME NEW S, NEW s \in Seq(S), NEW of, IsParser(s, of),
         NEW l \in 1 .. FACTOR, NEW i \in 1 .. Len(s) + 1, NEW j \in 1 .. Len(s) + 1,
         Token(s, j) \notin Operators[l], NEW c \in Seq(StepNames)
  PROVE  ReadAs(s, of, c, l, i, j)
           <=> of[<<"whole", l, i>>].steps = c /\ of[<<"whole", l, i>>].next = j
<1> DEFINE r == of[<<"whole", l, i>>]
           more == of[<<"rest", l, j>>]
<1>1. more = Rest(of, s, l, j)
  BY ParserRest
<1>2. Rest(of, s, l, j) = [steps |-> <<>>, next |-> j]
  BY DEF Rest
<1> HIDE DEF more
<1>3. more.steps = <<>> /\ more.next = j
  BY <1>1, <1>2
<1> HIDE DEF r
<1>4. Glued(r.steps, c, <<>>) <=> r.steps = c
  BY GluedEmpty
<1> QED  BY <1>3, <1>4 DEF ReadAs, r, more

LEMMA AtIs ==
  ASSUME NEW S, NEW s \in Seq(S), NEW i \in 1 .. Len(s) + 1, NEW t \in Seq(S), At(s, i, t)
  PROVE  /\ i + Len(t) \in 1 .. Len(s) + 1 /\ i <= i + Len(t)
         /\ \A k \in 1 .. Len(t) : Token(s, i + k - 1) = t[k]
<1>1. Len(s) \in Nat /\ Len(t) \in Nat /\ i \in Nat /\ i + Len(t) <= Len(s) + 1
  BY DEF At
<1>2. \A k \in 1 .. Len(t) : i + k - 1 <= Len(s)
  BY <1>1
<1> QED  BY <1>1, <1>2 DEF At, Token

(* A text of two parts has one behind the other. *)
LEMMA AtGlued ==
  ASSUME NEW S, NEW s \in Seq(S), NEW i \in 1 .. Len(s) + 1, NEW t \in Seq(S), NEW u \in Seq(S),
         NEW v, Glued(v, t, u), At(s, i, v)
  PROVE  /\ At(s, i, t) /\ i + Len(t) \in 1 .. Len(s) + 1
         /\ At(s, i + Len(t), u) /\ (i + Len(t)) + Len(u) = i + Len(v)
<1>1. /\ v \in Seq(S) /\ Len(v) = Len(t) + Len(u)
      /\ \A k \in 1 .. Len(t) : v[k] = t[k]
      /\ \A k \in 1 .. Len(u) : v[Len(t) + k] = u[k]
  <2>1. /\ v \in Seq(S) /\ Len(v) = Len(t) + Len(u)
        /\ \A k \in 1 .. Len(t) + Len(u) : v[k] = IF k <= Len(t) THEN t[k] ELSE u[k - Len(t)]
    BY ConcatProperties DEF Glued
  <2>2. Len(t) \in Nat /\ Len(u) \in Nat
    OBVIOUS
  <2>3. \A k \in 1 .. Len(u) : Len(t) + k \in 1 .. Len(t) + Len(u) /\ ~(Len(t) + k <= Len(t))
                                 /\ (Len(t) + k) - Len(t) = k
    BY <2>2
  <2>4. \A k \in 1 .. Len(t) : k \in 1 .. Len(t) + Len(u) /\ k <= Len(t)
    BY <2>2
  <2> QED  BY <2>1, <2>3, <2>4
<1>2. Len(s) \in Nat /\ Len(t) \in Nat /\ Len(u) \in Nat /\ i \in Nat /\ i >= 1
  OBVIOUS
<1>3. i + Len(v) <= Len(s) + 1 /\ \A k \in 1 .. Len(v) : s[i + k - 1] = v[k]
  BY DEF At
<1>4. /\ i + Len(t) \in 1 .. Len(s) + 1 /\ (i + Len(t)) + Len(u) = i + Len(v)
      /\ i + Len(t) <= Len(s) + 1 /\ (i + Len(t)) + Len(u) <= Len(s) + 1
  BY <1>1, <1>2, <1>3
<1>5. \A k \in 1 .. Len(t) : s[i + k - 1] = t[k]
  <2>1. \A k \in 1 .. Len(t) : k \in 1 .. Len(v)
    BY <1>1, <1>2
  <2> QED  BY <2>1, <1>1, <1>3
<1>6. \A k \in 1 .. Len(u) : s[(i + Len(t)) + k - 1] = u[k]
  <2>1. \A k \in 1 .. Len(u) : Len(t) + k \in 1 .. Len(v) /\ i + (Len(t) + k) - 1 = (i + Len(t)) + k - 1
    BY <1>1, <1>2
  <2> QED  BY <2>1, <1>1, <1>3
<1> QED  BY <1>4, <1>5, <1>6 DEF At

LEMMA AtOne ==
  ASSUME NEW S, NEW s \in Seq(S), NEW i \in 1 .. Len(s) + 1, NEW w, At(s, i, <<w>>)
  PROVE  Token(s, i) = w /\ i + Len(<<w>>) = i + 1 /\ i + 1 \in 1 .. Len(s) + 1
<1>1. Len(<<w>>) = 1 /\ <<w>>[1] = w /\ i + 1 - 1 = i
  OBVIOUS
<1>2. i + 1 <= Len(s) + 1 /\ s[i + 1 - 1] = w
  BY <1>1 DEF At
<1> QED  BY <1>1, <1>2 DEF Token

LEMMA EndsBelow ==
  ASSUME NEW s, NEW j, NEW l \in 1 .. FACTOR, NEW m \in 1 .. FACTOR, l < m, Ends(s, j, l)
  PROVE  Ends(s, j, m) /\ Token(s, j) \notin Operators[m]
<1>1. \A k \in 1 .. FACTOR : k > m => k > l
  BY LevelFacts
<1> QED  BY <1>1 DEF Ends

(* What a level reads, the one below it reads. *)
LEMMA MeansBelow ==
  ASSUME NEW S, NEW l \in 1 .. FACTOR, l # FACTOR, NEW t, NEW c, Means(S, t, l + 1, c)
  PROVE  Means(S, t, l, c)
<1>1. t \in Seq(S) /\ c \in Seq(StepNames) /\ l + 1 \in 1 .. FACTOR /\ l < l + 1
  BY LevelFacts DEF Means
<1> SUFFICES ASSUME NEW s \in Seq(S), NEW of, NEW i \in 1 .. Len(s) + 1,
                    IsParser(s, of), At(s, i, t), Ends(s, i + Len(t), l)
             PROVE  ReadAs(s, of, c, l, i, i + Len(t))
  BY <1>1 DEF Means
<1> DEFINE j == i + Len(t)
<1>2. j \in 1 .. Len(s) + 1
  BY <1>1, AtIs
<1>3. Ends(s, j, l + 1) /\ Token(s, j) \notin Operators[l + 1]
  BY <1>1, EndsBelow
<1>4. ReadAs(s, of, c, l + 1, i, j)
  BY <1>3 DEF Means
<1> HIDE DEF j
<1> DEFINE r == of[<<"whole", l + 1, i>>]
           more == of[<<"rest", l, j>>]
<1>5. r.steps = c /\ r.next = j
  BY <1>1, <1>2, <1>3, <1>4, RestStops
<1>6. of[<<"whole", l, i>>] = Level(of, s, l, i)
  BY ParserWhole
<1>7. Level(of, s, l, i) = [steps |-> c \o more.steps, next |-> more.next]
  <2>1. Level(of, s, l, i) = [steps |-> r.steps \o of[<<"rest", l, r.next>>].steps,
                              next |-> of[<<"rest", l, r.next>>].next]
    BY Zenon DEF Level
  <2> HIDE DEF r
  <2> QED  BY <2>1, <1>5
<1> HIDE DEF r
<1>8. of[<<"whole", l, i>>].steps = c \o more.steps /\ of[<<"whole", l, i>>].next = more.next
  <2> DEFINE w == c \o more.steps
             x == of[<<"whole", l, i>>]
  <2>1. x = [steps |-> w, next |-> more.next]
    BY <1>6, <1>7
  <2> HIDE DEF w, more, x
  <2>2. x.steps = w /\ x.next = more.next
    BY <2>1
  <2> QED  BY <2>2 DEF w, x
<1>9. ReadAs(s, of, c, l, i, j)
  BY <1>8 DEF ReadAs, Glued
<1> QED  BY <1>9 DEF j

LEMMA MeansAllBelow ==
  ASSUME NEW S, NEW l \in 1 .. FACTOR, NEW m \in 1 .. FACTOR, l <= m, NEW t, NEW c, Means(S, t, m, c)
  PROVE  Means(S, t, l, c)
<1>1. l \in {1, 2, 3, 4} /\ m \in {1, 2, 3, 4} /\ FACTOR = 4
  BY LevelFacts
<1>2. \A k \in 1 .. FACTOR : k # FACTOR /\ Means(S, t, k + 1, c) => Means(S, t, k, c)
  BY MeansBelow
<1>3. /\ Means(S, t, 4, c) => Means(S, t, 3, c)
      /\ Means(S, t, 3, c) => Means(S, t, 2, c)
      /\ Means(S, t, 2, c) => Means(S, t, 1, c)
  <2>1. 3 + 1 = 4 /\ 2 + 1 = 3 /\ 1 + 1 = 2 /\ {1, 2, 3} \subseteq 1 .. FACTOR
    BY <1>1
  <2> QED  BY <1>1, <1>2, <2>1
<1> QED  BY <1>1, <1>3

(* No operator of level l or above it follows at j. *)
Over(s, j, l) == \A m \in 1 .. FACTOR : m >= l => Token(s, j) \notin Operators[m]

ReadsTo(of, c, l, i, j) == of[<<"whole", l, i>>].steps = c /\ of[<<"whole", l, i>>].next = j

(* What level l reads at i, when text t stands there and no stronger operator follows. *)
LEMMA MeansHere ==
  ASSUME NEW S, NEW t, NEW l \in 1 .. FACTOR, NEW c, Means(S, t, l, c),
         NEW s \in Seq(S), NEW of, IsParser(s, of), NEW i \in 1 .. Len(s) + 1, At(s, i, t),
         NEW j, j = i + Len(t), Over(s, j, l)
  PROVE  ReadsTo(of, c, l, i, j) /\ j \in 1 .. Len(s) + 1 /\ i <= j
<1>1. t \in Seq(S) /\ c \in Seq(StepNames)
  BY DEF Means
<1>2. j \in 1 .. Len(s) + 1 /\ i <= j
  BY <1>1, AtIs
<1>3. Ends(s, j, l) /\ Token(s, j) \notin Operators[l]
  <2>1. l \in Int /\ \A m \in 1 .. FACTOR : m > l => m >= l
    OBVIOUS
  <2> QED  BY <2>1 DEF Ends, Over
<1>4. ReadAs(s, of, c, l, i, j)
  BY <1>3 DEF Means
<1> QED  BY <1>1, <1>2, <1>3, <1>4, RestStops DEF ReadsTo

(* parse_factor has no loop. *)
LEMMA FactorReads ==
  ASSUME NEW S, NEW s \in Seq(S), NEW of, IsParser(s, of),
         NEW i \in 1 .. Len(s) + 1, NEW j \in 1 .. Len(s) + 1, NEW c \in Seq(StepNames),
         Factor(of, s, i).steps = c, Factor(of, s, i).next = j
  PROVE  ReadAs(s, of, c, FACTOR, i, j)
<1>1. FACTOR \in 1 .. FACTOR /\ Token(s, j) \notin Operators[FACTOR]
  BY LevelFacts
<1>2. of[<<"whole", FACTOR, i>>] = Factor(of, s, i)
  BY <1>1, ParserWhole
<1> QED  BY <1>1, <1>2, RestStops

LEMMA BracketMeans ==
  ASSUME NEW S, Symbols \subseteq S, NEW t, NEW c, Means(S, t, 1, c), NEW u, NEW v,
         Glued(u, <<"(">>, t), Glued(v, u, <<")">>)
  PROVE  Means(S, v, FACTOR, c)
<1>1. t \in Seq(S) /\ c \in Seq(StepNames)
  BY DEF Means
<1>2. PICK open \in Seq(S), close \in Seq(S) : open = <<"(">> /\ close = <<")">>
  <2>1. "(" \in S /\ ")" \in S
    BY DEF Symbols
  <2>2. <<"(">> \in Seq(S) /\ <<")">> \in Seq(S)
    BY <2>1
  <2> QED  BY <2>2
<1>3. Glued(u, open, t) /\ Glued(v, u, close)
  BY <1>2
<1>4. u \in Seq(S)
  BY <1>1, <1>3, GluedFacts
<1>5. v \in Seq(S)
  BY <1>3, <1>4, GluedFacts
<1> SUFFICES ASSUME NEW s \in Seq(S), NEW i \in 1 .. Len(s) + 1, NEW of,
                    IsParser(s, of), At(s, i, v), Ends(s, i + Len(v), FACTOR)
             PROVE  ReadAs(s, of, c, FACTOR, i, i + Len(v))
  BY <1>1, <1>5 DEF Means
<1>6. /\ At(s, i, u) /\ i + Len(u) \in 1 .. Len(s) + 1
      /\ At(s, i + Len(u), close) /\ (i + Len(u)) + Len(close) = i + Len(v)
  BY <1>3, <1>4, AtGlued
<1>7. /\ At(s, i, open) /\ i + Len(open) \in 1 .. Len(s) + 1
      /\ At(s, i + Len(open), t) /\ (i + Len(open)) + Len(t) = i + Len(u)
  BY <1>1, <1>3, <1>6, AtGlued
<1>8. Token(s, i) = "(" /\ i + Len(open) = i + 1 /\ i + 1 \in 1 .. Len(s) + 1
  BY <1>2, <1>7, AtOne
<1>9. Token(s, i + Len(u)) = ")" /\ (i + Len(u)) + Len(close) = (i + Len(u)) + 1
      /\ (i + Len(u)) + 1 \in 1 .. Len(s) + 1
  BY <1>2, <1>6, AtOne
<1> DEFINE r == of[<<"whole", 1, i + 1>>]
<1>10. r.steps = c /\ r.next = i + Len(u)
  <2>1. Over(s, i + Len(u), 1)
    BY <1>9, LevelFacts DEF Over
  <2>2. 1 \in 1 .. FACTOR
    BY LevelFacts
  <2>3. At(s, i + 1, t) /\ i + Len(u) = (i + 1) + Len(t)
    BY <1>7, <1>8
  <2>4a. PICK h \in 1 .. Len(s) + 1 : h = i + 1
    BY <1>8
  <2>4b. PICK j : j = i + Len(u)
    OBVIOUS
  <2>4. h \in 1 .. Len(s) + 1 /\ h = i + 1 /\ j = i + Len(u)
    BY <2>4a, <2>4b
  <2>5. ReadsTo(of, c, 1, h, j)
    BY <2>1, <2>2, <2>3, <2>4, MeansHere
  <2> QED  BY <2>4, <2>5 DEF ReadsTo
<1>11. Factor(of, s, i) = [steps |-> r.steps,
                           next |-> IF Token(s, r.next) = ")" THEN r.next + 1 ELSE r.next]
  BY <1>8, LevelFacts DEF Factor
<1> HIDE DEF r
<1>12. Factor(of, s, i).steps = c /\ Factor(of, s, i).next = i + Len(v)
  BY <1>6, <1>9, <1>10, <1>11
<1>13. i + Len(v) \in 1 .. Len(s) + 1
  BY <1>6, <1>9
<1> QED  BY <1>1, <1>12, <1>13, FactorReads

LEMMA LeafMeans ==
  ASSUME NEW S, Symbols \subseteq S, NEW t \in Operands
  PROVE  Means(S, <<t>>, FACTOR, <<t>>)
<1>1. <<t>> \in Seq(S) /\ <<t>> \in Seq(StepNames)
  <2>1. t \in S /\ t \in StepNames
    BY DEF Symbols, StepNames
  <2> QED  BY <2>1
<1> SUFFICES ASSUME NEW s \in Seq(S), NEW i \in 1 .. Len(s) + 1, NEW of,
                    IsParser(s, of), At(s, i, <<t>>), Ends(s, i + Len(<<t>>), FACTOR)
             PROVE  ReadAs(s, of, <<t>>, FACTOR, i, i + Len(<<t>>))
  BY <1>1 DEF Means
<1>2. Token(s, i) = t /\ i + Len(<<t>>) = i + 1 /\ i + 1 \in 1 .. Len(s) + 1
  BY AtOne
<1> DEFINE w == <<t>>
<1>3. Factor(of, s, i) = [steps |-> w, next |-> i + 1]
  <2>1. t # "-" /\ t # "("
    BY LevelFacts
  <2> QED  BY <2>1, <1>2 DEF Factor
<1>4. w \in Seq(StepNames) /\ i + Len(w) = i + 1
  BY <1>1, <1>2
<1> HIDE DEF w
<1>5. Factor(of, s, i).steps = w /\ Factor(of, s, i).next = i + 1
  BY <1>3
<1>6. ReadAs(s, of, w, FACTOR, i, i + 1)
  BY <1>2, <1>4, <1>5, FactorReads
<1> QED  BY <1>4, <1>6 DEF w

LEMMA SignMeans ==
  ASSUME NEW S, Symbols \subseteq S, NEW t, NEW c, Means(S, t, FACTOR, c), NEW v, Glued(v, <<"-">>, t)
  PROVE  Means(S, v, FACTOR, Append(c, Sign))
<1>1. t \in Seq(S) /\ c \in Seq(StepNames)
  BY DEF Means
<1>2. PICK minus \in Seq(S) : minus = <<"-">>
  <2>1. "-" \in S
    BY DEF Symbols
  <2>2. <<"-">> \in Seq(S)
    BY <2>1
  <2> QED  BY <2>2
<1>3. Glued(v, minus, t)
  BY <1>2
<1>4. v \in Seq(S)
  BY <1>1, <1>3, GluedFacts
<1> DEFINE w == Append(c, Sign)
<1>5. w \in Seq(StepNames)
  <2>1. Sign \in StepNames
    BY DEF StepNames
  <2> QED  BY <1>1, <2>1
<1> SUFFICES ASSUME NEW s \in Seq(S), NEW i \in 1 .. Len(s) + 1, NEW of,
                    IsParser(s, of), At(s, i, v), Ends(s, i + Len(v), FACTOR)
             PROVE  ReadAs(s, of, w, FACTOR, i, i + Len(v))
  BY <1>4, <1>5 DEF Means
<1>6. /\ At(s, i, minus) /\ i + Len(minus) \in 1 .. Len(s) + 1
      /\ At(s, i + Len(minus), t) /\ (i + Len(minus)) + Len(t) = i + Len(v)
  BY <1>1, <1>3, AtGlued
<1>7. Token(s, i) = "-" /\ i + Len(minus) = i + 1 /\ i + 1 \in 1 .. Len(s) + 1
  BY <1>2, <1>6, AtOne
<1> DEFINE r == of[<<"whole", FACTOR, i + 1>>]
<1>8. r.steps = c /\ r.next = i + Len(v) /\ i + Len(v) \in 1 .. Len(s) + 1
  <2>1. Over(s, i + Len(v), FACTOR)
    BY LevelFacts DEF Over
  <2>2. FACTOR \in 1 .. FACTOR
    BY LevelFacts
  <2>3. At(s, i + 1, t) /\ i + Len(v) = (i + 1) + Len(t)
    BY <1>6, <1>7
  <2> QED  BY <2>1, <2>2, <2>3, <1>7, MeansHere DEF ReadsTo
<1>9. Factor(of, s, i) = [steps |-> Append(r.steps, Sign), next |-> r.next]
  BY <1>7, LevelFacts DEF Factor
<1> HIDE DEF r
<1>10. Factor(of, s, i) = [steps |-> w, next |-> i + Len(v)]
  BY <1>8, <1>9
<1> HIDE DEF w
<1>11. Factor(of, s, i).steps = w /\ Factor(of, s, i).next = i + Len(v)
  BY <1>10
<1> QED  BY <1>5, <1>8, <1>11, FactorReads

LEMMA BinaryMeans ==
  ASSUME NEW S, Symbols \subseteq S, NEW o \in Binary, NEW l, l = LevelOf(o),
         NEW t, NEW p, Means(S, t, l, p), NEW u, NEW q, Means(S, u, l + 1, q),
         NEW v, Glued(v, Append(t, o), u), NEW x, Glued(x, p, q)
  PROVE  Means(S, v, l, Append(x, o))
<1>1. /\ t \in Seq(S) /\ p \in Seq(StepNames) /\ u \in Seq(S) /\ q \in Seq(StepNames)
      /\ l \in 1 .. FACTOR /\ l + 1 \in 1 .. FACTOR /\ o \in Operators[l] /\ l < l + 1
  BY LevelOfFacts DEF Means
<1>2. o \in S /\ o \in StepNames
  BY DEF Symbols, StepNames
<1>3. PICK to \in Seq(S), m \in Seq(S) : to = Append(t, o) /\ m = <<o>> /\ Glued(to, t, m)
  BY <1>1, <1>2, GluedLast
<1>3a. /\ t \in Seq(S) /\ to \in Seq(S) /\ m \in Seq(S) /\ Glued(to, t, m)
  BY <1>1, <1>3
<1>4. Glued(v, to, u)
  BY <1>3
<1>5. v \in Seq(S)
  BY <1>1, <1>4, GluedFacts
<1>6. x \in Seq(StepNames)
  BY <1>1, GluedFacts
<1> DEFINE xo == Append(x, o)
<1>7. xo \in Seq(StepNames)
  BY <1>2, <1>6
<1> SUFFICES ASSUME NEW s \in Seq(S), NEW i \in 1 .. Len(s) + 1, NEW of,
                    IsParser(s, of), At(s, i, v), Ends(s, i + Len(v), l)
             PROVE  ReadAs(s, of, xo, l, i, i + Len(v))
  BY <1>5, <1>7 DEF Means
<1>8. /\ At(s, i, to) /\ i + Len(to) \in 1 .. Len(s) + 1
      /\ At(s, i + Len(to), u) /\ (i + Len(to)) + Len(u) = i + Len(v)
  BY <1>1, <1>4, AtGlued
<1>9. /\ At(s, i, t) /\ i + Len(t) \in 1 .. Len(s) + 1
      /\ At(s, i + Len(t), m) /\ (i + Len(t)) + Len(m) = i + Len(to)
  BY <1>3a, <1>8, AtGlued
<1> DEFINE h == i + Len(t)
           j == i + Len(v)
<1>10. /\ Token(s, h) = o /\ h + 1 \in 1 .. Len(s) + 1 /\ i + Len(to) = h + 1
       /\ h \in 1 .. Len(s) + 1 /\ At(s, h + 1, u) /\ j = (h + 1) + Len(u)
  BY <1>3, <1>8, <1>9, AtOne
<1>11. Ends(s, h, l)
  <2>1. \A k \in 1 .. FACTOR : k > l => o \notin Operators[k]
    BY LevelOfFacts
  <2> QED  BY <2>1, <1>10 DEF Ends
<1> DEFINE r == of[<<"whole", l, i>>]
           loop == of[<<"rest", l, h>>]
           next == of[<<"whole", l + 1, h + 1>>]
           more == of[<<"rest", l, j>>]
<1>12. Glued(r.steps, p, loop.steps) /\ r.next = loop.next
  <2>1. ReadAs(s, of, p, l, i, h)
    BY <1>9, <1>11 DEF Means
  <2> QED  BY <2>1 DEF ReadAs
<1>13. next.steps = q /\ next.next = j /\ j \in 1 .. Len(s) + 1
  <2>1. Over(s, j, l + 1)
    <3>1. \A k \in 1 .. FACTOR : k >= l + 1 => k > l
      BY <1>1
    <3> QED  BY <3>1 DEF Ends, Over
  <2> HIDE DEF j, h
  <2>2. PICK g \in 1 .. Len(s) + 1, n \in 1 .. FACTOR : g = h + 1 /\ n = l + 1
    BY <1>1, <1>10
  <2>3. ReadsTo(of, q, n, g, j) /\ j \in 1 .. Len(s) + 1
    BY <2>1, <2>2, <1>10, MeansHere
  <2> QED  BY <2>2, <2>3 DEF ReadsTo
<1>14. loop = Rest(of, s, l, h)
  <2> HIDE DEF h
  <2> QED  BY <1>1, <1>10, ParserRest
<1>15. loop.steps = Append(q, o) \o more.steps /\ loop.next = more.next
  <2> DEFINE w == Append(q, o) \o more.steps
             w2 == Append(next.steps, o) \o of[<<"rest", l, next.next>>].steps
  <2>1. Rest(of, s, l, h) = [steps |-> w2, next |-> of[<<"rest", l, next.next>>].next]
    <3>1. Token(s, h) \in Operators[l] /\ Token(s, h) = o
      BY <1>1, <1>10
    <3> HIDE DEF h
    <3> QED  BY <3>1, Zenon DEF Rest
  <2> HIDE DEF next, j
  <2>2. w2 = w
    BY <1>13
  <2>3. of[<<"rest", l, next.next>>].next = more.next
    BY <1>13
  <2> HIDE DEF w, w2, loop, more
  <2>4. loop.steps = w /\ loop.next = more.next
    BY <1>14, <2>1, <2>2, <2>3
  <2> QED  BY <2>4 DEF w
<1> HIDE DEF next, loop, r
<1>16. more.steps \in Seq(StepNames)
  <2> HIDE DEF j
  <2> QED  BY <1>1, <1>13, ParserRest
<1>17. Glued(r.steps, p, Append(q, o) \o more.steps)
  BY <1>12, <1>15
<1> HIDE DEF more
<1>18. Glued(r.steps, Append(x, o), more.steps)
  BY <1>1, <1>2, <1>16, <1>17, LoopSteps
<1>19. r.next = more.next
  BY <1>12, <1>15
<1> QED  BY <1>18, <1>19 DEF ReadAs, r, more

-----------------------------------------------------------------------------
(* Steps and the text that is written for them                               *)

(* The text of an entry means the steps c, at its level and below it.        *)
Stands(S, c, e) == e \in Entries(S) /\ Means(S, e.text, e.level, c)

LEMMA WithinMeans ==
  ASSUME NEW S, Symbols \subseteq S, NEW c, NEW e, Stands(S, c, e), NEW l \in 1 .. FACTOR
  PROVE  Means(S, Within(e, l), l, c) /\ Within(e, l) \in Seq(S)
<1>1. /\ e \in Entries(S) /\ e.level \in 1 .. FACTOR /\ e.text \in Seq(S)
      /\ Means(S, e.text, e.level, c)
  BY DEF Stands, Entries
<1>2. CASE e.level < l
  <2>1. 1 \in 1 .. FACTOR /\ 1 <= e.level /\ FACTOR \in 1 .. FACTOR /\ l <= FACTOR
    BY <1>1, LevelFacts
  <2>2. Means(S, e.text, 1, c)
    BY <1>1, <2>1, MeansAllBelow
  <2>3. PICK u, v : Glued(u, <<"(">>, e.text) /\ Glued(v, u, <<")">>)
    BY DEF Glued
  <2>4. Means(S, v, FACTOR, c)
    BY <2>2, <2>3, BracketMeans
  <2>5. Means(S, v, l, c)
    BY <2>1, <2>4, MeansAllBelow
  <2>6. Within(e, l) = v
    BY <1>2, <2>3 DEF Within, Glued
  <2> QED  BY <2>5, <2>6 DEF Means
<1>3. CASE ~(e.level < l)
  <2>1. l <= e.level
    BY <1>1, <1>3
  <2>2. Means(S, e.text, l, c)
    BY <1>1, <2>1, MeansAllBelow
  <2>3. Within(e, l) = e.text
    BY <1>3 DEF Within
  <2> QED  BY <2>2, <2>3 DEF Means
<1> QED  BY <1>2, <1>3

LEMMA LeafStands ==
  ASSUME NEW S, Symbols \subseteq S, NEW t \in Operands
  PROVE  Stands(S, <<t>>, Leaf(t))
<1>1. Leaf(t) \in Entries(S) /\ Leaf(t).text = <<t>> /\ Leaf(t).level = FACTOR
  BY EntriesAre DEF Leaf
<1> QED  BY <1>1, LeafMeans DEF Stands

LEMMA NegativeStands ==
  ASSUME NEW S, Symbols \subseteq S, NEW c, NEW e, Stands(S, c, e)
  PROVE  Stands(S, Append(c, Sign), Negative(e))
<1>1. Negative(e) \in Entries(S) /\ Negative(e).level = FACTOR
  BY EntriesAre DEF Stands, Negative
<1>2. Means(S, Within(e, FACTOR), FACTOR, c)
  <2>1. FACTOR \in 1 .. FACTOR
    BY LevelFacts
  <2> QED  BY <2>1, WithinMeans
<1>3. Glued(Negative(e).text, <<"-">>, Within(e, FACTOR))
  BY DEF Negative, Glued
<1>4. Means(S, Negative(e).text, FACTOR, Append(c, Sign))
  BY <1>2, <1>3, SignMeans
<1> QED  BY <1>1, <1>4 DEF Stands

LEMMA CompoundStands ==
  ASSUME NEW S, Symbols \subseteq S, NEW o \in Binary, NEW p, NEW d, Stands(S, p, d),
         NEW q, NEW e, Stands(S, q, e), NEW x, Glued(x, p, q)
  PROVE  Stands(S, Append(x, o), Compound(o, d, e))
<1> DEFINE l == LevelOf(o)
<1>1. Compound(o, d, e) \in Entries(S) /\ Compound(o, d, e).level = l
  BY EntriesAre DEF Stands, Compound
<1>2. l \in 1 .. FACTOR /\ l + 1 \in 1 .. FACTOR
  BY LevelOfFacts
<1>3. Glued(Compound(o, d, e).text, Append(Within(d, l), o), Within(e, l + 1))
  BY DEF Compound, Glued
<1> HIDE DEF l
<1>4. Means(S, Within(d, l), l, p) /\ Means(S, Within(e, l + 1), l + 1, q)
  BY <1>2, WithinMeans
<1>5. Means(S, Compound(o, d, e).text, l, Append(x, o))
  <2>1. l = LevelOf(o)
    BY DEF l
  <2> QED  BY <2>1, <1>3, <1>4, BinaryMeans
<1> QED  BY <1>1, <1>5 DEF Stands

(* The stack before step k. *)
Stack(p, k) == Run(<<>>, Slice(p, 1, k))

LEMMA StackIs ==
  ASSUME NEW W, NEW p \in Seq(W)
  PROVE  /\ Stack(p, 1) = <<>> /\ Stack(p, Len(p) + 1) = Run(<<>>, p)
         /\ \A k \in 1 .. Len(p) : Stack(p, k + 1) = Push(Stack(p, k), p[k])
<1>1. Len(p) \in Nat /\ 1 \in 1 .. Len(p) + 1
  OBVIOUS
<1>2. Slice(p, 1, 1) = <<>> /\ Slice(p, 1, Len(p) + 1) = p
  BY <1>1, SliceShort
<1>3. ASSUME NEW k \in 1 .. Len(p)  PROVE Stack(p, k + 1) = Push(Stack(p, k), p[k])
  <2>1. /\ k \in 1 .. Len(p) + 1 /\ k + 1 \in k .. Len(p) + 1 /\ k <= Len(p) /\ p[k] \in W
    BY <1>1
  <2>2. Slice(p, k, k + 1) = <<p[k]>>
    BY <2>1, SliceShort
  <2>3. Slice(p, 1, k) \in Seq(W)
    BY <1>1, <2>1, SliceIs
  <2>4. Glued(Slice(p, 1, k + 1), Slice(p, 1, k), Slice(p, k, k + 1))
    BY <1>1, <2>1, SliceJoins
  <2>5. Slice(p, 1, k + 1) = Append(Slice(p, 1, k), p[k])
    <3> DEFINE f == Slice(p, 1, k)
               g == Slice(p, 1, k + 1)
               t == p[k]
    <3>1. f \in Seq(W) /\ t \in W /\ Glued(g, f, <<t>>)
      BY <2>1, <2>2, <2>3, <2>4
    <3> HIDE DEF f, g, t
    <3>2. g = Append(f, t)
      BY <3>1, GluedLast, GluedOnce
    <3> QED  BY <3>2 DEF f, g, t
  <2> QED  BY <2>1, <2>3, <2>5, RunAppend DEF Stack
<1> QED  BY <1>2, <1>3, RunNone DEF Stack

(* The top of the stack stands for the steps since it was shorter. *)
TopFrom(S, p, k, a, e) ==
  /\ Stack(p, a) \in Seq(Entries(S)) /\ Stack(p, k) = Append(Stack(p, a), e)
  /\ e \in Entries(S) /\ Stands(S, Slice(p, a, k), e)

Topped(S, p, k) == \E a \in 1 .. k - 1 : \E e : TopFrom(S, p, k, a, e)

LEMMA EveryStepTops ==
  ASSUME NEW S, Symbols \subseteq S, NEW p, Meaningful(p)
  PROVE  /\ p \in Seq(StepNames)
         /\ \A k \in 2 .. Len(p) + 1 : Topped(S, p, k)
<1>1. /\ p \in Seq(Operands \cup Binary \cup {Sign})
      /\ \A k \in 1 .. Len(p) : Needed(p[k]) <= Len(Stack(p, k))
  BY DEF Meaningful, Stack, Slice
<1>2. p \in Seq(StepNames) /\ Len(p) \in Nat /\ \A k \in 1 .. Len(p) : p[k] \in Operands \cup Binary \cup {Sign}
  BY <1>1 DEF StepNames
<1> DEFINE Bad == {k \in 2 .. Len(p) + 1 : ~Topped(S, p, k)}
<1>3. ASSUME Bad # {}  PROVE FALSE
  <2>1. Bad \in SUBSET Nat
    BY <1>2
  <2>2. PICK k \in Bad : \A m \in Bad : k <= m
    <3> HIDE DEF Bad
    <3> QED  BY <1>3, <2>1, LeastExists
  <2>3. k \in 2 .. Len(p) + 1 /\ ~Topped(S, p, k)
    OBVIOUS
  <2> DEFINE n == k - 1
             t == p[n]
  <2>4. /\ n \in 1 .. Len(p) /\ n \in 1 .. Len(p) + 1 /\ n + 1 = k /\ n < k /\ n <= Len(p)
        /\ k \in 1 .. Len(p) + 1 /\ n \in 1 .. k - 1
    BY <1>2, <2>3
  <2>5. \A m \in 2 .. Len(p) + 1 : m < k => Topped(S, p, m)
    <3>1. \A m \in 2 .. Len(p) + 1 : m < k => ~(k <= m)
      BY <2>3
    <3> QED  BY <2>2, <3>1
  <2>6. \A m \in 1 .. n : m = 1 \/ Topped(S, p, m)
    <3>1. \A m \in 1 .. n : m = 1 \/ (m \in 2 .. Len(p) + 1 /\ m < k)
      BY <1>2, <2>3
    <3> QED  BY <3>1, <2>5
  <2> HIDE DEF n, Bad
  <2>7. \A m \in 1 .. n : Topped(S, p, m) => Stack(p, m) \in Seq(Entries(S))
    <3> TAKE m \in 1 .. n
    <3> HAVE Topped(S, p, m)
    <3>1. PICK a \in 1 .. m - 1 : \E e : TopFrom(S, p, m, a, e)
      BY DEF Topped
    <3>2. PICK e : TopFrom(S, p, m, a, e)
      BY <3>1
    <3> QED  BY <3>2 DEF TopFrom
  <2>8. \A m \in 1 .. n : Stack(p, m) \in Seq(Entries(S)) /\ (m = 1 => Len(Stack(p, m)) = 0)
    <3>1. Stack(p, 1) = <<>>
      BY <1>2, StackIs
    <3>2. <<>> \in Seq(Entries(S)) /\ Len(<<>>) = 0
      OBVIOUS
    <3>3. Stack(p, 1) \in Seq(Entries(S)) /\ Len(Stack(p, 1)) = 0
      BY <3>1, <3>2, Zenon
    <3> QED  BY <3>3, <2>6, <2>7
  <2>9. Stack(p, k) = Push(Stack(p, n), t) /\ t \in StepNames
    BY <1>2, <2>4, StackIs DEF StepNames
  <2>10. n \in 1 .. n
    BY <2>4
  <2>11. \A a \in 1 .. n : Glued(Slice(p, a, k), Slice(p, a, n), <<t>>) /\ Slice(p, a, n) \in Seq(StepNames)
    <3> TAKE a \in 1 .. n
    <3>1. a \in 1 .. Len(p) + 1 /\ n \in a .. Len(p) + 1 /\ k \in n .. Len(p) + 1
      BY <1>2, <2>4
    <3>2. Glued(Slice(p, a, k), Slice(p, a, n), Slice(p, n, k))
      BY <1>2, <3>1, SliceJoins
    <3>3. Slice(p, n, k) = <<t>>
      BY <1>2, <2>4, SliceShort
    <3> QED  BY <1>2, <3>1, <3>2, <3>3, SliceIs
  <2>12. \A a \in 1 .. n : Slice(p, a, k) = Append(Slice(p, a, n), t)
    <3> TAKE a \in 1 .. n
    <3>1. PICK f \in Seq(StepNames) : f = Slice(p, a, n)
      BY <2>11
    <3>1a. PICK g : g = Slice(p, a, k)
      OBVIOUS
    <3>2. Glued(g, f, <<t>>)
      BY <2>11, <3>1, <3>1a
    <3> HIDE DEF t
    <3>3. g = Append(f, t)
      BY <2>9, <3>2, GluedLast, GluedOnce
    <3> QED  BY <3>1, <3>1a, <3>3
  <2>13. Needed(t) <= Len(Stack(p, n)) /\ t \in Operands \cup Binary \cup {Sign}
    BY <1>1, <1>2, <2>4
  <2>14. Slice(p, n, k) = <<t>>
    BY <1>2, <2>4, SliceShort
  <2> HIDE DEF t
  <2>15. CASE t \in Operands
    <3>1. Stack(p, k) = Append(Stack(p, n), Leaf(t))
      BY <2>9, <2>15, PushLeaf
    <3>2. Stands(S, Slice(p, n, k), Leaf(t))
      BY <2>14, <2>15, LeafStands
    <3>3. Stack(p, n) \in Seq(Entries(S)) /\ Leaf(t) \in Entries(S)
      BY <2>8, <2>10, <3>2 DEF Stands
    <3>4. TopFrom(S, p, k, n, Leaf(t))
      BY <3>1, <3>2, <3>3 DEF TopFrom
    <3> QED  BY <2>3, <2>4, <3>4 DEF Topped
  <2>16. CASE t = Sign
    <3>1. Needed(t) = 1
      BY <2>16, LevelFacts DEF Needed, Sign
    <3>2. n # 1
      BY <2>8, <2>10, <2>13, <3>1
    <3>3. PICK a \in 1 .. n - 1 : \E e : TopFrom(S, p, n, a, e)
      BY <2>6, <2>10, <3>2 DEF Topped
    <3>4. PICK e : TopFrom(S, p, n, a, e)
      BY <3>3
    <3>5. /\ Stack(p, a) \in Seq(Entries(S)) /\ Stack(p, n) = Append(Stack(p, a), e)
          /\ e \in Entries(S) /\ Stands(S, Slice(p, a, n), e)
      BY <3>4 DEF TopFrom
    <3>6. a \in 1 .. n /\ a \in 1 .. k - 1
      BY <2>4
    <3>7. Stack(p, k) = Append(Stack(p, a), Negative(e))
      BY <2>9, <2>16, <3>5, PushSign
    <3>8. Stands(S, Slice(p, a, k), Negative(e))
      BY <2>12, <2>16, <3>5, <3>6, NegativeStands
    <3>9. TopFrom(S, p, k, a, Negative(e))
      BY <3>5, <3>7, <3>8 DEF TopFrom, Stands
    <3> QED  BY <2>3, <3>6, <3>9 DEF Topped
  <2>17. CASE t \in Binary
    <3>1. Needed(t) = 2
      BY <2>17 DEF Needed
    <3>2. n # 1
      BY <2>8, <2>10, <2>13, <3>1
    <3>3a. PICK b \in 1 .. n - 1 : \E e : TopFrom(S, p, n, b, e)
      BY <2>6, <2>10, <3>2 DEF Topped
    <3>3b. PICK e : TopFrom(S, p, n, b, e)
      BY <3>3a
    <3>3. /\ Stack(p, b) \in Seq(Entries(S)) /\ Stack(p, n) = Append(Stack(p, b), e)
          /\ e \in Entries(S) /\ Stands(S, Slice(p, b, n), e)
      BY <3>3b DEF TopFrom
    <3>4. b \in 1 .. n /\ e \in Entries(S) /\ n \in Nat /\ b \in Nat /\ b < n
      BY <2>4, <3>3
    <3>5. Len(Stack(p, n)) = Len(Stack(p, b)) + 1 /\ Len(Stack(p, b)) \in Nat
      BY <3>3, <3>4
    <3>6. b # 1
      BY <2>8, <2>13, <3>1, <3>4, <3>5
    <3>7a. PICK a \in 1 .. b - 1 : \E d : TopFrom(S, p, b, a, d)
      BY <2>6, <3>4, <3>6 DEF Topped
    <3>7b. PICK d : TopFrom(S, p, b, a, d)
      BY <3>7a
    <3>7. /\ Stack(p, a) \in Seq(Entries(S)) /\ Stack(p, b) = Append(Stack(p, a), d)
          /\ d \in Entries(S) /\ Stands(S, Slice(p, a, b), d)
      BY <3>7b DEF TopFrom
    <3>8. a \in 1 .. n /\ a \in 1 .. k - 1 /\ a \in 1 .. Len(p) + 1
          /\ b \in a .. Len(p) + 1 /\ n \in b .. Len(p) + 1
      BY <1>2, <2>4, <3>4
    <3>9. Stack(p, n) = Append(Append(Stack(p, a), d), e)
      BY <3>3, <3>7
    <3>10. Stack(p, k) = Append(Stack(p, a), Compound(t, d, e))
      BY <2>9, <2>17, <3>4, <3>7, <3>8, <3>9, PushBinary
    <3>11. Glued(Slice(p, a, n), Slice(p, a, b), Slice(p, b, n))
      BY <1>2, <3>8, SliceJoins
    <3>12. Stands(S, Append(Slice(p, a, n), t), Compound(t, d, e))
      BY <2>17, <3>3, <3>7, <3>11, CompoundStands
    <3>13. Stands(S, Slice(p, a, k), Compound(t, d, e))
      BY <2>12, <3>8, <3>12
    <3>14. TopFrom(S, p, k, a, Compound(t, d, e))
      BY <3>7, <3>10, <3>13 DEF TopFrom, Stands
    <3> QED  BY <2>3, <3>8, <3>14 DEF Topped
  <2> QED  BY <2>13, <2>15, <2>16, <2>17
<1> QED  BY <1>2, <1>3

(* Meaningful steps leave one value, whose text means them. *)
LEMMA TextStands ==
  ASSUME NEW S, Symbols \subseteq S, NEW p, Meaningful(p)
  PROVE  /\ p \in Seq(StepNames) /\ Text(p) \in Seq(S)
         /\ \E e : Stands(S, p, e) /\ e.text = Text(p)
<1>1a. p \in Seq(StepNames)
  BY EveryStepTops
<1>1. p \in Seq(StepNames) /\ Len(p) \in Nat
  BY <1>1a
<1>2. Stack(p, 1) = <<>> /\ Stack(p, Len(p) + 1) = Run(<<>>, p)
  BY <1>1, StackIs
<1>3. Len(Run(<<>>, p)) = 1
  BY DEF Meaningful
<1> DEFINE n == Len(p) + 1
<1>4. n \in 2 .. Len(p) + 1
  <2>1. Len(p) # 0
    <3>1. Len(<<>>) = 0
      OBVIOUS
    <3> QED  BY <3>1, <1>2, <1>3
  <2> QED  BY <2>1, <1>1
<1>5. Topped(S, p, n)
  BY <1>4, EveryStepTops
<1>6. Stack(p, n) = Run(<<>>, p)
  BY <1>2
<1>6a. n \in 1 .. Len(p) + 1 /\ n \in Nat
  BY <1>1
<1> HIDE DEF n
<1>7a. PICK a \in 1 .. n - 1 : \E e : TopFrom(S, p, n, a, e)
  BY <1>5 DEF Topped
<1>7b. PICK e : TopFrom(S, p, n, a, e)
  BY <1>7a
<1>7. /\ Stack(p, a) \in Seq(Entries(S)) /\ Stack(p, n) = Append(Stack(p, a), e)
      /\ Stands(S, Slice(p, a, n), e)
  BY <1>7b DEF TopFrom
<1>8. e \in Entries(S) /\ e.text \in Seq(S)
  BY <1>7 DEF Stands, Entries
<1>9. Len(Stack(p, a)) = 0
  <2>1. Len(Stack(p, n)) = Len(Stack(p, a)) + 1 /\ Len(Stack(p, a)) \in Nat
    BY <1>7, <1>8
  <2>2. Len(Stack(p, n)) = 1
    BY <1>3, <1>6
  <2> HIDE DEF n
  <2>3. \A u \in Nat : u + 1 = 1 => u = 0
    OBVIOUS
  <2> QED  BY <2>1, <2>2, <2>3
<1>10. a = 1
  <2>1. ASSUME a # 1  PROVE FALSE
    <3>1. a \in 2 .. Len(p) + 1
      BY <1>6a, <2>1
    <3>2a. Topped(S, p, a)
      BY <3>1, EveryStepTops
    <3>2b. PICK b \in 1 .. a - 1 : \E d : TopFrom(S, p, a, b, d)
      BY <3>2a DEF Topped
    <3>2. PICK d : TopFrom(S, p, a, b, d)
      BY <3>2b
    <3>3. Len(Stack(p, a)) = Len(Stack(p, b)) + 1 /\ Len(Stack(p, b)) \in Nat
      BY <3>2 DEF TopFrom
    <3>4. \A u \in Nat : u + 1 # 0
      OBVIOUS
    <3> QED  BY <3>3, <3>4, <1>9
  <2> QED  BY <2>1
<1>11. Slice(p, 1, n) = p
  <2>1. 1 \in 1 .. Len(p) + 1
    BY <1>1
  <2> QED  BY <1>1, <2>1, SliceShort DEF n
<1>12. Run(<<>>, p)[1] = e
  <2>1. Append(<<>>, e)[1] = e
    OBVIOUS
  <2> QED  BY <2>1, <1>2, <1>6, <1>7, <1>10
<1> QED  BY <1>1, <1>7, <1>8, <1>10, <1>11, <1>12 DEF Text

(* The line that is written for steps is read as these steps. *)
LEMMA TextIsRead ==
  ASSUME NEW p, Meaningful(p)
  PROVE  Parse(Text(p)).steps = p /\ Parse(Text(p)).next = Len(Text(p)) + 1
<1>1. p \in Seq(StepNames) /\ Text(p) \in Seq(Symbols)
  BY TextStands
<1>2. PICK e : Stands(Symbols, p, e) /\ e.text = Text(p)
  BY TextStands
<1> DEFINE s == Text(p)
           j == 1 + Len(s)
<1>3. s \in Seq(Symbols) /\ Len(s) \in Nat /\ 1 \in 1 .. Len(s) + 1 /\ j = Len(s) + 1
  BY <1>1
<1> HIDE DEF s
<1>4. PICK of : IsParser(s, of) /\ Parse(s) = of[<<"whole", 1, 1>>]
  BY <1>3, ParserExists
<1>5. Means(Symbols, s, 1, p)
  <2>1. e.level \in 1 .. FACTOR /\ 1 \in 1 .. FACTOR /\ 1 <= e.level /\ Means(Symbols, s, e.level, p)
    BY <1>2, LevelFacts DEF Stands, Entries, s
  <2> QED  BY <2>1, MeansAllBelow
<1>6. At(s, 1, s)
  <2>1. \A k \in 1 .. Len(s) : 1 + k - 1 = k
    BY <1>3
  <2>2. 1 + Len(s) <= Len(s) + 1
    BY <1>3
  <2> QED  BY <2>1, <2>2 DEF At
<1>7. Over(s, j, 1)
  <2>1. Token(s, j) = END
    BY <1>3 DEF Token
  <2> QED  BY <2>1, LevelFacts DEF Over
<1>8. ReadsTo(of, p, 1, 1, j)
  <2>1. 1 \in 1 .. FACTOR
    BY LevelFacts
  <2> QED  BY <2>1, <1>3, <1>4, <1>5, <1>6, <1>7, MeansHere
<1> QED  BY <1>3, <1>4, <1>8 DEF ReadsTo, s

LEMMA SameNumbers ==
  ASSUME UNCHANGED vars
  PROVE  Numbers' = Numbers
BY DEF Numbers, NumberOf, ValueOf, Hits

(* A line the user wrote for steps gives these steps, read to its end.       *)
LEMMA MeaningIsCalculated ==
  ASSUME NEW t, Meaningful(t), ~Rounds(Text(t))
  PROVE  Calculated(Text(t)) = [ok |-> TRUE, value |-> ValueIn(t, Numbers)]
<1>1. Parse(Text(t)).steps = t /\ Parse(Text(t)).next = Len(Text(t)) + 1
  BY TextIsRead
<1> QED  BY <1>1, Zenon DEF Calculated

(* A command on variables answers neither as a calculation nor as code.      *)
LEMMA OtherAnswers ==
  /\ \A n, l : SetVar(n, l) => answer'.did = "var"
  /\ \A n : DeleteVar(n) => answer'.did = "delete"
  /\ \A n : Echo(n) => answer'.did = "echo"
  /\ Prompt => answer'.did = "other"
<1>1. \A n, l : SetVar(n, l) => answer'.did = "var"
  <2> TAKE n, l
  <2>1. SetVar(n, l) => answer' = [did |-> "var", name |-> Kept[n], value |-> Stored(l)]
    BY Zenon DEF SetVar
  <2> QED  BY <2>1
<1>2. \A n : DeleteVar(n) => answer'.did = "delete"
  BY DEF DeleteVar
<1>3. \A n : Echo(n) => answer'.did = "echo"
  BY DEF Echo
<1>4. Prompt => answer'.did = "other"
  BY DEF Prompt, Silent
<1> QED  BY <1>1, <1>2, <1>3, <1>4

(* What a step of the shell may be, and what the screen shows after it.      *)
LEMMA ShellSteps ==
  ASSUME [Next]_<<vars, answer>>
  PROVE  \/ \E t \in Meanings : Calculate(Text(t), t)
         \/ \E s \in Lines : Calculate(s, <<>>)
         \/ \E i \in Instructions : Asm(i)
         \/ answer'.did \notin {"calculate", "asm"}
         \/ UNCHANGED <<vars, answer>>
<1>1. CASE Next
  <2>1. CASE Prompt
    BY <2>1, OtherAnswers
  <2>2. CASE \E n \in Names : (\E l \in Literals : SetVar(n, l)) \/ DeleteVar(n) \/ Echo(n)
    BY <2>2, OtherAnswers
  <2> QED  BY <1>1, <2>1, <2>2 DEF Next, Command
<1> QED  BY <1>1

(* What is written down is what is calculated: with the numbers the          *)
(* variables have, operators from the strongest to the weakest and from left *)
(* to right, for every calculation of steps (parse_expr to parse_factor).    *)
THEOREM ShellCalculatesAsWritten == Spec => []CalculatesAsWritten
<1>1. Init => CalculatesAsWritten
  BY DEF Init, VarInit, Silent, CalculatesAsWritten
<1>2. ASSUME CalculatesAsWritten, [Next]_<<vars, answer>>  PROVE CalculatesAsWritten'
  <2>1. ASSUME NEW t \in Meanings, Calculate(Text(t), t)  PROVE CalculatesAsWritten'
    <3>1. /\ answer'.did = "calculate" /\ answer'.line = Text(t) /\ answer'.meant = t
          /\ answer'.result = Calculated(Text(t)) /\ Numbers' = Numbers
      BY <2>1, SameNumbers DEF Calculate
    <3>2. ~Rounds(Text(t)) => Calculated(Text(t)) = [ok |-> TRUE, value |-> ValueIn(t, Numbers)]
      BY ShellAssumption, MeaningIsCalculated
    <3> QED  BY <3>1, <3>2, Zenon DEF CalculatesAsWritten
  <2>2. ASSUME NEW s \in Lines, Calculate(s, <<>>)  PROVE CalculatesAsWritten'
    BY <2>2 DEF Calculate, CalculatesAsWritten
  <2>3. ASSUME NEW i \in Instructions, Asm(i)  PROVE CalculatesAsWritten'
    BY <2>3 DEF Asm, CalculatesAsWritten
  <2>4. CASE answer'.did \notin {"calculate", "asm"}
    BY <2>4 DEF CalculatesAsWritten
  <2>5. CASE UNCHANGED <<vars, answer>>
    <3>1. Numbers' = Numbers /\ answer' = answer
      BY <2>5, SameNumbers
    <3> QED  BY <3>1, <1>2, Zenon DEF CalculatesAsWritten
  <2> QED  BY <1>2, <2>1, <2>2, <2>3, <2>4, <2>5, ShellSteps
<1> QED  BY <1>1, <1>2, PTL DEF Spec

(* No line is accepted that has not been read to its end, each number, name  *)
(* and operator once and in order, whatever is typed                         *)
(* (parse_and_calc_double).                                                  *)
THEOREM ShellSkipsNothing == Spec => []NothingSkipped
<1>1. Init => NothingSkipped
  BY DEF Init, VarInit, Silent, NothingSkipped
<1>2. ASSUME NothingSkipped, [Next]_<<vars, answer>>  PROVE NothingSkipped'
  <2>1. ASSUME NEW S, NEW s \in Seq(S), NEW m, Calculate(s, m)  PROVE NothingSkipped'
    <3>1. answer'.line = s /\ answer'.result = Calculated(s)
      BY <2>1 DEF Calculate
    <3>2. Calculated(s).ok /\ ~Rounds(s) => Bare(Text(Parse(s).steps)) = Bare(s)
      BY LineIsFaithful
    <3> QED  BY <3>1, <3>2, Zenon DEF NothingSkipped
  <2>2. ASSUME NEW t \in Meanings, Calculate(Text(t), t)  PROVE NothingSkipped'
    <3>1. Text(t) \in Seq(Symbols)
      BY ShellAssumption, TextStands
    <3> QED  BY <3>1, <2>1, <2>2
  <2>3. ASSUME NEW s \in Lines, Calculate(s, <<>>)  PROVE NothingSkipped'
    <3>1. s \in Seq(STRING)
      BY ShellAssumption
    <3> QED  BY <3>1, <2>1, <2>3
  <2>4. ASSUME NEW i \in Instructions, Asm(i)  PROVE NothingSkipped'
    BY <2>4 DEF Asm, NothingSkipped
  <2>5. CASE answer'.did \notin {"calculate", "asm"}
    BY <2>5 DEF NothingSkipped
  <2>6. CASE UNCHANGED <<vars, answer>>
    BY <1>2, <2>6, Zenon DEF NothingSkipped
  <2> QED  BY <1>2, <2>2, <2>3, <2>4, <2>5, <2>6, ShellSteps
<1> QED  BY <1>1, <1>2, PTL DEF Spec

-----------------------------------------------------------------------------
(* The processor: what elements of code are taken for, wherever they stand   *)

Ret == Instr("ret", <<>>)

Taken(c, at, a, n) == Decoded(c, at) = [instr |-> a, len |-> n]

TakenOne(x, a)   == \A c, at : c[at] = x => Taken(c, at, a, 1)
TakenTwo(x, y, a) == \A c, at : c[at] = x /\ c[at + 1] = y => Taken(c, at, a, 2)
TakenThree(x, y, z, a) ==
  \A c, at : c[at] = x /\ c[at + 1] = y /\ c[at + 2] = z => Taken(c, at, a, 3)
TakenFour(x, y, z, w, a) ==
  \A c, at : c[at] = x /\ c[at + 1] = y /\ c[at + 2] = z /\ c[at + 3] = w => Taken(c, at, a, 4)

LEMMA DecodedSets ==
  /\ DOMAIN OneByte = {144, 195, 204, 206, 241, 157, 156, 203, 207}
  /\ DOMAIN Rows = {64, 72, 80, 88} /\ DOMAIN TwoOperands = {1, 41, 57, 49, 137}
BY DEF OneByte, Rows, TwoOperands

(* The bytes that one arm of Decoded alone is for. *)
Alone == {\h8B, \h8E, \h81, \hF7, \hCD, \h74, \h75, \hFF, \hEA, \h9A, \hF3, \h0F}

LEMMA AloneFacts ==
  ASSUME NEW b \in Alone
  PROVE  /\ b \notin DOMAIN OneByte /\ 8 * (b \div 8) \notin DOMAIN Rows
         /\ 8 * (b \div 8) # \hB8 /\ b \notin DOMAIN TwoOperands
<1>1. 8 * (b \div 8) \in {136, 128, 240, 200, 112, 248, 232, 152, 8}
  BY DEF Alone
<1> QED  BY <1>1, DecodedSets DEF Alone

LEMMA FieldFacts ==
  ASSUME NEW q \in 0 .. 7, NEW r \in 0 .. 7
  PROVE  /\ RegField(ModRM(q, r)) = q /\ RmField(ModRM(q, r)) = r /\ IsReg(ModRM(q, r))
         /\ RegField(8 * q) = q /\ ~IsReg(8 * q) /\ RegField(8 * q + 5) = q
BY DEF RegField, RmField, IsReg, ModRM

LEMMA TakenByOneByte ==
  ASSUME NEW b \in DOMAIN OneByte
  PROVE  TakenOne(b, Instr(OneByte[b], <<>>))
<1> SUFFICES ASSUME NEW c, NEW at, c[at] = b  PROVE Taken(c, at, Instr(OneByte[b], <<>>), 1)
  BY DEF TakenOne
<1>1. b \in {144, 195, 204, 206, 241, 157, 156, 203, 207}
  BY DecodedSets
<1>2. 8 * (b \div 8) \in {144, 192, 200, 240, 152}
  BY <1>1
<1>3. 8 * (b \div 8) \notin DOMAIN Rows /\ 8 * (b \div 8) # \hB8 /\ b \notin DOMAIN TwoOperands
      /\ b \notin Alone
  BY <1>1, <1>2, DecodedSets DEF Alone
<1> QED  BY <1>1, <1>3 DEF Decoded, Taken, Alone

LEMMA TakenAsRet == TakenOne(\hC3, Ret)
<1>1. \hC3 \in DOMAIN OneByte /\ OneByte[\hC3] = "ret"
  BY DecodedSets DEF OneByte
<1> QED  BY <1>1, TakenByOneByte DEF Ret

LEMMA TakenByRow ==
  ASSUME NEW q \in {64, 72, 80, 88}, NEW r \in 0 .. 7
  PROVE  TakenOne(q + r, Instr(Rows[q], <<Reg(r)>>))
<1> SUFFICES ASSUME NEW c, NEW at, c[at] = q + r  PROVE Taken(c, at, Instr(Rows[q], <<Reg(r)>>), 1)
  BY DEF TakenOne
<1> DEFINE b == c[at]
<1>1. 8 * (b \div 8) = q /\ b % 8 = r /\ b \in 64 .. 95
  OBVIOUS
<1>2. b \notin DOMAIN OneByte /\ q \in DOMAIN Rows /\ q # \hB8 /\ b \notin DOMAIN TwoOperands
      /\ b \notin Alone
  BY <1>1, DecodedSets DEF Alone
<1> QED  BY <1>1, <1>2 DEF Decoded, Taken, Alone

LEMMA TakenAsMov ==
  ASSUME NEW r \in 0 .. 7, NEW v
  PROVE  TakenTwo(\hB8 + r, <<v>>, Instr("mov", <<Reg(r), Imm(v)>>))
<1> SUFFICES ASSUME NEW c, NEW at, c[at] = \hB8 + r, c[at + 1] = <<v>>
             PROVE  Taken(c, at, Instr("mov", <<Reg(r), Imm(v)>>), 2)
  BY DEF TakenTwo
<1> DEFINE b == c[at]
<1>1. 8 * (b \div 8) = \hB8 /\ b % 8 = r /\ b \in 184 .. 191
  OBVIOUS
<1>2. b \notin DOMAIN OneByte /\ \hB8 \notin DOMAIN Rows /\ b \notin DOMAIN TwoOperands
      /\ b \notin Alone
  BY <1>1, DecodedSets DEF Alone
<1>3. c[at + 1][1] = v
  OBVIOUS
<1> QED  BY <1>1, <1>2, <1>3 DEF Decoded, Taken, Alone

LEMMA TakenByTwoOperands ==
  ASSUME NEW b \in DOMAIN TwoOperands, NEW q \in 0 .. 7, NEW r \in 0 .. 7
  PROVE  /\ TakenTwo(b, ModRM(q, r), Instr(TwoOperands[b], <<Reg(r), Reg(q)>>))
         /\ TakenTwo(b, 8 * q, Instr(TwoOperands[b], <<AtEax, Reg(q)>>))
<1>1. b \in {1, 41, 57, 49, 137}
  BY DecodedSets
<1>2. 8 * (b \div 8) \in {0, 40, 48, 56, 136}
  BY <1>1
<1>3. 8 * (b \div 8) \notin DOMAIN Rows /\ 8 * (b \div 8) # \hB8 /\ b \notin DOMAIN OneByte
      /\ b \notin Alone
  BY <1>1, <1>2, DecodedSets DEF Alone
<1>4. ASSUME NEW c, NEW at, c[at] = b, c[at + 1] = ModRM(q, r)
      PROVE  Taken(c, at, Instr(TwoOperands[b], <<Reg(r), Reg(q)>>), 2)
  <2> DEFINE rm == IF IsReg(c[at + 1]) THEN Reg(RmField(c[at + 1])) ELSE AtEax
  <2>1. rm = Reg(r) /\ Reg(RegField(c[at + 1])) = Reg(q)
    BY <1>4, FieldFacts
  <2>2. Decoded(c, at) = [instr |-> Instr(TwoOperands[c[at]], <<rm, Reg(RegField(c[at + 1]))>>), len |-> 2]
    BY <1>1, <1>3, <1>4 DEF Decoded, Alone
  <2> QED  BY <1>4, <2>1, <2>2 DEF Taken
<1>5. ASSUME NEW c, NEW at, c[at] = b, c[at + 1] = 8 * q
      PROVE  Taken(c, at, Instr(TwoOperands[b], <<AtEax, Reg(q)>>), 2)
  <2> DEFINE rm == IF IsReg(c[at + 1]) THEN Reg(RmField(c[at + 1])) ELSE AtEax
  <2>1. rm = AtEax /\ Reg(RegField(c[at + 1])) = Reg(q)
    BY <1>5, FieldFacts
  <2>2. Decoded(c, at) = [instr |-> Instr(TwoOperands[c[at]], <<rm, Reg(RegField(c[at + 1]))>>), len |-> 2]
    BY <1>1, <1>3, <1>5 DEF Decoded, Alone
  <2> QED  BY <1>5, <2>1, <2>2 DEF Taken
<1> QED  BY <1>4, <1>5 DEF TakenTwo

(* A register, a segment, or memory at eax. *)
LEMMA TakenByModRM ==
  ASSUME NEW q \in 0 .. 7, NEW r \in 0 .. 7, NEW v
  PROVE  /\ TakenTwo(\h8B, 8 * q, Instr("mov", <<Reg(q), AtEax>>))
         /\ TakenTwo(\h8E, ModRM(q, r), Instr("mov", <<Seg(q), Ax>>))
         /\ TakenThree(\h81, ModRM(q, r), <<v>>, Instr(IF q = 0 THEN "add" ELSE "sub", <<Reg(r), Imm(v)>>))
         /\ TakenTwo(\hF7, ModRM(q, r), Instr(IF q = 6 THEN "div" ELSE "idiv", <<Reg(r)>>))
         /\ TakenTwo(\hFF, ModRM(q, r), Instr("jmp", <<Reg(r)>>))
<1>1. ASSUME NEW c, NEW at, c[at] = \h8B, c[at + 1] = 8 * q
      PROVE  Taken(c, at, Instr("mov", <<Reg(q), AtEax>>), 2)
  <2>1. c[at] \in Alone
    BY <1>1 DEF Alone
  <2> QED  BY <1>1, <2>1, AloneFacts, FieldFacts DEF Decoded, Taken
<1>2. ASSUME NEW c, NEW at, c[at] = \h8E, c[at + 1] = ModRM(q, r)
      PROVE  Taken(c, at, Instr("mov", <<Seg(q), Ax>>), 2)
  <2>1. c[at] \in Alone
    BY <1>2 DEF Alone
  <2> QED  BY <1>2, <2>1, AloneFacts, FieldFacts DEF Decoded, Taken
<1>3. ASSUME NEW c, NEW at, c[at] = \h81, c[at + 1] = ModRM(q, r), c[at + 2] = <<v>>
      PROVE  Taken(c, at, Instr(IF q = 0 THEN "add" ELSE "sub", <<Reg(r), Imm(v)>>), 3)
  <2>1. c[at] \in Alone
    BY <1>3 DEF Alone
  <2> QED  BY <1>3, <2>1, AloneFacts, FieldFacts DEF Decoded, Taken
<1>4. ASSUME NEW c, NEW at, c[at] = \hF7, c[at + 1] = ModRM(q, r)
      PROVE  Taken(c, at, Instr(IF q = 6 THEN "div" ELSE "idiv", <<Reg(r)>>), 2)
  <2>1. c[at] \in Alone
    BY <1>4 DEF Alone
  <2> QED  BY <1>4, <2>1, AloneFacts, FieldFacts DEF Decoded, Taken
<1>5. ASSUME NEW c, NEW at, c[at] = \hFF, c[at + 1] = ModRM(q, r)
      PROVE  Taken(c, at, Instr("jmp", <<Reg(r)>>), 2)
  <2>1. c[at] \in Alone
    BY <1>5 DEF Alone
  <2> QED  BY <1>5, <2>1, AloneFacts, FieldFacts DEF Decoded, Taken
<1> QED  BY <1>1, <1>2, <1>3, <1>4, <1>5 DEF TakenThree, TakenTwo

(* Numbers behind the first byte. *)
LEMMA TakenByNumber ==
  ASSUME NEW v
  PROVE  /\ TakenTwo(\hCD, v, Instr("int", <<Imm(v)>>))
         /\ TakenTwo(\h74, v, Instr("je", <<Imm(Signed(v))>>))
         /\ TakenTwo(\h75, v, Instr("jne", <<Imm(Signed(v))>>))
<1>1. ASSUME NEW c, NEW at, c[at] = \hCD, c[at + 1] = v
      PROVE  Taken(c, at, Instr("int", <<Imm(v)>>), 2)
  <2>1. c[at] \in Alone
    BY <1>1 DEF Alone
  <2> QED  BY <1>1, <2>1, AloneFacts, FieldFacts DEF Decoded, Taken
<1>2. ASSUME NEW c, NEW at, c[at] = \h74, c[at + 1] = v
      PROVE  Taken(c, at, Instr("je", <<Imm(Signed(v))>>), 2)
  <2>1. c[at] \in Alone
    BY <1>2 DEF Alone
  <2> QED  BY <1>2, <2>1, AloneFacts, FieldFacts DEF Decoded, Taken
<1>3. ASSUME NEW c, NEW at, c[at] = \h75, c[at + 1] = v
      PROVE  Taken(c, at, Instr("jne", <<Imm(Signed(v))>>), 2)
  <2>1. c[at] \in Alone
    BY <1>3 DEF Alone
  <2> QED  BY <1>3, <2>1, AloneFacts, FieldFacts DEF Decoded, Taken
<1> QED  BY <1>1, <1>2, <1>3 DEF TakenTwo

LEMMA TakenAsFar ==
  ASSUME NEW v, NEW w
  PROVE  /\ TakenThree(\hEA, <<v>>, <<w>>, Instr("jmpf", <<Imm(v), Imm(w)>>))
         /\ TakenThree(\h9A, <<v>>, <<w>>, Instr("lcall", <<Imm(v), Imm(w)>>))
<1>1. ASSUME NEW c, NEW at, c[at] = \hEA, c[at + 1] = <<v>>, c[at + 2] = <<w>>
      PROVE  Taken(c, at, Instr("jmpf", <<Imm(v), Imm(w)>>), 3)
  <2>1. c[at] \in Alone
    BY <1>1 DEF Alone
  <2> QED  BY <1>1, <2>1, AloneFacts, FieldFacts DEF Decoded, Taken
<1>2. ASSUME NEW c, NEW at, c[at] = \h9A, c[at + 1] = <<v>>, c[at + 2] = <<w>>
      PROVE  Taken(c, at, Instr("lcall", <<Imm(v), Imm(w)>>), 3)
  <2>1. c[at] \in Alone
    BY <1>2 DEF Alone
  <2> QED  BY <1>2, <2>1, AloneFacts, FieldFacts DEF Decoded, Taken
<1> QED  BY <1>1, <1>2 DEF TakenThree

(* Instructions of more bytes. *)
LEMMA TakenByMore ==
  ASSUME NEW q \in 0 .. 7, NEW r \in 0 .. 7, NEW v
  PROVE  /\ TakenTwo(\h0F, \h0B, Instr("ud2", <<>>))
         /\ TakenThree(\h0F, \h20, ModRM(q, r), Instr("mov", <<Reg(r), Cr(q)>>))
         /\ TakenThree(\h0F, \h22, ModRM(q, r), Instr("mov", <<Cr(q), Reg(r)>>))
         /\ TakenThree(\h0F, \h23, ModRM(q, r), Instr("mov", <<Dr(q), Reg(r)>>))
         /\ TakenThree(\h0F, \h57, ModRM(q, r), Instr("xorps", <<Xmm(q), Xmm(r)>>))
         /\ TakenFour(\h0F, 1, 8 * q + 5, <<v>>, Instr(IF q = 2 THEN "lgdt" ELSE "lidt", <<Mem(v)>>))
         /\ TakenFour(\hF3, \h0F, \h5E, ModRM(q, r), Instr("divss", <<Xmm(q), Xmm(r)>>))
<1>1. ASSUME NEW c, NEW at, c[at] = \h0F, c[at + 1] = \h0B
      PROVE  Taken(c, at, Instr("ud2", <<>>), 2)
  <2>1. c[at] \in Alone
    BY <1>1 DEF Alone
  <2> QED  BY <1>1, <2>1, AloneFacts, FieldFacts DEF Decoded, Taken
<1>2. ASSUME NEW c, NEW at, c[at] = \h0F, c[at + 1] = \h20, c[at + 2] = ModRM(q, r)
      PROVE  Taken(c, at, Instr("mov", <<Reg(r), Cr(q)>>), 3)
  <2>1. c[at] \in Alone
    BY <1>2 DEF Alone
  <2> QED  BY <1>2, <2>1, AloneFacts, FieldFacts DEF Decoded, Taken
<1>3. ASSUME NEW c, NEW at, c[at] = \h0F, c[at + 1] = \h22, c[at + 2] = ModRM(q, r)
      PROVE  Taken(c, at, Instr("mov", <<Cr(q), Reg(r)>>), 3)
  <2>1. c[at] \in Alone
    BY <1>3 DEF Alone
  <2> QED  BY <1>3, <2>1, AloneFacts, FieldFacts DEF Decoded, Taken
<1>4. ASSUME NEW c, NEW at, c[at] = \h0F, c[at + 1] = \h23, c[at + 2] = ModRM(q, r)
      PROVE  Taken(c, at, Instr("mov", <<Dr(q), Reg(r)>>), 3)
  <2>1. c[at] \in Alone
    BY <1>4 DEF Alone
  <2> QED  BY <1>4, <2>1, AloneFacts, FieldFacts DEF Decoded, Taken
<1>5. ASSUME NEW c, NEW at, c[at] = \h0F, c[at + 1] = \h57, c[at + 2] = ModRM(q, r)
      PROVE  Taken(c, at, Instr("xorps", <<Xmm(q), Xmm(r)>>), 3)
  <2>1. c[at] \in Alone
    BY <1>5 DEF Alone
  <2> QED  BY <1>5, <2>1, AloneFacts, FieldFacts DEF Decoded, Taken
<1>6. ASSUME NEW c, NEW at, c[at] = \h0F, c[at + 1] = 1, c[at + 2] = 8 * q + 5, c[at + 3] = <<v>>
      PROVE  Taken(c, at, Instr(IF q = 2 THEN "lgdt" ELSE "lidt", <<Mem(v)>>), 4)
  <2>1. c[at] \in Alone
    BY <1>6 DEF Alone
  <2> QED  BY <1>6, <2>1, AloneFacts, FieldFacts DEF Decoded, Taken
<1>7. ASSUME NEW c, NEW at, c[at] = \hF3, c[at + 1] = \h0F, c[at + 2] = \h5E, c[at + 3] = ModRM(q, r)
      PROVE  Taken(c, at, Instr("divss", <<Xmm(q), Xmm(r)>>), 4)
  <2>1. c[at] \in Alone
    BY <1>7 DEF Alone
  <2> QED  BY <1>7, <2>1, AloneFacts, FieldFacts DEF Decoded, Taken
<1> QED  BY <1>1, <1>2, <1>3, <1>4, <1>5, <1>6, <1>7 DEF TakenFour, TakenThree, TakenTwo

LEMMA TakenAsMovEax ==
  ASSUME NEW v
  PROVE  TakenTwo(\hB8, <<v>>, Instr("mov", <<EAX, Imm(v)>>))
<1>1. 0 \in 0 .. 7 /\ \hB8 + 0 = \hB8
  OBVIOUS
<1> QED  BY <1>1, TakenAsMov DEF EAX

LEMMA TakenAsJump == TakenTwo(\hFF, \hE0, Instr("jmp", <<EAX>>))
<1>1. PICK q \in 0 .. 7, r \in 0 .. 7 : r = 0 /\ ModRM(q, r) = \hE0
  <2>1. 0 \in 0 .. 7 /\ 4 \in 0 .. 7 /\ ModRM(4, 0) = \hE0
    BY DEF ModRM
  <2> QED  BY <2>1
<1>2. TakenTwo(\hFF, ModRM(q, r), Instr("jmp", <<Reg(r)>>))
  BY TakenByModRM
<1> QED  BY <1>1, <1>2 DEF EAX

(* f is how far the reading of c has come after each step. *)
NextRead(c, r) ==
  IF r.at > Len(c) THEN r
  ELSE [at     |-> r.at + Decoded(c, r.at).len,
        instrs |-> Append(r.instrs, Decoded(c, r.at).instr)]

Reads(f, c) ==
  \A k \in 0 .. Len(c) :
    f[k] = IF k = 0 THEN [at |-> 1, instrs |-> <<>>] ELSE NextRead(c, f[k - 1])

LEMMA RunsIs ==
  ASSUME NEW c, Len(c) \in Nat
  PROVE  \E f : Reads(f, c) /\ Runs(c) = f[Len(c)].instrs
<1> DEFINE start == [at |-> 1, instrs |-> <<>>]
           Upto(n, f) == f = [k \in 0 .. n |-> IF k = 0 THEN start ELSE NextRead(c, f[k - 1])]
           None == {n \in 0 .. Len(c) : \A f : ~Upto(n, f)}
<1>2. ASSUME None # {}  PROVE FALSE
  <2>1. None \in SUBSET Nat
    <3> HIDE DEF Upto
    <3> QED  OBVIOUS
  <2>2. PICK n \in None : \A m \in None : n <= m
    <3> HIDE DEF None
    <3> QED  BY <1>2, <2>1, LeastExists
  <2>3. n \in 0 .. Len(c) /\ \A f : ~Upto(n, f)
    OBVIOUS
  <2> HIDE DEF start
  <2>4. n # 0
    <3>1. Upto(0, [k \in 0 .. 0 |-> start])
      <4>1. \A k \in 0 .. 0 : k = 0
        OBVIOUS
      <4> QED  BY <4>1
    <3> HIDE DEF Upto
    <3> QED  BY <2>3, <3>1
  <2>5. n - 1 \in 0 .. Len(c) /\ ~(n <= n - 1)
    BY <2>3, <2>4
  <2>6. PICK g : Upto(n - 1, g)
    <3> HIDE DEF Upto
    <3> QED  BY <2>2, <2>5
  <2> DEFINE h == [k \in 0 .. n |-> IF k <= n - 1 THEN g[k] ELSE NextRead(c, g[n - 1])]
  <2>7. ASSUME NEW k \in 0 .. n
        PROVE  h[k] = IF k = 0 THEN start ELSE NextRead(c, h[k - 1])
    <3>1. CASE k = n
      <4>1. n - 1 \in 0 .. n /\ n - 1 <= n - 1 /\ ~(n <= n - 1)
        BY <2>3, <2>4
      <4>2. h[k] = NextRead(c, g[n - 1]) /\ h[n - 1] = g[n - 1]
        BY <3>1, <4>1
      <4> HIDE DEF h
      <4> QED  BY <3>1, <4>2, <2>4
    <3>2. CASE k # n
      <4>1. k \in 0 .. n - 1 /\ k <= n - 1 /\ (k # 0 => k - 1 \in 0 .. n /\ k - 1 <= n - 1)
        BY <3>2, <2>3
      <4>2. g[k] = IF k = 0 THEN start ELSE NextRead(c, g[k - 1])
        BY <4>1, <2>6
      <4>3. h[k] = g[k] /\ (k # 0 => h[k - 1] = g[k - 1])
        BY <4>1
      <4> HIDE DEF h
      <4> QED  BY <4>2, <4>3
    <3> QED  BY <3>1, <3>2
  <2>8. Upto(n, h)
    <3>1. h = [k \in 0 .. n |-> h[k]]
      OBVIOUS
    <3> HIDE DEF h
    <3> QED  BY <3>1, <2>7
  <2> HIDE DEF Upto, h
  <2> QED  BY <2>3, <2>8
<1>3. \E f : Upto(Len(c), f)
  <2> HIDE DEF Upto
  <2> QED  BY <1>2
<1> DEFINE read == CHOOSE f : Upto(Len(c), f)
<1>4. Upto(Len(c), read)
  <2> HIDE DEF Upto
  <2> QED  BY <1>3
<1>5. Runs(c) = read[Len(c)].instrs
  BY Zenon DEF Runs, NextRead
<1>6. Reads(read, c)
  <2> HIDE DEF read
  <2> QED  BY <1>4 DEF Reads
<1> QED  BY <1>5, <1>6

(* Reading stops behind the code. *)
LEMMA ReadsStop ==
  ASSUME NEW c, Len(c) \in Nat, NEW f, Reads(f, c), NEW n \in 0 .. Len(c), f[n].at > Len(c)
  PROVE  f[Len(c)] = f[n]
<1> DEFINE Other == {k \in n .. Len(c) : f[k] # f[n]}
<1>1. ASSUME Other # {}  PROVE FALSE
  <2>1. Other \in SUBSET Nat
    OBVIOUS
  <2>2. PICK k \in Other : \A m \in Other : k <= m
    <3> HIDE DEF Other
    <3> QED  BY <1>1, <2>1, LeastExists
  <2>3. k \in n .. Len(c) /\ f[k] # f[n]
    OBVIOUS
  <2>4. k # n /\ k \in 0 .. Len(c) /\ k # 0 /\ k - 1 \in n .. Len(c) /\ ~(k <= k - 1)
    BY <2>3
  <2>5. f[k - 1] = f[n]
    BY <2>2, <2>4
  <2>6. f[k] = NextRead(c, f[k - 1])
    BY <2>4 DEF Reads
  <2> QED  BY <2>3, <2>5, <2>6 DEF NextRead
<1>2. Len(c) \in n .. Len(c)
  OBVIOUS
<1> QED  BY <1>1, <1>2

LEMMA RunsNone == Runs(<<>>) = <<>>
<1>1. Len(<<>>) = 0 /\ 0 \in 0 .. 0
  OBVIOUS
<1>2. PICK f : Reads(f, <<>>) /\ Runs(<<>>) = f[Len(<<>>)].instrs
  BY <1>1, RunsIs
<1>3. f[0] = [at |-> 1, instrs |-> <<>>]
  BY <1>1, <1>2 DEF Reads
<1> QED  BY <1>1, <1>2, <1>3

(* An instruction behind which the code ends, and another one before.        *)
LEMMA RunsTwo ==
  ASSUME NEW c, NEW n \in Nat \ {0}, Len(c) = n + 1, NEW a, NEW b,
         Taken(c, 1, a, n), Taken(c, n + 1, b, 1)
  PROVE  Runs(c) = <<a, b>>
<1>1. Len(c) \in Nat /\ 0 \in 0 .. Len(c) /\ 1 \in 0 .. Len(c) /\ 2 \in 0 .. Len(c)
      /\ 1 + n = n + 1 /\ ~(1 > Len(c)) /\ ~(n + 1 > Len(c)) /\ (n + 1) + 1 > Len(c)
  OBVIOUS
<1>2. PICK f : Reads(f, c) /\ Runs(c) = f[Len(c)].instrs
  BY <1>1, RunsIs
<1>3. f[0] = [at |-> 1, instrs |-> <<>>]
  BY <1>1, <1>2 DEF Reads
<1>4. f[1] = [at |-> n + 1, instrs |-> <<a>>]
  <2>1. f[1] = NextRead(c, f[0])
    BY <1>1, <1>2 DEF Reads
  <2> QED  BY <1>1, <1>3, <2>1 DEF NextRead, Taken
<1>5. f[2] = [at |-> (n + 1) + 1, instrs |-> <<a, b>>]
  <2>1. f[2] = NextRead(c, f[1])
    BY <1>1, <1>2 DEF Reads
  <2> QED  BY <1>1, <1>4, <2>1 DEF NextRead, Taken
<1>6. f[Len(c)] = f[2]
  BY <1>1, <1>2, <1>5, ReadsStop
<1> QED  BY <1>2, <1>5, <1>6

LEMMA RunsThree ==
  ASSUME NEW c, NEW m \in Nat \ {0}, NEW n \in Nat \ {0}, Len(c) = m + n + 1, NEW a, NEW b, NEW d,
         Taken(c, 1, a, m), Taken(c, m + 1, b, n), Taken(c, m + n + 1, d, 1)
  PROVE  Runs(c) = <<a, b, d>>
<1>1. /\ Len(c) \in Nat /\ 0 \in 0 .. Len(c) /\ 1 \in 0 .. Len(c) /\ 2 \in 0 .. Len(c) /\ 3 \in 0 .. Len(c)
      /\ 1 + m = m + 1 /\ (m + 1) + n = m + n + 1
      /\ ~(1 > Len(c)) /\ ~(m + 1 > Len(c)) /\ ~(m + n + 1 > Len(c)) /\ (m + n + 1) + 1 > Len(c)
  OBVIOUS
<1>2. PICK f : Reads(f, c) /\ Runs(c) = f[Len(c)].instrs
  BY <1>1, RunsIs
<1>3. f[0] = [at |-> 1, instrs |-> <<>>]
  BY <1>1, <1>2 DEF Reads
<1>4. f[1] = [at |-> m + 1, instrs |-> <<a>>]
  <2>1. f[1] = NextRead(c, f[0])
    BY <1>1, <1>2 DEF Reads
  <2> QED  BY <1>1, <1>3, <2>1 DEF NextRead, Taken
<1>5. f[2] = [at |-> m + n + 1, instrs |-> <<a, b>>]
  <2>1. f[2] = NextRead(c, f[1])
    BY <1>1, <1>2 DEF Reads
  <2> QED  BY <1>1, <1>4, <2>1 DEF NextRead, Taken
<1>6. f[3] = [at |-> (m + n + 1) + 1, instrs |-> <<a, b, d>>]
  <2>1. f[3] = NextRead(c, f[2])
    BY <1>1, <1>2 DEF Reads
  <2> QED  BY <1>1, <1>5, <2>1 DEF NextRead, Taken
<1>7. f[Len(c)] = f[3]
  BY <1>1, <1>2, <1>6, ReadsStop
<1> QED  BY <1>2, <1>6, <1>7

-----------------------------------------------------------------------------
LEMMA AppendIs ==
  ASSUME NEW S, NEW s \in Seq(S), NEW t \in Seq(S), NEW r \in S,
         Len(t) = Len(s) + 1, t[Len(t)] = r, \A k \in 1 .. Len(s) : t[k] = s[k]
  PROVE  Append(s, r) = t
<1> DEFINE u == Append(s, r)
<1>1. u \in Seq(S) /\ Len(u) = Len(t) /\ u[Len(t)] = r /\ \A k \in 1 .. Len(s) : u[k] = s[k]
  OBVIOUS
<1>2. \A k \in 1 .. Len(t) : k = Len(t) \/ k \in 1 .. Len(s)
  OBVIOUS
<1> HIDE DEF u
<1>3. \A k \in 1 .. Len(u) : u[k] = t[k]
  BY <1>1, <1>2
<1>4. u = t
  BY <1>1, <1>3, SeqEqual
<1> QED  BY <1>4 DEF u

LEMMA AppendToOne ==
  ASSUME NEW x, NEW r
  PROVE  Append(<<x>>, r) = <<x, r>>
<1> DEFINE S == {x, r}
           s == <<x>>
           t == <<x, r>>
<1>1. s \in Seq(S) /\ t \in Seq(S) /\ r \in S
  OBVIOUS
<1>2. Len(s) = 1 /\ Len(t) = 1 + 1 /\ t[1 + 1] = r /\ t[1] = s[1]
  OBVIOUS
<1>3. \A k \in 1 .. 1 : k = 1
  OBVIOUS
<1> HIDE DEF S, s, t
<1>4. Len(t) = Len(s) + 1 /\ t[Len(t)] = r /\ \A k \in 1 .. Len(s) : t[k] = s[k]
  BY <1>2, <1>3
<1>5. Append(s, r) = t
  BY <1>1, <1>4, AppendIs
<1> QED  BY <1>5 DEF s, t

LEMMA AppendToTwo ==
  ASSUME NEW x, NEW y, NEW r
  PROVE  Append(<<x, y>>, r) = <<x, y, r>>
<1> DEFINE S == {x, y, r}
           s == <<x, y>>
           t == <<x, y, r>>
<1>1. s \in Seq(S) /\ t \in Seq(S) /\ r \in S
  OBVIOUS
<1>2. Len(s) = 2 /\ Len(t) = 2 + 1 /\ t[2 + 1] = r /\ t[1] = s[1] /\ t[2] = s[2]
  OBVIOUS
<1>3. \A k \in 1 .. 2 : k = 1 \/ k = 2
  OBVIOUS
<1> HIDE DEF S, s, t
<1>4. Len(t) = Len(s) + 1 /\ t[Len(t)] = r /\ \A k \in 1 .. Len(s) : t[k] = s[k]
  BY <1>2, <1>3
<1>5. Append(s, r) = t
  BY <1>1, <1>4, AppendIs
<1> QED  BY <1>5 DEF s, t

LEMMA AppendToThree ==
  ASSUME NEW x, NEW y, NEW z, NEW r
  PROVE  Append(<<x, y, z>>, r) = <<x, y, z, r>>
<1> DEFINE S == {x, y, z, r}
           s == <<x, y, z>>
           t == <<x, y, z, r>>
<1>1. s \in Seq(S) /\ t \in Seq(S) /\ r \in S
  OBVIOUS
<1>2. Len(s) = 3 /\ Len(t) = 3 + 1 /\ t[3 + 1] = r /\ t[1] = s[1] /\ t[2] = s[2] /\ t[3] = s[3]
  OBVIOUS
<1>3. \A k \in 1 .. 3 : k = 1 \/ k = 2 \/ k = 3
  OBVIOUS
<1> HIDE DEF S, s, t
<1>4. Len(t) = Len(s) + 1 /\ t[Len(t)] = r /\ \A k \in 1 .. Len(s) : t[k] = s[k]
  BY <1>2, <1>3
<1>5. Append(s, r) = t
  BY <1>1, <1>4, AppendIs
<1> QED  BY <1>5 DEF s, t

LEMMA AppendToFour ==
  ASSUME NEW x, NEW y, NEW z, NEW w, NEW r
  PROVE  Append(<<x, y, z, w>>, r) = <<x, y, z, w, r>>
<1> DEFINE S == {x, y, z, w, r}
           s == <<x, y, z, w>>
           t == <<x, y, z, w, r>>
<1>1. s \in Seq(S) /\ t \in Seq(S) /\ r \in S
  OBVIOUS
<1>2. Len(s) = 4 /\ Len(t) = 4 + 1 /\ t[4 + 1] = r /\ t[1] = s[1] /\ t[2] = s[2] /\ t[3] = s[3] /\ t[4] = s[4]
  OBVIOUS
<1>3. \A k \in 1 .. 4 : k = 1 \/ k = 2 \/ k = 3 \/ k = 4
  OBVIOUS
<1> HIDE DEF S, s, t
<1>4. Len(t) = Len(s) + 1 /\ t[Len(t)] = r /\ \A k \in 1 .. Len(s) : t[k] = s[k]
  BY <1>2, <1>3
<1>5. Append(s, r) = t
  BY <1>1, <1>4, AppendIs
<1> QED  BY <1>5 DEF s, t


(* What the text of an instruction asks for, and whether the code made of it *)
(* runs as that.                                                             *)
Asks(i)  == AskedFor(AsWritten(i))
Right(i) == Runs(Assembled(i)) = Append(Asks(i), Ret)

LEMMA JoinedToOne ==
  ASSUME NEW x, NEW r
  PROVE  <<x>> \o <<r>> = <<x, r>>
<1> DEFINE S == {x, r}
           s == <<x>>
<1>1. s \in Seq(S) /\ r \in S
  OBVIOUS
<1> HIDE DEF S, s
<1>2. s \o <<r>> = Append(s, r)
  BY <1>1, AppendIsConcat
<1> QED  BY <1>2, AppendToOne DEF s

LEMMA JoinedToTwo ==
  ASSUME NEW x, NEW y, NEW r
  PROVE  <<x, y>> \o <<r>> = <<x, y, r>>
<1> DEFINE S == {x, y, r}
           s == <<x, y>>
<1>1. s \in Seq(S) /\ r \in S
  OBVIOUS
<1> HIDE DEF S, s
<1>2. s \o <<r>> = Append(s, r)
  BY <1>1, AppendIsConcat
<1> QED  BY <1>2, AppendToTwo DEF s

LEMMA JoinedToThree ==
  ASSUME NEW x, NEW y, NEW z, NEW r
  PROVE  <<x, y, z>> \o <<r>> = <<x, y, z, r>>
<1> DEFINE S == {x, y, z, r}
           s == <<x, y, z>>
<1>1. s \in Seq(S) /\ r \in S
  OBVIOUS
<1> HIDE DEF S, s
<1>2. s \o <<r>> = Append(s, r)
  BY <1>1, AppendIsConcat
<1> QED  BY <1>2, AppendToThree DEF s

LEMMA OneCode ==
  ASSUME NEW i, NEW x, Encoded(i) = <<x>>, NEW a, TakenOne(x, a)
  PROVE  Runs(Assembled(i)) = <<a, Ret>>
<1> DEFINE c == <<x, \hC3>>
           n == 1
<1>1. Assembled(i) = c
  <2>1. Encoded(i) # <<>>
    OBVIOUS
  <2>2. Append(<<x>>, \hC3) = c
    BY AppendToOne
  <2> QED  BY <2>1, <2>2, Zenon DEF Assembled
<1>2. Len(c) = n + 1 /\ c[n + 1] = \hC3 /\ n \in Nat \ {0} /\ c[1] = x
  OBVIOUS
<1> HIDE DEF c
<1>3. Taken(c, 1, a, n)
  BY <1>2 DEF TakenOne
<1> HIDE DEF n
<1>4. Taken(c, n + 1, Ret, 1)
  BY <1>2, TakenAsRet DEF TakenOne
<1>5. Runs(c) = <<a, Ret>>
  BY <1>2, <1>3, <1>4, RunsTwo
<1> QED  BY <1>1, <1>5

LEMMA TwoCode ==
  ASSUME NEW i, NEW x, NEW y, Encoded(i) = <<x, y>>, NEW a, TakenTwo(x, y, a)
  PROVE  Runs(Assembled(i)) = <<a, Ret>>
<1> DEFINE c == <<x, y, \hC3>>
           n == 2
<1>1. Assembled(i) = c
  <2>1. Encoded(i) # <<>>
    OBVIOUS
  <2>2. Append(<<x, y>>, \hC3) = c
    BY AppendToTwo
  <2> QED  BY <2>1, <2>2, Zenon DEF Assembled
<1>2. Len(c) = n + 1 /\ c[n + 1] = \hC3 /\ n \in Nat \ {0} /\ c[1] = x /\ c[1 + 1] = y
  OBVIOUS
<1> HIDE DEF c
<1>3. Taken(c, 1, a, n)
  BY <1>2 DEF TakenTwo
<1> HIDE DEF n
<1>4. Taken(c, n + 1, Ret, 1)
  BY <1>2, TakenAsRet DEF TakenOne
<1>5. Runs(c) = <<a, Ret>>
  BY <1>2, <1>3, <1>4, RunsTwo
<1> QED  BY <1>1, <1>5

LEMMA ThreeCode ==
  ASSUME NEW i, NEW x, NEW y, NEW z, Encoded(i) = <<x, y, z>>, NEW a, TakenThree(x, y, z, a)
  PROVE  Runs(Assembled(i)) = <<a, Ret>>
<1> DEFINE c == <<x, y, z, \hC3>>
           n == 3
<1>1. Assembled(i) = c
  <2>1. Encoded(i) # <<>>
    OBVIOUS
  <2>2. Append(<<x, y, z>>, \hC3) = c
    BY AppendToThree
  <2> QED  BY <2>1, <2>2, Zenon DEF Assembled
<1>2. Len(c) = n + 1 /\ c[n + 1] = \hC3 /\ n \in Nat \ {0} /\ c[1] = x /\ c[1 + 1] = y /\ c[1 + 2] = z
  OBVIOUS
<1> HIDE DEF c
<1>3. Taken(c, 1, a, n)
  BY <1>2 DEF TakenThree
<1> HIDE DEF n
<1>4. Taken(c, n + 1, Ret, 1)
  BY <1>2, TakenAsRet DEF TakenOne
<1>5. Runs(c) = <<a, Ret>>
  BY <1>2, <1>3, <1>4, RunsTwo
<1> QED  BY <1>1, <1>5

LEMMA FourCode ==
  ASSUME NEW i, NEW x, NEW y, NEW z, NEW w, Encoded(i) = <<x, y, z, w>>, NEW a, TakenFour(x, y, z, w, a)
  PROVE  Runs(Assembled(i)) = <<a, Ret>>
<1> DEFINE c == <<x, y, z, w, \hC3>>
           n == 4
<1>1. Assembled(i) = c
  <2>1. Encoded(i) # <<>>
    OBVIOUS
  <2>2. Append(<<x, y, z, w>>, \hC3) = c
    BY AppendToFour
  <2> QED  BY <2>1, <2>2, Zenon DEF Assembled
<1>2. Len(c) = n + 1 /\ c[n + 1] = \hC3 /\ n \in Nat \ {0} /\ c[1] = x /\ c[1 + 1] = y /\ c[1 + 2] = z /\ c[1 + 3] = w
  OBVIOUS
<1> HIDE DEF c
<1>3. Taken(c, 1, a, n)
  BY <1>2 DEF TakenFour
<1> HIDE DEF n
<1>4. Taken(c, n + 1, Ret, 1)
  BY <1>2, TakenAsRet DEF TakenOne
<1>5. Runs(c) = <<a, Ret>>
  BY <1>2, <1>3, <1>4, RunsTwo
<1> QED  BY <1>1, <1>5

(* Two instructions: memory through eax, a jump, and a check behind a sum. *)
LEMMA PairCode ==
  ASSUME NEW i, NEW x, NEW y, NEW z, NEW w, Encoded(i) = <<x, y, z, w>>, NEW a, NEW b,
         TakenTwo(x, y, a), TakenTwo(z, w, b)
  PROVE  Runs(Assembled(i)) = <<a, b, Ret>>
<1> DEFINE c == <<x, y, z, w, \hC3>>
           m == 2
           n == 2
<1>1. Assembled(i) = c
  <2>1. Encoded(i) # <<>>
    OBVIOUS
  <2>2. Append(<<x, y, z, w>>, \hC3) = c
    BY AppendToFour
  <2> QED  BY <2>1, <2>2, Zenon DEF Assembled
<1>2. /\ Len(c) = m + n + 1 /\ c[m + n + 1] = \hC3 /\ m \in Nat \ {0} /\ n \in Nat \ {0}
      /\ c[1] = x /\ c[1 + 1] = y /\ c[m + 1] = z /\ c[(m + 1) + 1] = w
  OBVIOUS
<1> HIDE DEF c
<1>3. Taken(c, 1, a, m)
  BY <1>2 DEF TakenTwo
<1>4. Taken(c, m + 1, b, n)
  BY <1>2 DEF TakenTwo
<1> HIDE DEF m, n
<1>5. Taken(c, m + n + 1, Ret, 1)
  BY <1>2, TakenAsRet DEF TakenOne
<1>6. Runs(c) = <<a, b, Ret>>
  BY <1>2, <1>3, <1>4, <1>5, RunsThree
<1> QED  BY <1>1, <1>6

LEMMA ThreeOneCode ==
  ASSUME NEW i, NEW x, NEW y, NEW z, NEW w, Encoded(i) = <<x, y, z, w>>, NEW a, NEW b,
         TakenThree(x, y, z, a), TakenOne(w, b)
  PROVE  Runs(Assembled(i)) = <<a, b, Ret>>
<1> DEFINE c == <<x, y, z, w, \hC3>>
           m == 3
           n == 1
<1>1. Assembled(i) = c
  <2>1. Encoded(i) # <<>>
    OBVIOUS
  <2>2. Append(<<x, y, z, w>>, \hC3) = c
    BY AppendToFour
  <2> QED  BY <2>1, <2>2, Zenon DEF Assembled
<1>2. /\ Len(c) = m + n + 1 /\ c[m + n + 1] = \hC3 /\ m \in Nat \ {0} /\ n \in Nat \ {0}
      /\ c[1] = x /\ c[1 + 1] = y /\ c[1 + 2] = z /\ c[m + 1] = w
  OBVIOUS
<1> HIDE DEF c
<1>3. Taken(c, 1, a, m)
  BY <1>2 DEF TakenThree
<1>4. Taken(c, m + 1, b, n)
  BY <1>2 DEF TakenOne
<1> HIDE DEF m, n
<1>5. Taken(c, m + n + 1, Ret, 1)
  BY <1>2, TakenAsRet DEF TakenOne
<1>6. Runs(c) = <<a, b, Ret>>
  BY <1>2, <1>3, <1>4, <1>5, RunsThree
<1> QED  BY <1>1, <1>6

(* An instruction of one or of two operands. *)
LEMMA OneOperand ==
  ASSUME NEW op, NEW a
  PROVE  LET i == Instr(op, <<a>>) IN
         /\ i.op = op /\ i.args = <<a>> /\ i.args # <<>> /\ i.args[1] = a
         /\ Kinds(i) = <<a.kind>> /\ Kinds(i)[1] = a.kind /\ N(i, 1) = a.n
         /\ \A b, d : i.args # <<b, d>> /\ Kinds(i) # <<b, d>>
BY DEF Instr, Kinds, N

LEMMA BothOperands ==
  ASSUME NEW op, NEW a, NEW b
  PROVE  LET i == Instr(op, <<a, b>>) IN
         /\ i.op = op /\ i.args = <<a, b>> /\ i.args # <<>> /\ i.args[1] = a /\ i.args[2] = b
         /\ Kinds(i) = <<a.kind, b.kind>> /\ Kinds(i)[1] = a.kind /\ Kinds(i)[2] = b.kind
         /\ N(i, 1) = a.n /\ N(i, 2) = b.n
         /\ \A d : i.args # <<d>> /\ Kinds(i) # <<d>>
BY DEF Instr, Kinds, N

(* In an instruction without numbers nothing is misread. *)
Plain(i) == AsWritten(i) = i /\ ~\E k \in DOMAIN i.args : Misread(i, k)

LEMMA OneWritten ==
  ASSUME NEW op, NEW a
  PROVE  LET i == Instr(op, <<a>>) IN
         /\ AsWritten(i) = Instr(op, <<Stated(a)>>)
         /\ (\E k \in DOMAIN i.args : Misread(i, k)) <=> Misread(i, 1)
<1> DEFINE i == Instr(op, <<a>>)
<1>1. i.op = op /\ i.args = <<a>> /\ DOMAIN i.args = {1} /\ i.args[1] = a
  BY DEF Instr
<1>2. [k \in {1} |-> Stated(i.args[k])] = <<Stated(a)>>
  BY <1>1
<1> QED  BY <1>1, <1>2 DEF AsWritten

LEMMA BothWritten ==
  ASSUME NEW op, NEW a, NEW b
  PROVE  LET i == Instr(op, <<a, b>>) IN
         /\ AsWritten(i) = Instr(op, <<Stated(a), Stated(b)>>)
         /\ (\E k \in DOMAIN i.args : Misread(i, k)) <=> Misread(i, 1) \/ Misread(i, 2)
<1> DEFINE i == Instr(op, <<a, b>>)
<1>1. i.op = op /\ i.args = <<a, b>> /\ DOMAIN i.args = {1, 2} /\ i.args[1] = a /\ i.args[2] = b
  BY DEF Instr
<1>2. [k \in {1, 2} |-> Stated(i.args[k])] = <<Stated(a), Stated(b)>>
  BY <1>1
<1> QED  BY <1>1, <1>2 DEF AsWritten

LEMMA PlainNone ==
  ASSUME NEW op
  PROVE  Plain(Instr(op, <<>>))
<1>1. Instr(op, <<>>).op = op /\ Instr(op, <<>>).args = <<>> /\ DOMAIN <<>> = {}
  BY DEF Instr
<1>2. [k \in {} |-> Stated(<<>>[k])] = <<>>
  OBVIOUS
<1> QED  BY <1>1, <1>2 DEF Plain, AsWritten

LEMMA PlainOne ==
  ASSUME NEW op, NEW a, a.kind \notin {"imm", "mem"}
  PROVE  Plain(Instr(op, <<a>>))
<1>1. Stated(a) = a
  BY DEF Stated
<1>2. ~Misread(Instr(op, <<a>>), 1)
  BY OneOperand DEF Misread
<1> QED  BY <1>1, <1>2, OneWritten DEF Plain

LEMMA PlainBoth ==
  ASSUME NEW op, NEW a, NEW b, a.kind \notin {"imm", "mem"}, b.kind \notin {"imm", "mem"}
  PROVE  Plain(Instr(op, <<a, b>>))
<1>1. Stated(a) = a /\ Stated(b) = b
  BY DEF Stated
<1>2. ~Misread(Instr(op, <<a, b>>), 1) /\ ~Misread(Instr(op, <<a, b>>), 2)
  BY BothOperands DEF Misread
<1> QED  BY <1>1, <1>2, BothWritten DEF Plain

(* Numbers as they are typed: what they say, and what is read of them.       *)
Typed == [kind : {"imm", "mem"}, n : Nat, as : Notations]
Says(x)   == IF x.as = "neg" THEN -x.n ELSE x.n
Value(x) == IF x.as = "neg" THEN 0 ELSE x.n

LEMMA TypedFacts ==
  ASSUME NEW x \in Typed
  PROVE  /\ x.n \in Nat /\ x.kind \in {"imm", "mem"} /\ x.as \in {"dec", "hex", "neg"}
         /\ x.kind = "imm" => Stated(x) = Imm(Says(x))
         /\ x.kind = "mem" => Stated(x) = Mem(Says(x))
         /\ Says(x) \in Int /\ Value(x) \in Nat
         /\ Value(x) # Says(x) <=> x.n # 0 /\ x.as = "neg"
BY DEF Typed, Notations, Says, Value, Stated, Imm, Mem

(* One instruction that was asked for. *)
LEMMA OneAsked ==
  ASSUME NEW i, NEW x, Asks(i) = <<x>>, NEW a, Runs(Assembled(i)) = <<a, Ret>>
  PROVE  Right(i) <=> a = x
<1>1. Append(<<x>>, Ret) = <<x, Ret>>
  BY AppendToOne
<1>2. <<a, Ret>> = <<x, Ret>> <=> a = x
  OBVIOUS
<1> QED  BY <1>1, <1>2 DEF Right

LEMMA TwoAsked ==
  ASSUME NEW i, NEW x, NEW y, Asks(i) = <<x, y>>, Runs(Assembled(i)) = <<x, y, Ret>>
  PROVE  Right(i)
<1>1. Append(<<x, y>>, Ret) = <<x, y, Ret>>
  BY AppendToTwo
<1> QED  BY <1>1 DEF Right

LEMMA NothingMade ==
  ASSUME NEW i, NEW x, Asks(i) = <<x>>, Encoded(i) = <<>>
  PROVE  ~Right(i)
<1>1. Runs(Assembled(i)) = <<>>
  BY RunsNone DEF Assembled
<1>2. Append(<<x>>, Ret) = <<x, Ret>>
  BY AppendToOne
<1>3. <<>> # <<x, Ret>>
  OBVIOUS
<1> QED  BY <1>1, <1>2, <1>3 DEF Right

LEMMA SameInstr ==
  ASSUME NEW p, NEW q, NEW as, NEW bs
  PROVE  Instr(p, as) = Instr(q, bs) <=> p = q /\ as = bs
BY DEF Instr

(* The text asks for the instruction itself, unless it is one of these.      *)
LEMMA AskedItself ==
  ASSUME NEW i, Plain(i),
         \/ i.op \notin {"mov", "jmp", "addof", "lret", "int1", "lgdt", "lidt"}
         \/ i.op = "mov" /\ Kinds(i) # <<"mem", "reg">> /\ Kinds(i) # <<"reg", "mem">>
  PROVE  Asks(i) = <<i>>
BY DEF AskedFor, Asks, Plain

(* Whether the code made of i is right is what Misassembled says. *)
AsListed(i) == Right(i) <=> ~Misassembled(i)

LEMMA ListedIs ==
  ASSUME NEW i, NEW x, NEW a, Asks(i) = <<x>>, Runs(Assembled(i)) = <<a, Ret>>,
         Misassembled(i) <=> a # x
  PROVE  AsListed(i)
BY OneAsked DEF AsListed

LEMMA PairIsListed ==
  ASSUME NEW i, NEW x, NEW y, NEW a, Asks(i) = <<x, y>>, Runs(Assembled(i)) = <<a, y, Ret>>,
         Misassembled(i) <=> a # x
  PROVE  AsListed(i)
<1>1. Append(<<x, y>>, Ret) = <<x, y, Ret>>
  BY AppendToTwo
<1>2. <<a, y, Ret>> = <<x, y, Ret>> <=> a = x
  OBVIOUS
<1> QED  BY <1>1, <1>2 DEF AsListed, Right

LEMMA RightIsListed ==
  ASSUME NEW i, NEW a, Asks(i) = <<i>>, Runs(Assembled(i)) = <<a, Ret>>,
         Misassembled(i) <=> a # i
  PROVE  AsListed(i)
BY OneAsked DEF AsListed

OneByteNames == {"nop", "ret", "int3", "into", "icebp", "popf", "pushf", "retf", "iret", "lret"}

LEMMA WordsListed ==
  ASSUME NEW op \in DOMAIN Words
  PROVE  AsListed(Instr(op, <<>>))
<1> DEFINE i == Instr(op, <<>>)
<1>1. i.op = op /\ i.args = <<>> /\ Encoded(i) = Words[op]
  BY DEF Instr, Encoded
<1>0. Plain(i)
  BY PlainNone
<1>2. Misassembled(i) <=> op \in {"retf", "int1"}
  BY <1>0, <1>1 DEF Misassembled, TooLarge, Words, Plain
<1>3. op \in OneByteNames \/ op = "ud2" \/ op = "int1"
  BY DEF Words, OneByteNames
<1>4. Asks(i) = IF op = "lret" THEN <<Instr("retf", <<>>)>>
                ELSE IF op = "int1" THEN <<Instr("icebp", <<>>)>> ELSE <<i>>
  BY <1>0, <1>1, <1>3 DEF AskedFor, Asks, Plain, OneByteNames
<1>5. CASE op \in OneByteNames
  <2> DEFINE b == Words[op][1]
  <2>1. Words[op] = <<b>> /\ b \in DOMAIN OneByte
        /\ OneByte[b] = IF op = "lret" THEN "retf" ELSE IF op = "retf" THEN "ret" ELSE op
    BY <1>5, DecodedSets DEF Words, OneByteNames, OneByte
  <2> DEFINE a == Instr(OneByte[b], <<>>)
             x == IF op = "lret" THEN Instr("retf", <<>>) ELSE i
  <2>2. Asks(i) = <<x>>
    BY <1>4, <1>5 DEF OneByteNames
  <2>3. a = x <=> op # "retf"
    BY <2>1, SameInstr
  <2> HIDE DEF b, i, x
  <2>4. TakenOne(b, a)
    BY <2>1, TakenByOneByte
  <2> HIDE DEF a
  <2>5. Runs(Assembled(i)) = <<a, Ret>>
    BY <1>1, <2>1, <2>4, OneCode
  <2>6. Right(i) <=> a = x
    BY <2>2, <2>5, OneAsked
  <2>7. op # "int1"
    BY <1>5 DEF OneByteNames
  <2> QED  BY <1>2, <2>3, <2>6, <2>7 DEF AsListed, i
<1>6. CASE op = "ud2"
  <2>1. Encoded(i) = <<\h0F, \h0B>>
    BY <1>1, <1>6 DEF Words
  <2>2. TakenTwo(\h0F, \h0B, i)
    <3>1. 0 \in 0 .. 7
      OBVIOUS
    <3> QED  BY <1>6, <3>1, TakenByMore
  <2>3. Asks(i) = <<i>>
    BY <1>4, <1>6
  <2> HIDE DEF i
  <2>4. Runs(Assembled(i)) = <<i, Ret>>
    BY <2>1, <2>2, TwoCode
  <2>5. AsListed(i)
    BY <1>2, <1>6, <2>3, <2>4, RightIsListed
  <2> QED  BY <2>5 DEF i
<1>7. CASE op = "int1"
  <2> DEFINE a == Instr("int", <<Imm(1)>>)
             x == Instr("icebp", <<>>)
  <2>1. Encoded(i) = <<\hCD, 1>>
    BY <1>1, <1>7 DEF Words
  <2>2. TakenTwo(\hCD, 1, a)
    BY TakenByNumber
  <2>3. Asks(i) = <<x>>
    BY <1>4, <1>7
  <2>4. a # x
    BY DEF Instr
  <2> HIDE DEF i, a, x
  <2>5. Runs(Assembled(i)) = <<a, Ret>>
    BY <2>1, <2>2, TwoCode
  <2>6. ~Right(i)
    BY <2>3, <2>4, <2>5, OneAsked
  <2> QED  BY <1>2, <1>7, <2>6 DEF AsListed, i
<1> QED  BY <1>3, <1>5, <1>6, <1>7

LEMMA OnRegListed ==
  ASSUME NEW op \in {"push", "pop", "inc", "dec", "div", "idiv"}, NEW r \in 0 .. 7
  PROVE  AsListed(Instr(op, <<Reg(r)>>))
<1> DEFINE i == Instr(op, <<Reg(r)>>)
<1>0. Reg(r).kind = "reg" /\ Reg(r).n = r /\ Plain(i)
  BY PlainOne DEF Reg
<1>1. i.op = op /\ i.args # <<>> /\ Kinds(i) = <<"reg">> /\ N(i, 1) = r
  BY <1>0, OneOperand
<1>2. Asks(i) = <<i>>
  BY <1>0, <1>1, AskedItself
<1>3. ~Misassembled(i)
  BY <1>0, <1>1 DEF Misassembled, TooLarge, Plain
<1>4. Encoded(i) = OnReg[op][1] \o <<OnReg[op][2] + r>>
  <2>1. OneReg(i) = OnReg[op][1] \o <<OnReg[op][2] + r>>
    BY <1>1 DEF OneReg
  <2>2. op \in DOMAIN OnReg
    BY DEF OnReg
  <2> QED  BY <1>1, <2>1, <2>2 DEF Encoded
<1>5. CASE op \in {"push", "pop", "inc", "dec"}
  <2> DEFINE q == OnReg[op][2]
             b == q + r
  <2>1. q \in {64, 72, 80, 88} /\ Rows[q] = op /\ OnReg[op][1] = <<>>
    BY <1>5 DEF Rows, OnReg
  <2> HIDE DEF q
  <2>2. TakenOne(b, i)
    BY <2>1, TakenByRow
  <2> HIDE DEF i, b
  <2>3. <<>> \o <<b>> = <<b>>
    OBVIOUS
  <2>4. Encoded(i) = <<b>>
    BY <1>4, <2>1, <2>3, Zenon DEF b, q
  <2>5. Runs(Assembled(i)) = <<i, Ret>>
    BY <2>2, <2>4, OneCode
  <2>6. AsListed(i)
    BY <1>2, <1>3, <2>5, RightIsListed
  <2> QED  BY <2>6 DEF i
<1>6. CASE op \in {"div", "idiv"}
  <2> DEFINE q == IF op = "div" THEN 6 ELSE 7
             b == ModRM(q, r)
  <2>1. OnReg[op][1] = <<\hF7>> /\ OnReg[op][2] + r = b /\ q \in 0 .. 7
        /\ op = IF q = 6 THEN "div" ELSE "idiv"
    BY <1>6 DEF OnReg, ModRM
  <2> HIDE DEF q
  <2>2. TakenTwo(\hF7, b, i)
    BY <2>1, TakenByModRM
  <2>3. <<\hF7>> \o <<b>> = <<\hF7, b>>
    BY JoinedToOne
  <2> HIDE DEF i, b
  <2>4. Encoded(i) = <<\hF7, b>>
    BY <1>4, <2>1, <2>3, Zenon
  <2>5. Runs(Assembled(i)) = <<i, Ret>>
    BY <2>2, <2>4, TwoCode
  <2>6. AsListed(i)
    BY <1>2, <1>3, <2>5, RightIsListed
  <2> QED  BY <2>6 DEF i
<1> QED  BY <1>5, <1>6

LEMMA KindFacts ==
  ASSUME NEW v
  PROVE  /\ Reg(v).kind = "reg" /\ Reg(v).n = v /\ Xmm(v).kind = "xmm" /\ Xmm(v).n = v
         /\ Seg(v).kind = "seg" /\ Seg(v).n = v /\ Cr(v).kind = "cr" /\ Cr(v).n = v
         /\ Dr(v).kind = "dr" /\ Dr(v).n = v /\ Imm(v).kind = "imm" /\ Imm(v).n = v
         /\ Mem(v).kind = "mem" /\ Mem(v).n = v /\ Ax.kind = "ax" /\ Ax.n = 0
BY DEF Reg, Xmm, Seg, Cr, Dr, Imm, Mem, Ax

(* An instruction of one number. *)
LEMMA NumberFacts ==
  ASSUME NEW op, NEW x \in Typed
  PROVE  LET i == Instr(op, <<x>>) IN
         /\ i.op = op /\ i.args # <<>> /\ Kinds(i) = <<x.kind>> /\ i.args[1] = x
         /\ Kinds(i)[1] = x.kind /\ N(i, 1) = x.n /\ Number(i, 1) = Value(x)
         /\ Dec(i, 1) = IF x.as = "dec" THEN x.n ELSE 0
         /\ AsWritten(i) = Instr(op, <<Stated(x)>>)
         /\ (\E k \in DOMAIN i.args : Misread(i, k))
              <=> x.n # 0 /\ (x.as = "neg" \/ (x.as = "hex" /\ op \in {"jmp", "je", "jne"}))
<1> DEFINE i == Instr(op, <<x>>)
<1>1. i.op = op /\ i.args # <<>> /\ Kinds(i) = <<x.kind>> /\ i.args[1] = x /\ N(i, 1) = x.n
      /\ Kinds(i)[1] = x.kind
  BY DEF Instr, Kinds, N
<1>2. AsWritten(i) = Instr(op, <<Stated(x)>>) /\ ((\E k \in DOMAIN i.args : Misread(i, k)) <=> Misread(i, 1))
  BY OneWritten
<1> HIDE DEF i
<1>3. x.kind \in {"imm", "mem"}
  BY TypedFacts
<1>4. Misread(i, 1) <=> x.n # 0 /\ (x.as = "neg" \/ (x.as = "hex" /\ op \in {"jmp", "je", "jne"}))
  BY <1>1, <1>3 DEF Misread
<1>5. Number(i, 1) = Value(x) /\ Dec(i, 1) = IF x.as = "dec" THEN x.n ELSE 0
  BY <1>1 DEF Number, Dec, Value
<1> QED  BY <1>1, <1>2, <1>4, <1>5 DEF i

LEMMA NumberListed ==
  ASSUME NEW x \in Typed, x.kind = "imm"
  PROVE  /\ AsListed(Instr("push", <<x>>)) /\ AsListed(Instr("ret", <<x>>))
         /\ AsListed(Instr("retf", <<x>>)) /\ AsListed(Instr("jmp", <<x>>))
         /\ AsListed(Instr("int", <<x>>)) /\ AsListed(Instr("je", <<x>>))
         /\ AsListed(Instr("jne", <<x>>))
<1> DEFINE s == Says(x)
<1>0. /\ x.n \in Nat /\ x.as \in {"dec", "hex", "neg"} /\ Stated(x) = Imm(s) /\ s \in Int
      /\ Value(x) \in Nat
  BY TypedFacts
<1>1. ASSUME NEW op
      PROVE  LET i == Instr(op, <<x>>) IN
        /\ i.op = op /\ i.args # <<>> /\ Kinds(i) = <<"imm">> /\ N(i, 1) = x.n /\ i.args[1] = x
        /\ Number(i, 1) = Value(x) /\ Dec(i, 1) = IF x.as = "dec" THEN x.n ELSE 0
        /\ AsWritten(i) = Instr(op, <<Imm(s)>>)
        /\ (\E k \in DOMAIN i.args : Misread(i, k))
             <=> x.n # 0 /\ (x.as = "neg" \/ (x.as = "hex" /\ op \in {"jmp", "je", "jne"}))
  <2> HIDE DEF s
  <2>1. <<x.kind>> = <<"imm">> /\ Stated(x) = Imm(s)
    BY <1>0
  <2> DEFINE i == Instr(op, <<x>>)
             bad == \E k \in DOMAIN i.args : Misread(i, k)
  <2>2. /\ i.op = op /\ i.args # <<>> /\ Kinds(i) = <<x.kind>> /\ N(i, 1) = x.n /\ i.args[1] = x
        /\ Number(i, 1) = Value(x) /\ Dec(i, 1) = IF x.as = "dec" THEN x.n ELSE 0
        /\ AsWritten(i) = Instr(op, <<Stated(x)>>)
    BY NumberFacts
  <2>3. bad <=> x.n # 0 /\ (x.as = "neg" \/ (x.as = "hex" /\ op \in {"jmp", "je", "jne"}))
    BY NumberFacts
  <2> HIDE DEF i
  <2> QED  BY <2>1, <2>2, <2>3, Zenon DEF i
<1>2. ASSUME NEW op \in {"push", "ret", "retf", "int", "je", "jne"}
      PROVE  Asks(Instr(op, <<x>>)) = <<Instr(op, <<Imm(s)>>)>>
  <2>1. Instr(op, <<Imm(s)>>).op = op
    BY DEF Instr
  <2> QED  BY <1>1, <2>1 DEF Asks, AskedFor
<1> HIDE DEF s
<1>3. AsListed(Instr("push", <<x>>))
  <2> DEFINE i == Instr("push", <<x>>)
  <2>1. Misassembled(i)
    BY <1>1 DEF Misassembled
  <2>2. OneReg(i) = <<>>
    BY <1>1 DEF OneReg
  <2>3. Encoded(i) = <<>>
    BY <1>1, <2>2 DEF Encoded, OnReg
  <2> DEFINE u == Instr("push", <<Imm(s)>>)
  <2>4. Asks(i) = <<u>>
    BY <1>2
  <2> HIDE DEF i, u
  <2>5. AsListed(i)
    BY <2>1, <2>3, <2>4, NothingMade DEF AsListed
  <2> QED  BY <2>5 DEF i
<1>4. ASSUME NEW op \in {"ret", "retf"}  PROVE AsListed(Instr(op, <<x>>))
  <2> DEFINE i == Instr(op, <<x>>)
             u == Instr(op, <<Imm(s)>>)
  <2>0. i.op = op /\ i.args # <<>>
    BY <1>1
  <2>1. Asks(i) = <<u>> /\ Misassembled(i)
    BY <1>2, <2>0 DEF Misassembled
  <2>2. Encoded(i) = <<\hC3>>
    BY <2>0 DEF Encoded, OnReg
  <2>3. Ret # u
    BY DEF Ret, Instr
  <2> HIDE DEF i, u
  <2>4. Runs(Assembled(i)) = <<Ret, Ret>>
    BY <2>2, TakenAsRet, OneCode
  <2>5. AsListed(i)
    BY <2>1, <2>3, <2>4, ListedIs
  <2> QED  BY <2>5 DEF i
<1>5. AsListed(Instr("jmp", <<x>>))
  <2> DEFINE i == Instr("jmp", <<x>>)
             v == IF x.as = "dec" THEN x.n ELSE 0
             a == Instr("mov", <<EAX, Imm(v)>>)
             y == Instr("mov", <<EAX, Imm(s)>>)
             b == Instr("jmp", <<EAX>>)
             w == <<v>>
  <2>0. i.op = "jmp" /\ i.args # <<>> /\ Dec(i, 1) = v /\ AsWritten(i) = Instr("jmp", <<Imm(s)>>)
    BY <1>1
  <2>1. Asks(i) = <<y, b>>
    <3>1. Instr("jmp", <<Imm(s)>>).op = "jmp" /\ Instr("jmp", <<Imm(s)>>).args[1] = Imm(s)
      BY DEF Instr
    <3> QED  BY <2>0, <3>1 DEF Asks, AskedFor
  <2>2. Encoded(i) = <<\hB8, w, \hFF, \hE0>>
    BY <2>0 DEF Encoded, Jump, OnReg
  <2>3. TakenTwo(\hB8, w, a)
    BY TakenAsMovEax
  <2>4. TakenTwo(\hFF, \hE0, b)
    BY TakenAsJump
  <2>5. a # y <=> v # s
    BY KindFacts, SameInstr
  <2>6. v # s <=> x.n # 0 /\ x.as \in {"neg", "hex"}
    BY <1>0 DEF s, Says
  <2>7. Misassembled(i) <=> x.n # 0 /\ x.as \in {"neg", "hex"}
    BY <1>1, <2>0 DEF Misassembled, TooLarge
  <2> HIDE DEF i, a, b, y, v, w
  <2>8. Runs(Assembled(i)) = <<a, b, Ret>>
    BY <2>2, <2>3, <2>4, PairCode
  <2>9. AsListed(i)
    BY <2>1, <2>5, <2>6, <2>7, <2>8, PairIsListed
  <2> QED  BY <2>9 DEF i
<1>6. AsListed(Instr("int", <<x>>))
  <2> DEFINE i == Instr("int", <<x>>)
             v == Value(x) % 256
             a == Instr("int", <<Imm(v)>>)
             u == Instr("int", <<Imm(s)>>)
  <2>0. i.op = "int" /\ i.args # <<>> /\ N(i, 1) = x.n /\ Number(i, 1) = Value(x)
    BY <1>1
  <2>1. Asks(i) = <<u>>
    BY <1>2
  <2>2. Encoded(i) = <<\hCD, v>>
    BY <2>0 DEF Encoded, OnReg
  <2>3. TakenTwo(\hCD, v, a)
    BY TakenByNumber
  <2>4. a # u <=> v # s
    BY KindFacts, SameInstr
  <2>5. v # s <=> (x.n # 0 /\ x.as = "neg") \/ x.n > 255
    BY <1>0 DEF s, Says, Value
  <2>6. Misassembled(i) <=> (x.n # 0 /\ x.as = "neg") \/ x.n > 255
    BY <1>1, <2>0 DEF Misassembled, TooLarge
  <2> HIDE DEF i, a, u, v
  <2>7. Runs(Assembled(i)) = <<a, Ret>>
    BY <2>2, <2>3, TwoCode
  <2>8. AsListed(i)
    BY <2>1, <2>4, <2>5, <2>6, <2>7, ListedIs
  <2> QED  BY <2>8 DEF i
<1>7. ASSUME NEW op \in {"je", "jne"}  PROVE AsListed(Instr(op, <<x>>))
  <2> DEFINE i == Instr(op, <<x>>)
             d == IF x.as = "dec" THEN x.n ELSE 0
             v == d % 256
             b == IF op = "je" THEN \h74 ELSE \h75
             a == Instr(op, <<Imm(Signed(v))>>)
             u == Instr(op, <<Imm(s)>>)
  <2>0. i.op = op /\ i.args # <<>> /\ N(i, 1) = x.n /\ Dec(i, 1) = d
    BY <1>1
  <2>1. Asks(i) = <<u>>
    BY <1>2
  <2>2. Encoded(i) = <<b, v>>
    <3>1. Branch(i) = <<b, v>>
      BY <2>0 DEF Branch
    <3> QED  BY <2>0, <3>1 DEF Encoded, OnReg
  <2>3. TakenTwo(b, v, a)
    <3> HIDE DEF v
    <3>1. CASE op = "je"
      <4>1. TakenTwo(\h74, v, Instr("je", <<Imm(Signed(v))>>))
        BY TakenByNumber
      <4> QED  BY <3>1, <4>1
    <3>2. CASE op = "jne"
      <4>1. TakenTwo(\h75, v, Instr("jne", <<Imm(Signed(v))>>))
        BY TakenByNumber
      <4> QED  BY <3>2, <4>1
    <3> QED  BY <3>1, <3>2
  <2>4. a # u <=> Signed(v) # s
    BY KindFacts, SameInstr
  <2>5. Signed(v) # s <=> (x.n # 0 /\ x.as \in {"neg", "hex"}) \/ x.n > 127
    <3>1. CASE x.as = "dec"
      <4>1. s = x.n /\ d = x.n /\ v = x.n % 256
        BY <3>1 DEF s, Says
      <4>2. x.n <= 127 => x.n % 256 = x.n
        BY <1>0
      <4>3. x.n % 256 \in 0 .. 255 /\ x.n % 256 <= x.n
        BY <1>0
      <4> HIDE DEF v, d
      <4> QED  BY <1>0, <3>1, <4>1, <4>2, <4>3 DEF Signed
    <3>2. CASE x.as \in {"neg", "hex"}
      <4>1. v = 0 /\ (s = 0 <=> x.n = 0)
        BY <1>0, <3>2 DEF s, Says
      <4> QED  BY <1>0, <3>2, <4>1 DEF Signed
    <3> QED  BY <1>0, <3>1, <3>2
  <2>6. Misassembled(i) <=> (x.n # 0 /\ x.as \in {"neg", "hex"}) \/ x.n > 127
    BY <1>1, <2>0 DEF Misassembled, TooLarge
  <2> HIDE DEF i, a, u, v, b
  <2>7. Runs(Assembled(i)) = <<a, Ret>>
    BY <2>2, <2>3, TwoCode
  <2>8. AsListed(i)
    BY <2>1, <2>4, <2>5, <2>6, <2>7, ListedIs
  <2> QED  BY <2>8 DEF i
<1> QED  BY <1>3, <1>4, <1>5, <1>6, <1>7

(* Tables: the number in brackets is not read. *)
LEMMA TableListed ==
  ASSUME NEW op \in {"lgdt", "lidt"}, NEW x \in Typed
  PROVE  AsListed(Instr(op, <<x>>))
<1> DEFINE i == Instr(op, <<x>>)
           s == Says(x)
           u == IF x.kind = "mem" THEN 0 ELSE Value(x)
           q == IF op = "lgdt" THEN 2 ELSE 3
           b == 8 * q + 5
           w == <<u>>
           a == Instr(op, <<Mem(u)>>)
           y == Instr(op, <<Mem(s)>>)
<1>0. /\ x.n \in Nat /\ x.kind \in {"imm", "mem"} /\ x.as \in {"dec", "hex", "neg"}
      /\ Stated(x) \in {Imm(s), Mem(s)}
  BY TypedFacts
<1>1. /\ i.op = op /\ i.args # <<>> /\ i.args[1] = x /\ N(i, 1) = x.n /\ Kinds(i)[1] = x.kind
      /\ Kinds(i) = <<x.kind>> /\ Number(i, 1) = Value(x)
      /\ AsWritten(i) = Instr(op, <<Stated(x)>>)
      /\ (\E k \in DOMAIN i.args : Misread(i, k)) <=> x.n # 0 /\ x.as = "neg"
  BY NumberFacts
<1>2. Asks(i) = <<y>>
  <2> DEFINE t == Instr(op, <<Stated(x)>>)
  <2>1. t.op = op /\ N(t, 1) = s
    BY <1>0, OneOperand, KindFacts
  <2> HIDE DEF t
  <2>2. AskedFor(t) = <<y>>
    BY <2>1 DEF AskedFor
  <2> QED  BY <1>1, <2>2 DEF Asks, t
<1>3. Misassembled(i) <=> x.n # 0 /\ (x.as = "neg" \/ x.kind = "mem")
  BY <1>1 DEF Misassembled, TooLarge
<1>4. LoadTable(i) = <<\h0F, 1, b, w>>
  BY <1>1 DEF LoadTable
<1>5. Encoded(i) = <<\h0F, 1, b, w>>
  BY <1>1, <1>4 DEF Encoded, OnReg
<1>6. q \in 0 .. 7 /\ op = IF q = 2 THEN "lgdt" ELSE "lidt"
  OBVIOUS
<1>7. a # y <=> u # s
  BY KindFacts, SameInstr
<1>8. u # s <=> x.n # 0 /\ (x.as = "neg" \/ x.kind = "mem")
  BY <1>0 DEF Says, Value
<1> HIDE DEF q
<1>9. TakenFour(\h0F, 1, b, w, a)
  BY <1>6, TakenByMore
<1> HIDE DEF i, a, y, b, u, w
<1>10. Runs(Assembled(i)) = <<a, Ret>>
  BY <1>5, <1>9, FourCode
<1>11. AsListed(i)
  BY <1>2, <1>3, <1>7, <1>8, <1>10, ListedIs
<1> QED  BY <1>11 DEF i

(* An instruction of a register and a number. *)
LEMMA SecondFacts ==
  ASSUME NEW op, NEW r, NEW x \in Typed
  PROVE  LET i == Instr(op, <<Reg(r), x>>) IN
         /\ i.op = op /\ i.args # <<>> /\ N(i, 1) = r /\ N(i, 2) = x.n /\ Number(i, 2) = Value(x)
         /\ Kinds(i) = <<"reg", x.kind>> /\ Kinds(i)[1] = "reg" /\ Kinds(i)[2] = x.kind
         /\ AsWritten(i) = Instr(op, <<Reg(r), Stated(x)>>)
         /\ op \notin {"jmp", "je", "jne"} =>
              ((\E k \in DOMAIN i.args : Misread(i, k)) <=> x.n # 0 /\ x.as = "neg")
<1> DEFINE i == Instr(op, <<Reg(r), x>>)
<1>1. /\ i.op = op /\ i.args # <<>> /\ N(i, 1) = r /\ N(i, 2) = x.n
      /\ i.args[1] = Reg(r) /\ i.args[2] = x
      /\ Kinds(i) = <<"reg", x.kind>> /\ Kinds(i)[1] = "reg" /\ Kinds(i)[2] = x.kind
  BY KindFacts, BothOperands
<1>2. /\ AsWritten(i) = Instr(op, <<Stated(Reg(r)), Stated(x)>>)
      /\ (\E k \in DOMAIN i.args : Misread(i, k)) <=> Misread(i, 1) \/ Misread(i, 2)
  BY BothWritten
<1>3. Stated(Reg(r)) = Reg(r)
  BY KindFacts DEF Stated
<1> HIDE DEF i
<1>4. ~Misread(i, 1)
  BY <1>1, KindFacts DEF Misread
<1>5. x.kind \in {"imm", "mem"}
  BY TypedFacts
<1>6. op \notin {"jmp", "je", "jne"} => (Misread(i, 2) <=> x.n # 0 /\ x.as = "neg")
  BY <1>1, <1>5 DEF Misread
<1>7. Number(i, 2) = Value(x)
  BY <1>1 DEF Number, Value
<1> QED  BY <1>1, <1>2, <1>3, <1>4, <1>6, <1>7 DEF i

(* A number into a register, or added to it, or taken from it. *)
LEMMA RegImmListed ==
  ASSUME NEW op \in {"mov", "add", "sub", "cmp"}, NEW r \in 0 .. 7, NEW x \in Typed, x.kind = "imm"
  PROVE  AsListed(Instr(op, <<Reg(r), x>>))
<1> DEFINE i == Instr(op, <<Reg(r), x>>)
           s == Says(x)
           v == Value(x)
           a == Instr(op, <<Reg(r), Imm(v)>>)
           u == Instr(op, <<Reg(r), Imm(s)>>)
           w == <<v>>
<1>0. Stated(x) = Imm(s) /\ (v # s <=> x.n # 0 /\ x.as = "neg")
  BY TypedFacts
<1>1. /\ i.op = op /\ i.args # <<>> /\ N(i, 1) = r /\ N(i, 2) = x.n /\ Number(i, 2) = v
      /\ Kinds(i) = <<"reg", "imm">> /\ Kinds(i)[1] = "reg" /\ Kinds(i)[2] = "imm"
      /\ AsWritten(i) = u
      /\ (\E k \in DOMAIN i.args : Misread(i, k)) <=> x.n # 0 /\ x.as = "neg"
  <2> HIDE DEF s, v
  <2>1. op \notin {"jmp", "je", "jne"}
    OBVIOUS
  <2> QED  BY <1>0, <2>1, SecondFacts DEF v
<1>2. Asks(i) = <<u>>
  <2>1. u.op = op /\ Kinds(u) = <<"reg", "imm">>
    BY KindFacts, BothOperands
  <2> HIDE DEF u
  <2> QED  BY <1>1, <2>1 DEF Asks, AskedFor
<1>3. Misassembled(i) <=> op = "cmp" \/ v # s
  BY <1>0, <1>1 DEF Misassembled, TooLarge
<1>a. a # u <=> v # s
  <2>1. Imm(v) = Imm(s) <=> v = s
    BY DEF Imm
  <2> QED  BY <2>1, SameInstr
<1> HIDE DEF s, v
<1>4. CASE op = "mov"
  <2> DEFINE b == \hB8 + r
  <2>1. Mov(i) = <<b, w>>
    BY <1>1 DEF Mov
  <2>2. Encoded(i) = <<b, w>>
    BY <1>1, <1>4, <2>1 DEF Encoded, OnReg
  <2>3. TakenTwo(b, w, a)
    BY <1>4, TakenAsMov
  <2> HIDE DEF i, a, u, b, w
  <2>4. Runs(Assembled(i)) = <<a, Ret>>
    BY <2>2, <2>3, TwoCode
  <2>5. AsListed(i)
    BY <1>2, <1>3, <1>4, <1>a, <2>4, ListedIs
  <2> QED  BY <2>5 DEF i
<1>5. CASE op \in {"add", "sub"}
  <2> DEFINE q == IF op = "add" THEN 0 ELSE 5
             b == ModRM(q, r)
  <2>1. Arithmetic(i) = <<\h81, b, w>>
    BY <1>1, <1>5 DEF Arithmetic
  <2>2. Encoded(i) = <<\h81, b, w>>
    BY <1>1, <1>5, <2>1 DEF Encoded, OnReg
  <2>3. q \in 0 .. 7 /\ op = IF q = 0 THEN "add" ELSE "sub"
    BY <1>5
  <2> HIDE DEF q
  <2>4. TakenThree(\h81, b, w, a)
    BY <2>3, TakenByModRM
  <2> HIDE DEF i, a, u, b, w
  <2>5. Runs(Assembled(i)) = <<a, Ret>>
    BY <2>2, <2>4, ThreeCode
  <2>6. AsListed(i)
    BY <1>2, <1>3, <1>5, <1>a, <2>5, ListedIs
  <2> QED  BY <2>6 DEF i
<1>6. CASE op = "cmp"
  <2>1. Arithmetic(i) = <<>>
    BY <1>1, <1>6 DEF Arithmetic
  <2>2. Encoded(i) = <<>>
    BY <1>1, <1>6, <2>1 DEF Encoded, OnReg
  <2> HIDE DEF i, u
  <2>3. AsListed(i)
    BY <1>2, <1>3, <1>6, <2>2, NothingMade DEF AsListed
  <2> QED  BY <2>3 DEF i
<1> QED  BY <1>4, <1>5, <1>6

LEMMA RegRegListed ==
  ASSUME NEW op \in {"mov", "add", "sub", "cmp"}, NEW r \in 0 .. 7, NEW q \in 0 .. 7
  PROVE  AsListed(Instr(op, <<Reg(r), Reg(q)>>))
<1> DEFINE i == Instr(op, <<Reg(r), Reg(q)>>)
           b == OnTwoRegs[op][1]
           m == ModRM(q, r)
<1>0. Plain(i)
  BY KindFacts, PlainBoth
<1>1. /\ i.op = op /\ i.args # <<>> /\ N(i, 1) = r /\ N(i, 2) = q
      /\ Kinds(i) = <<"reg", "reg">> /\ Kinds(i)[1] = "reg" /\ Kinds(i)[2] = "reg"
  BY KindFacts, BothOperands
<1>2. Asks(i) = <<i>>
  BY <1>0, <1>1, AskedItself
<1>3. ~Misassembled(i)
  BY <1>0, <1>1 DEF Misassembled, TooLarge, Plain
<1>4. OnTwoRegs[op] = <<b>> /\ b \in DOMAIN TwoOperands /\ TwoOperands[b] = op
  BY DecodedSets DEF OnTwoRegs, TwoOperands
<1> HIDE DEF b
<1>5. TakenTwo(b, m, i)
  BY <1>4, TakenByTwoOperands
<1>6. TwoRegs(i) = <<b, m>>
  <2>1. TwoRegs(i) = <<b>> \o <<m>>
    BY <1>1, <1>4 DEF TwoRegs
  <2> HIDE DEF i, m
  <2> QED  BY <2>1, JoinedToOne
<1>7. Encoded(i) = TwoRegs(i)
  <2>1. op = "mov" => Mov(i) = TwoRegs(i)
    BY <1>1 DEF Mov
  <2>2. op # "mov" => Arithmetic(i) = TwoRegs(i)
    BY <1>1 DEF Arithmetic
  <2> HIDE DEF i
  <2> QED  BY <1>1, <2>1, <2>2 DEF Encoded, OnReg
<1> HIDE DEF i, m
<1>8. Runs(Assembled(i)) = <<i, Ret>>
  BY <1>5, <1>6, <1>7, TwoCode
<1>9. AsListed(i)
  BY <1>2, <1>3, <1>8, RightIsListed
<1> QED  BY <1>9 DEF i

LEMMA AddofListed ==
  ASSUME NEW r \in 0 .. 7, NEW x \in Typed, x.kind = "imm"
  PROVE  AsListed(Instr("addof", <<Reg(r), x>>))
<1> DEFINE i == Instr("addof", <<Reg(r), x>>)
           s == Says(x)
           v == Value(x)
           a == Instr("add", <<Reg(r), Imm(v)>>)
           y == Instr("add", <<Reg(r), Imm(s)>>)
           d == Instr("into", <<>>)
           m == ModRM(0, r)
           w == <<v>>
<1>0. Stated(x) = Imm(s) /\ (v # s <=> x.n # 0 /\ x.as = "neg")
  BY TypedFacts
<1>1. /\ i.op = "addof" /\ i.args # <<>> /\ N(i, 1) = r /\ Number(i, 2) = v
      /\ Kinds(i) = <<"reg", "imm">>
      /\ AsWritten(i) = Instr("addof", <<Reg(r), Imm(s)>>)
      /\ (\E k \in DOMAIN i.args : Misread(i, k)) <=> x.n # 0 /\ x.as = "neg"
  BY <1>0, SecondFacts
<1>2. Asks(i) = <<y, d>>
  <2> DEFINE t == Instr("addof", <<Reg(r), Imm(s)>>)
  <2>1. t.op = "addof" /\ t.args = <<Reg(r), Imm(s)>>
    BY BothOperands
  <2> HIDE DEF t
  <2>2. AskedFor(t) = <<y, d>>
    BY <2>1 DEF AskedFor
  <2> QED  BY <1>1, <2>2 DEF Asks, t
<1>3. Misassembled(i) <=> v # s
  BY <1>0, <1>1 DEF Misassembled, TooLarge
<1>4. Encoded(i) = <<\h81, m, w, \hCE>>
  <2>1. AddOverflow(i) = <<\h81, m, w, \hCE>>
    BY <1>1 DEF AddOverflow
  <2> QED  BY <1>1, <2>1 DEF Encoded, OnReg
<1>5. TakenThree(\h81, m, w, a)
  <2>1. PICK q \in 0 .. 7 : q = 0
    OBVIOUS
  <2> HIDE DEF v
  <2>2. TakenThree(\h81, ModRM(q, r), w, Instr(IF q = 0 THEN "add" ELSE "sub", <<Reg(r), Imm(v)>>))
    BY TakenByModRM
  <2> QED  BY <2>1, <2>2
<1>6. TakenOne(\hCE, d)
  <2>1. \hCE \in DOMAIN OneByte /\ OneByte[\hCE] = "into"
    BY DecodedSets DEF OneByte
  <2> QED  BY <2>1, TakenByOneByte
<1>7. a # y <=> v # s
  <2>1. Imm(v) = Imm(s) <=> v = s
    BY DEF Imm
  <2> QED  BY <2>1, SameInstr
<1> HIDE DEF i, a, y, d, m, w, v, s
<1>8. Runs(Assembled(i)) = <<a, d, Ret>>
  BY <1>4, <1>5, <1>6, ThreeOneCode
<1>9. AsListed(i)
  BY <1>2, <1>3, <1>7, <1>8, PairIsListed
<1> QED  BY <1>9 DEF i

(* Memory through eax: what is in eax is lost before it is stored. *)
LEMMA StoreListed ==
  ASSUME NEW x \in Typed, x.kind = "mem", NEW r \in 0 .. 7
  PROVE  AsListed(Instr("mov", <<x, Reg(r)>>))
<1> DEFINE i == Instr("mov", <<x, Reg(r)>>)
           s == Says(x)
           v == Value(x)
           u == Instr("mov", <<Mem(s), Reg(r)>>)
           a == Instr("mov", <<EAX, Imm(v)>>)
           y == Instr("mov", <<EAX, Imm(s)>>)
           d == Instr("mov", <<AtEax, Reg(r)>>)
           w == <<v>>
           m == 8 * r
<1>0. Stated(x) = Mem(s) /\ (v # s <=> x.n # 0 /\ x.as = "neg")
  BY TypedFacts
<1>1. /\ i.op = "mov" /\ i.args # <<>> /\ N(i, 1) = x.n /\ N(i, 2) = r
      /\ i.args[1] = x /\ i.args[2] = Reg(r)
      /\ Kinds(i) = <<"mem", "reg">> /\ Kinds(i)[1] = "mem" /\ Kinds(i)[2] = "reg"
  BY KindFacts, BothOperands
<1>2. Number(i, 1) = v
  BY <1>1 DEF Number, Value
<1>3. AsWritten(i) = u /\ ((\E k \in DOMAIN i.args : Misread(i, k)) <=> x.n # 0 /\ x.as = "neg")
  <2>1. Stated(Reg(r)) = Reg(r)
    BY KindFacts DEF Stated
  <2>2. /\ AsWritten(i) = Instr("mov", <<Stated(x), Stated(Reg(r))>>)
        /\ (\E k \in DOMAIN i.args : Misread(i, k)) <=> Misread(i, 1) \/ Misread(i, 2)
    BY BothWritten
  <2> HIDE DEF i
  <2>3. (Misread(i, 1) <=> x.n # 0 /\ x.as = "neg") /\ ~Misread(i, 2)
    BY <1>1, KindFacts DEF Misread
  <2> QED  BY <1>0, <2>1, <2>2, <2>3
<1>4. Misassembled(i) <=> r = 0 \/ v # s
  BY <1>0, <1>1, <1>3 DEF Misassembled, TooLarge
<1>5. Encoded(i) = <<\hB8, w, \h89, m>>
  <2>1. Mov(i) = <<\hB8, w, \h89, m>>
    BY <1>1, <1>2 DEF Mov, ThroughEax
  <2> QED  BY <1>1, <2>1 DEF Encoded, OnReg
<1>6. TakenTwo(\hB8, w, a)
  BY TakenAsMovEax
<1>7. TakenTwo(\h89, m, d)
  <2>1. \h89 \in DOMAIN TwoOperands /\ TwoOperands[\h89] = "mov"
    BY DecodedSets DEF TwoOperands
  <2> QED  BY <2>1, TakenByTwoOperands
<1>8. Asks(i) = IF r = 0 THEN <<u>> ELSE <<y, d>>
  <2>1. /\ u.op = "mov" /\ N(u, 1) = s /\ u.args[2] = Reg(r) /\ Kinds(u) = <<"mem", "reg">>
    BY KindFacts, BothOperands
  <2>2. Reg(r) # EAX <=> r # 0
    BY KindFacts DEF EAX
  <2> HIDE DEF u
  <2>3. AskedFor(u) = IF r = 0 THEN <<u>> ELSE <<y, d>>
    BY <2>1, <2>2 DEF AskedFor
  <2> QED  BY <1>3, <2>3 DEF Asks
<1>9. a # u
  <2>1. Mem(s) # EAX
    BY KindFacts DEF EAX
  <2> QED  BY <2>1, SameInstr
<1>10. a # y <=> v # s
  <2>1. Imm(v) = Imm(s) <=> v = s
    BY DEF Imm
  <2> QED  BY <2>1, SameInstr
<1> HIDE DEF i, a, y, u, d, w, m, v, s
<1>11. Runs(Assembled(i)) = <<a, d, Ret>>
  BY <1>5, <1>6, <1>7, PairCode
<1>12. CASE r # 0
  <2>1. AsListed(i)
    BY <1>4, <1>8, <1>10, <1>11, <1>12, PairIsListed
  <2> QED  BY <2>1 DEF i
<1>13. CASE r = 0
  <2>1. Append(<<u>>, Ret) = <<u, Ret>>
    BY AppendToOne
  <2>2. <<a, d, Ret>> # <<u, Ret>>
    BY <1>9
  <2>3. AsListed(i)
    BY <1>4, <1>8, <1>11, <1>13, <2>1, <2>2 DEF Right, AsListed
  <2> QED  BY <2>3 DEF i
<1> QED  BY <1>12, <1>13

LEMMA LoadListed ==
  ASSUME NEW x \in Typed, x.kind = "mem", NEW r \in 0 .. 7
  PROVE  AsListed(Instr("mov", <<Reg(r), x>>))
<1> DEFINE i == Instr("mov", <<Reg(r), x>>)
           s == Says(x)
           v == Value(x)
           u == Instr("mov", <<Reg(r), Mem(s)>>)
           a == Instr("mov", <<EAX, Imm(v)>>)
           y == Instr("mov", <<EAX, Imm(s)>>)
           d == Instr("mov", <<Reg(r), AtEax>>)
           w == <<v>>
           m == 8 * r
<1>0. Stated(x) = Mem(s) /\ (v # s <=> x.n # 0 /\ x.as = "neg")
  BY TypedFacts
<1>1. /\ i.op = "mov" /\ i.args # <<>> /\ N(i, 1) = r /\ Number(i, 2) = v
      /\ Kinds(i) = <<"reg", "mem">> /\ Kinds(i)[1] = "reg" /\ Kinds(i)[2] = "mem"
      /\ AsWritten(i) = u
      /\ (\E k \in DOMAIN i.args : Misread(i, k)) <=> x.n # 0 /\ x.as = "neg"
  <2> HIDE DEF s, v
  <2>1. "mov" \notin {"jmp", "je", "jne"}
    OBVIOUS
  <2> QED  BY <1>0, <2>1, SecondFacts DEF v
<1>2. Misassembled(i) <=> v # s
  BY <1>0, <1>1 DEF Misassembled, TooLarge
<1>3. Encoded(i) = <<\hB8, w, \h8B, m>>
  <2>1. Mov(i) = <<\hB8, w, \h8B, m>>
    BY <1>1 DEF Mov, ThroughEax
  <2> QED  BY <1>1, <2>1 DEF Encoded, OnReg
<1>4. TakenTwo(\hB8, w, a)
  BY TakenAsMovEax
<1>5. TakenTwo(\h8B, m, d)
  BY TakenByModRM
<1>6. Asks(i) = <<y, d>>
  <2>1. u.op = "mov" /\ N(u, 2) = s /\ u.args[1] = Reg(r) /\ Kinds(u) = <<"reg", "mem">>
    BY KindFacts, BothOperands
  <2> HIDE DEF u
  <2>2. AskedFor(u) = <<y, d>>
    BY <2>1 DEF AskedFor
  <2> QED  BY <1>1, <2>2 DEF Asks
<1>7. a # y <=> v # s
  <2>1. Imm(v) = Imm(s) <=> v = s
    BY DEF Imm
  <2> QED  BY <2>1, SameInstr
<1> HIDE DEF i, a, y, u, d, w, m, v, s
<1>8. Runs(Assembled(i)) = <<a, d, Ret>>
  BY <1>3, <1>4, <1>5, PairCode
<1>9. AsListed(i)
  BY <1>2, <1>6, <1>7, <1>8, PairIsListed
<1> QED  BY <1>9 DEF i

(* Control and debug registers: the byte that is to choose among them holds  *)
(* the register that is moved.                                               *)
LEMMA ControlListed ==
  ASSUME NEW r \in 0 .. 7
  PROVE  /\ AsListed(Instr("mov", <<Cr(0), Reg(r)>>)) /\ AsListed(Instr("mov", <<Reg(r), Cr(0)>>))
         /\ AsListed(Instr("mov", <<Dr(0), Reg(r)>>)) /\ AsListed(Instr("mov", <<Dr(1), Reg(r)>>))
<1>1. AsListed(Instr("mov", <<Cr(0), Reg(r)>>))
  <2> DEFINE i == Instr("mov", <<Cr(0), Reg(r)>>)
             a == Instr("mov", <<Cr(r), Reg(0)>>)
             m == ModRM(r, 0)
  <2>0. Plain(i)
    BY KindFacts, PlainBoth
  <2>1. /\ i.op = "mov" /\ i.args # <<>> /\ N(i, 1) = 0 /\ N(i, 2) = r
        /\ Kinds(i) = <<"cr", "reg">> /\ Kinds(i)[1] = "cr" /\ Kinds(i)[2] = "reg"
    BY KindFacts, BothOperands
  <2>2. Asks(i) = <<i>>
    BY <2>0, <2>1, AskedItself
  <2>3. Misassembled(i) <=> r # 0
    BY <2>0, <2>1 DEF Misassembled, TooLarge, Plain
  <2>4. Mov(i) = <<\h0F, \h22, m>>
    BY <2>1 DEF Mov, MovControl
  <2>5. Encoded(i) = <<\h0F, \h22, m>>
    BY <2>1, <2>4 DEF Encoded, OnReg
  <2>6. TakenThree(\h0F, \h22, m, a)
    <3>1. PICK z \in 0 .. 7 : z = 0
      OBVIOUS
    <3>2. TakenThree(\h0F, \h22, ModRM(r, z), Instr("mov", <<Cr(r), Reg(z)>>))
      BY TakenByMore
    <3> QED  BY <3>1, <3>2
  <2>7. a # i <=> r # 0
    BY KindFacts, SameInstr
  <2> HIDE DEF i, a, m
  <2>8. Runs(Assembled(i)) = <<a, Ret>>
    BY <2>5, <2>6, ThreeCode
  <2>9. AsListed(i)
    BY <2>2, <2>3, <2>7, <2>8, RightIsListed
  <2> QED  BY <2>9 DEF i
<1>2. AsListed(Instr("mov", <<Reg(r), Cr(0)>>))
  <2> DEFINE i == Instr("mov", <<Reg(r), Cr(0)>>)
  <2>0. Plain(i)
    BY KindFacts, PlainBoth
  <2>1. /\ i.op = "mov" /\ i.args # <<>> /\ N(i, 1) = r /\ N(i, 2) = 0
        /\ Kinds(i) = <<"reg", "cr">> /\ Kinds(i)[1] = "reg" /\ Kinds(i)[2] = "cr"
    BY KindFacts, BothOperands
  <2>2. Asks(i) = <<i>>
    BY <2>0, <2>1, AskedItself
  <2>3. Misassembled(i) <=> r # 0
    BY <2>0, <2>1 DEF Misassembled, TooLarge, Plain
  <2>4. CASE r = 0
    <3>1. Mov(i) = <<\h0F, \h20, \hC0>>
      BY <2>1, <2>4 DEF Mov, MovControl
    <3>2. Encoded(i) = <<\h0F, \h20, \hC0>>
      BY <2>1, <3>1 DEF Encoded, OnReg
    <3>3. TakenThree(\h0F, \h20, \hC0, i)
      <4>1. PICK q \in 0 .. 7, z \in 0 .. 7 : q = 0 /\ z = 0 /\ ModRM(q, z) = \hC0
        <5>1. 0 \in 0 .. 7 /\ ModRM(0, 0) = \hC0
          BY DEF ModRM
        <5> QED  BY <5>1
      <4>2. TakenThree(\h0F, \h20, ModRM(q, z), Instr("mov", <<Reg(z), Cr(q)>>))
        BY TakenByMore
      <4> QED  BY <2>4, <4>1, <4>2
    <3> HIDE DEF i
    <3>4. Runs(Assembled(i)) = <<i, Ret>>
      BY <3>2, <3>3, ThreeCode
    <3>5. AsListed(i)
      BY <2>2, <2>3, <2>4, <3>4, RightIsListed
    <3> QED  BY <3>5 DEF i
  <2>5. CASE r # 0
    <3> DEFINE a == Instr("mov", <<Reg(r), Imm(0)>>)
               b == \hB8 + r
               w == <<0>>
    <3>1. MovControl(i) = <<b, w>>
      BY <2>1, <2>5 DEF MovControl
    <3>2. Encoded(i) = <<b, w>>
      <4>1. Mov(i) = <<b, w>>
        BY <2>1, <3>1 DEF Mov
      <4> QED  BY <2>1, <4>1 DEF Encoded, OnReg
    <3>3. TakenTwo(b, w, a)
      BY TakenAsMov
    <3>4. a # i
      BY KindFacts, SameInstr
    <3> HIDE DEF i, a, b, w
    <3>5. Runs(Assembled(i)) = <<a, Ret>>
      BY <3>2, <3>3, TwoCode
    <3>6. AsListed(i)
      BY <2>2, <2>3, <2>5, <3>4, <3>5, RightIsListed
    <3> QED  BY <3>6 DEF i
  <2> QED  BY <2>4, <2>5
<1>3. ASSUME NEW n \in {0, 1}  PROVE AsListed(Instr("mov", <<Dr(n), Reg(r)>>))
  <2> DEFINE i == Instr("mov", <<Dr(n), Reg(r)>>)
             q == IF n = 1 /\ r % 2 = 0 THEN r + 1 ELSE r
             a == Instr("mov", <<Dr(q), Reg(0)>>)
             m == ModRM(q, 0)
  <2>0. Plain(i)
    BY KindFacts, PlainBoth
  <2>1. /\ i.op = "mov" /\ i.args # <<>> /\ N(i, 1) = n /\ N(i, 2) = r
        /\ Kinds(i) = <<"dr", "reg">> /\ Kinds(i)[1] = "dr" /\ Kinds(i)[2] = "reg"
    BY KindFacts, BothOperands
  <2>2. Asks(i) = <<i>>
    BY <2>0, <2>1, AskedItself
  <2>3. Misassembled(i) <=> r # 0
    BY <2>0, <2>1 DEF Misassembled, TooLarge, Plain
  <2>4. MovDebug(i) = <<\h0F, \h23, m>>
    BY <2>1 DEF MovDebug
  <2>5. Encoded(i) = <<\h0F, \h23, m>>
    <3>1. Mov(i) = <<\h0F, \h23, m>>
      BY <2>1, <2>4 DEF Mov
    <3> QED  BY <2>1, <3>1 DEF Encoded, OnReg
  <2>6. q \in 0 .. 7 /\ (r = 0 => q = n)
    OBVIOUS
  <2>7. a # i <=> r # 0
    BY <2>6, KindFacts, SameInstr
  <2> HIDE DEF q
  <2>8. TakenThree(\h0F, \h23, m, a)
    <3>1. PICK z \in 0 .. 7 : z = 0
      OBVIOUS
    <3>2. TakenThree(\h0F, \h23, ModRM(q, z), Instr("mov", <<Dr(q), Reg(z)>>))
      BY <2>6, TakenByMore
    <3> QED  BY <3>1, <3>2
  <2> HIDE DEF i, a, m
  <2>9. Runs(Assembled(i)) = <<a, Ret>>
    BY <2>5, <2>8, ThreeCode
  <2>10. AsListed(i)
    BY <2>2, <2>3, <2>7, <2>9, RightIsListed
  <2> QED  BY <2>10 DEF i
<1> QED  BY <1>1, <1>2, <1>3

LEMMA SegmentListed ==
  ASSUME NEW q \in {0, 2, 3, 4, 5}
  PROVE  AsListed(Instr("mov", <<Seg(q), Ax>>))
<1> DEFINE i == Instr("mov", <<Seg(q), Ax>>)
           m == ModRM(q, 0)
<1>0. Plain(i)
  BY KindFacts, PlainBoth
<1>1. /\ i.op = "mov" /\ i.args # <<>> /\ N(i, 1) = q /\ N(i, 2) = 0
      /\ Kinds(i) = <<"seg", "ax">> /\ Kinds(i)[1] = "seg" /\ Kinds(i)[2] = "ax"
  BY KindFacts, BothOperands
<1>2. Asks(i) = <<i>>
  BY <1>0, <1>1, AskedItself
<1>3. ~Misassembled(i)
  BY <1>0, <1>1 DEF Misassembled, TooLarge, Plain
<1>4. Encoded(i) = <<\h8E, m>>
  <2>1. Mov(i) = <<\h8E, m>>
    BY <1>1 DEF Mov, MovSegment
  <2> QED  BY <1>1, <2>1 DEF Encoded, OnReg
<1>5. TakenTwo(\h8E, m, i)
  <2>1. PICK z \in 0 .. 7 : z = 0
    OBVIOUS
  <2>2. q \in 0 .. 7
    OBVIOUS
  <2>3. TakenTwo(\h8E, ModRM(q, z), Instr("mov", <<Seg(q), Ax>>))
    BY <2>2, TakenByModRM
  <2> QED  BY <2>1, <2>3
<1> HIDE DEF i, m
<1>6. Runs(Assembled(i)) = <<i, Ret>>
  BY <1>4, <1>5, TwoCode
<1>7. AsListed(i)
  BY <1>2, <1>3, <1>6, RightIsListed
<1> QED  BY <1>7 DEF i

LEMMA XorListed == AsListed(Instr("xor", <<Ax, Ax>>))
<1> DEFINE i == Instr("xor", <<Ax, Ax>>)
           a == Instr("xor", <<Reg(0), Reg(0)>>)
<1>0. Plain(i)
  BY KindFacts, PlainBoth
<1>1. i.op = "xor" /\ i.args # <<>> /\ Kinds(i) = <<"ax", "ax">>
  BY KindFacts, BothOperands
<1>2. Asks(i) = <<i>>
  BY <1>0, <1>1, AskedItself
<1>3. Misassembled(i)
  BY <1>0, <1>1 DEF Misassembled, TooLarge, Plain
<1>4. Encoded(i) = <<\h31, \hC0>>
  BY <1>1 DEF Encoded, OnReg
<1>5. TakenTwo(\h31, \hC0, a)
  <2>1. PICK q \in 0 .. 7, z \in 0 .. 7 : q = 0 /\ z = 0 /\ ModRM(q, z) = \hC0
    <3>1. 0 \in 0 .. 7 /\ ModRM(0, 0) = \hC0
      BY DEF ModRM
    <3> QED  BY <3>1
  <2>2. \h31 \in DOMAIN TwoOperands /\ TwoOperands[\h31] = "xor"
    BY DecodedSets DEF TwoOperands
  <2>3. TakenTwo(\h31, ModRM(q, z), Instr("xor", <<Reg(z), Reg(q)>>))
    BY <2>2, TakenByTwoOperands
  <2> QED  BY <2>1, <2>3
<1>6. a # i
  BY KindFacts, SameInstr
<1> HIDE DEF i, a
<1>7. Runs(Assembled(i)) = <<a, Ret>>
  BY <1>4, <1>5, TwoCode
<1>8. AsListed(i)
  BY <1>2, <1>3, <1>6, <1>7, RightIsListed
<1> QED  BY <1>8 DEF i

(* Xmm registers: the operands are exchanged. *)
LEMMA XmmListed ==
  ASSUME NEW op \in {"divss", "xorps"}, NEW r \in 0 .. 7, NEW q \in 0 .. 7
  PROVE  AsListed(Instr(op, <<Xmm(r), Xmm(q)>>))
<1> DEFINE i == Instr(op, <<Xmm(r), Xmm(q)>>)
           a == Instr(op, <<Xmm(q), Xmm(r)>>)
           m == ModRM(q, r)
<1>0. Plain(i)
  BY KindFacts, PlainBoth
<1>1. /\ i.op = op /\ i.args # <<>> /\ N(i, 1) = r /\ N(i, 2) = q
      /\ Kinds(i) = <<"xmm", "xmm">>
  BY KindFacts, BothOperands
<1>2. Asks(i) = <<i>>
  BY <1>0, <1>1, AskedItself
<1>3. Misassembled(i) <=> r # q
  BY <1>0, <1>1 DEF Misassembled, TooLarge, Plain
<1>4. Encoded(i) = TwoRegs(i) /\ TwoRegs(i) = OnTwoRegs[op] \o <<m>>
  BY <1>1 DEF Encoded, OnReg, TwoRegs
<1>5. a # i <=> r # q
  <2>1. Xmm(r) = Xmm(q) <=> r = q
    BY DEF Xmm
  <2> QED  BY <2>1, SameInstr
<1>6. CASE op = "divss"
  <2>1. OnTwoRegs[op] = <<\hF3, \h0F, \h5E>>
    BY <1>6 DEF OnTwoRegs
  <2>2. TakenFour(\hF3, \h0F, \h5E, m, a)
    BY <1>6, TakenByMore
  <2> HIDE DEF i, a, m
  <2>3. Encoded(i) = <<\hF3, \h0F, \h5E, m>>
    BY <1>4, <2>1, JoinedToThree
  <2>4. Runs(Assembled(i)) = <<a, Ret>>
    BY <2>2, <2>3, FourCode
  <2>5. AsListed(i)
    BY <1>2, <1>3, <1>5, <2>4, RightIsListed
  <2> QED  BY <2>5 DEF i
<1>7. CASE op = "xorps"
  <2>1. OnTwoRegs[op] = <<\h0F, \h57>>
    BY <1>7 DEF OnTwoRegs
  <2>2. TakenThree(\h0F, \h57, m, a)
    BY <1>7, TakenByMore
  <2> HIDE DEF i, a, m
  <2>3. Encoded(i) = <<\h0F, \h57, m>>
    BY <1>4, <2>1, JoinedToTwo
  <2>4. Runs(Assembled(i)) = <<a, Ret>>
    BY <2>2, <2>3, ThreeCode
  <2>5. AsListed(i)
    BY <1>2, <1>3, <1>5, <2>4, RightIsListed
  <2> QED  BY <2>5 DEF i
<1> QED  BY <1>6, <1>7

(* Far jumps and calls: the selector is cut to a word. *)
LEMMA FarListed ==
  ASSUME NEW op \in {"jmpf", "lcall"}, NEW x \in Typed, x.kind = "imm",
         NEW z \in Typed, z.kind = "imm"
  PROVE  AsListed(Instr(op, <<x, z>>))
<1> DEFINE i == Instr(op, <<x, z>>)
           s == Says(x)
           t == Says(z)
           v == Value(x)
           e == Value(z) % 65536
           a == Instr(op, <<Imm(v), Imm(e)>>)
           u == Instr(op, <<Imm(s), Imm(t)>>)
           b == IF op = "jmpf" THEN \hEA ELSE \h9A
           f == <<v>>
           g == <<e>>
<1>0. /\ Stated(x) = Imm(s) /\ (v # s <=> x.n # 0 /\ x.as = "neg")
      /\ Stated(z) = Imm(t)
  BY TypedFacts
<1>1. /\ i.op = op /\ i.args # <<>> /\ N(i, 2) = z.n /\ i.args[1] = x /\ i.args[2] = z
      /\ N(i, 1) = x.n /\ Kinds(i) = <<"imm", "imm">>
  BY BothOperands
<1>2. /\ AsWritten(i) = u
      /\ (\E k \in DOMAIN i.args : Misread(i, k)) <=> Misread(i, 1) \/ Misread(i, 2)
  BY <1>0, BothWritten
<1>3. Number(i, 1) = v /\ Number(i, 2) = Value(z)
  BY <1>1 DEF Number, Value
<1>4. /\ Misread(i, 1) <=> x.n # 0 /\ x.as = "neg"
      /\ Misread(i, 2) <=> z.n # 0 /\ z.as = "neg"
  BY <1>1 DEF Misread
<1>5. e # t <=> (z.n # 0 /\ z.as = "neg") \/ z.n > 65535
  <2>1. z.n \in Nat /\ (z.as = "neg" => e = 0 /\ t = -z.n) /\ (z.as # "neg" => e = z.n % 65536 /\ t = z.n)
    BY TypedFacts DEF Value, Says
  <2>2. z.n <= 65535 <=> z.n % 65536 = z.n
    <3>1. z.n \in Nat
      BY <2>1
    <3> QED  BY <3>1, SMT
  <2> HIDE DEF i, a, u, b, f, g, e, t
  <2> QED  BY <2>1, <2>2
<1>6. Misassembled(i) <=> v # s \/ e # t
  BY <1>0, <1>1, <1>2, <1>4, <1>5 DEF Misassembled, TooLarge
<1>7. Asks(i) = <<u>>
  <2>1. u.op = op
    BY DEF Instr
  <2> HIDE DEF u
  <2> QED  BY <1>2, <2>1 DEF Asks, AskedFor
<1>8. a # u <=> v # s \/ e # t
  <2>1. (Imm(v) = Imm(s) <=> v = s) /\ (Imm(e) = Imm(t) <=> e = t)
    BY DEF Imm
  <2> QED  BY <2>1, SameInstr
<1>9. Encoded(i) = <<b, f, g>>
  <2>1. Far(i, b) = <<b, f, g>>
    BY <1>3 DEF Far
  <2>2. Encoded(i) = Far(i, b)
    BY <1>1 DEF Encoded, OnReg
  <2> QED  BY <2>1, <2>2
<1> HIDE DEF v, e
<1>10. TakenThree(b, f, g, a)
  <2>1. CASE op = "jmpf"
    <3>1. TakenThree(\hEA, f, g, Instr("jmpf", <<Imm(v), Imm(e)>>))
      BY TakenAsFar
    <3>2. b = \hEA
      BY <2>1
    <3> HIDE DEF b, f, g
    <3> QED  BY <2>1, <3>1, <3>2
  <2>2. CASE op = "lcall"
    <3>1. TakenThree(\h9A, f, g, Instr("lcall", <<Imm(v), Imm(e)>>))
      BY TakenAsFar
    <3>2. b = \h9A
      BY <2>2
    <3> HIDE DEF b, f, g
    <3> QED  BY <2>2, <3>1, <3>2
  <2> QED  BY <2>1, <2>2
<1> HIDE DEF i, a, u, b, f, g, s, t
<1>11. Runs(Assembled(i)) = <<a, Ret>>
  BY <1>9, <1>10, ThreeCode
<1>12. AsListed(i)
  BY <1>6, <1>7, <1>8, <1>11, ListedIs
<1> QED  BY <1>12 DEF i

LEMMA OnIs ==
  ASSUME NEW ops, NEW as, NEW i \in On(ops, as)
  PROVE  \E op \in ops : \E a \in as : i = Instr(op, <<a>>)
<1>1. PICK x \in ops \X as : i = Instr(x[1], <<x[2]>>)
  BY Zenon DEF On
<1>2. x[1] \in ops /\ x[2] \in as
  OBVIOUS
<1> QED  BY <1>1, <1>2, Zenon

LEMMA OnBothIs ==
  ASSUME NEW ops, NEW as, NEW bs, NEW i \in OnBoth(ops, as, bs)
  PROVE  \E op \in ops : \E a \in as : \E b \in bs : i = Instr(op, <<a, b>>)
<1>1. PICK x \in ops \X as \X bs : i = Instr(x[1], <<x[2], x[3]>>)
  BY Zenon DEF OnBoth
<1>2. x[1] \in ops /\ x[2] \in as /\ x[3] \in bs
  OBVIOUS
<1> QED  BY <1>1, <1>2, Zenon

LEMMA OperandSets ==
  /\ \A a : a \in Regs <=> \E r \in 0 .. 7 : a = Reg(r)
  /\ \A a : a \in Xmms <=> \E r \in 0 .. 7 : a = Xmm(r)
  /\ \A a \in Nums : a \in Typed /\ a.kind = "imm"
  /\ \A a \in Cells : a \in Typed /\ a.kind = "mem"
<1>1. \A a : a \in Regs <=> \E r \in 0 .. 7 : a = Reg(r)
  BY Zenon DEF Regs
<1>2. \A a : a \in Xmms <=> \E r \in 0 .. 7 : a = Xmm(r)
  BY Zenon DEF Xmms
<1>3. Dwords \subseteq Nat
  BY JitAssumption
<1>4. \A a \in Nums : a \in Typed /\ a.kind = "imm"
  BY <1>3 DEF Nums, Typed
<1>5. \A a \in Cells : a \in Typed /\ a.kind = "mem"
  BY <1>3 DEF Cells, Typed
<1> QED  BY <1>1, <1>2, <1>4, <1>5

NumberOps == {"push", "jmp", "je", "jne", "int", "ret", "retf"}

LEMMA OneOperandListed ==
  ASSUME NEW i, \/ i \in On({"push", "pop", "inc", "dec", "div", "idiv"}, Regs)
                \/ i \in On(NumberOps, Nums)
                \/ i \in On({"lgdt", "lidt"}, Nums \cup Cells)
  PROVE  AsListed(i)
<1>1. CASE i \in On({"push", "pop", "inc", "dec", "div", "idiv"}, Regs)
  <2>1. PICK op \in {"push", "pop", "inc", "dec", "div", "idiv"}, a \in Regs : i = Instr(op, <<a>>)
    BY <1>1, OnIs
  <2>2. PICK r \in 0 .. 7 : a = Reg(r)
    BY OperandSets
  <2> QED  BY <2>1, <2>2, OnRegListed
<1>2. CASE i \in On(NumberOps, Nums)
  <2>1. PICK op \in NumberOps, a \in Nums : i = Instr(op, <<a>>)
    BY <1>2, OnIs
  <2>2. a \in Typed /\ a.kind = "imm"
    BY OperandSets
  <2> QED  BY <2>1, <2>2, NumberListed DEF NumberOps
<1>3. CASE i \in On({"lgdt", "lidt"}, Nums \cup Cells)
  <2> DEFINE S == Nums \cup Cells
  <2> HIDE DEF S
  <2>0. i \in On({"lgdt", "lidt"}, S)
    BY <1>3 DEF S
  <2>1. PICK op \in {"lgdt", "lidt"}, a \in S : i = Instr(op, <<a>>)
    BY <2>0, OnIs
  <2>2. a \in Typed
    BY OperandSets DEF S
  <2> QED  BY <2>1, <2>2, TableListed
<1> QED  BY <1>1, <1>2, <1>3

LEMMA TwoOperandsListed ==
  ASSUME NEW i, \/ i \in OnBoth({"mov", "add", "sub", "cmp"}, Regs, Regs \cup Nums)
                \/ i \in OnBoth({"addof"}, Regs, Nums)
                \/ i \in OnBoth({"mov"}, Cells, Regs) \/ i \in OnBoth({"mov"}, Regs, Cells)
  PROVE  AsListed(i)
<1>1. CASE i \in OnBoth({"mov", "add", "sub", "cmp"}, Regs, Regs \cup Nums)
  <2>1. PICK op \in {"mov", "add", "sub", "cmp"}, a \in Regs, b \in Regs \cup Nums : i = Instr(op, <<a, b>>)
    BY <1>1, OnBothIs
  <2>2. PICK r \in 0 .. 7 : a = Reg(r)
    BY OperandSets
  <2>3. CASE b \in Regs
    <3>1. PICK q \in 0 .. 7 : b = Reg(q)
      BY <2>3, OperandSets
    <3> QED  BY <2>1, <2>2, <3>1, RegRegListed
  <2>4. CASE b \in Nums
    <3>1. b \in Typed /\ b.kind = "imm"
      BY <2>4, OperandSets
    <3> QED  BY <2>1, <2>2, <3>1, RegImmListed
  <2> QED  BY <2>3, <2>4
<1>2. CASE i \in OnBoth({"addof"}, Regs, Nums)
  <2>1. PICK a \in Regs, b \in Nums : i = Instr("addof", <<a, b>>)
    BY <1>2, OnBothIs
  <2>2. PICK r \in 0 .. 7 : a = Reg(r)
    BY OperandSets
  <2>3. b \in Typed /\ b.kind = "imm"
    BY OperandSets
  <2> QED  BY <2>1, <2>2, <2>3, AddofListed
<1>3. CASE i \in OnBoth({"mov"}, Cells, Regs)
  <2>0. PICK x \in {"mov"} \X Cells \X Regs : i = Instr(x[1], <<x[2], x[3]>>)
    BY <1>3, Zenon DEF OnBoth
  <2>a. x[1] = "mov" /\ x[2] \in Cells /\ x[3] \in Regs
    OBVIOUS
  <2>1. PICK a \in Cells, b \in Regs : i = Instr("mov", <<a, b>>)
    BY <2>0, <2>a, Zenon
  <2>2. PICK r \in 0 .. 7 : b = Reg(r)
    BY OperandSets
  <2>3. a \in Typed /\ a.kind = "mem"
    BY OperandSets
  <2> QED  BY <2>1, <2>2, <2>3, StoreListed
<1>4. CASE i \in OnBoth({"mov"}, Regs, Cells)
  <2>1. PICK a \in Regs, b \in Cells : i = Instr("mov", <<a, b>>)
    BY <1>4, OnBothIs
  <2>2. PICK r \in 0 .. 7 : a = Reg(r)
    BY OperandSets
  <2>3. b \in Typed /\ b.kind = "mem"
    BY OperandSets
  <2> QED  BY <2>1, <2>2, <2>3, LoadListed
<1> QED  BY <1>1, <1>2, <1>3, <1>4

LEMMA SpecialListed ==
  ASSUME NEW i, \/ i \in OnBoth({"mov"}, {Cr(0), Dr(0), Dr(1)}, Regs)
                \/ i \in OnBoth({"mov"}, Regs, {Cr(0)})
                \/ i \in OnBoth({"mov"}, Segs, {Ax})
                \/ i \in OnBoth({"xor"}, {Ax}, {Ax})
                \/ i \in OnBoth({"divss", "xorps"}, Xmms, Xmms)
                \/ i \in OnBoth({"jmpf", "lcall"}, Nums, Nums)
  PROVE  AsListed(i)
<1>1. CASE i \in OnBoth({"mov"}, {Cr(0), Dr(0), Dr(1)}, Regs)
  <2>0. PICK x \in {"mov"} \X {Cr(0), Dr(0), Dr(1)} \X Regs : i = Instr(x[1], <<x[2], x[3]>>)
    BY <1>1, Zenon DEF OnBoth
  <2>a. x[1] = "mov" /\ x[2] \in {Cr(0), Dr(0), Dr(1)} /\ x[3] \in Regs
    OBVIOUS
  <2>1. PICK a \in {Cr(0), Dr(0), Dr(1)}, b \in Regs : i = Instr("mov", <<a, b>>)
    BY <2>0, <2>a, Zenon
  <2>2. PICK r \in 0 .. 7 : b = Reg(r)
    BY OperandSets
  <2> QED  BY <2>1, <2>2, ControlListed
<1>2. CASE i \in OnBoth({"mov"}, Regs, {Cr(0)})
  <2>0. PICK x \in {"mov"} \X Regs \X {Cr(0)} : i = Instr(x[1], <<x[2], x[3]>>)
    BY <1>2, Zenon DEF OnBoth
  <2>a. x[1] = "mov" /\ x[2] \in Regs /\ x[3] = Cr(0)
    OBVIOUS
  <2>1. PICK a \in Regs : i = Instr("mov", <<a, Cr(0)>>)
    BY <2>0, <2>a, Zenon
  <2>2. PICK r \in 0 .. 7 : a = Reg(r)
    BY OperandSets
  <2> QED  BY <2>1, <2>2, ControlListed
<1>3. CASE i \in OnBoth({"mov"}, Segs, {Ax})
  <2>0. PICK x \in {"mov"} \X Segs \X {Ax} : i = Instr(x[1], <<x[2], x[3]>>)
    BY <1>3, Zenon DEF OnBoth
  <2>a. x[1] = "mov" /\ x[2] \in Segs /\ x[3] = Ax
    OBVIOUS
  <2>1. PICK a \in Segs : i = Instr("mov", <<a, Ax>>)
    BY <2>0, <2>a, Zenon
  <2>2. PICK q \in {0, 2, 3, 4, 5} : a = Seg(q)
    BY Zenon DEF Segs
  <2> QED  BY <2>1, <2>2, SegmentListed
<1>4. CASE i \in OnBoth({"xor"}, {Ax}, {Ax})
  <2>0. PICK x \in {"xor"} \X {Ax} \X {Ax} : i = Instr(x[1], <<x[2], x[3]>>)
    BY <1>4, Zenon DEF OnBoth
  <2>a. x[1] = "xor" /\ x[2] = Ax /\ x[3] = Ax
    OBVIOUS
  <2>1. i = Instr("xor", <<Ax, Ax>>)
    BY <2>0, <2>a, Zenon
  <2> QED  BY <2>1, XorListed
<1>5. CASE i \in OnBoth({"divss", "xorps"}, Xmms, Xmms)
  <2>0. PICK x \in {"divss", "xorps"} \X Xmms \X Xmms : i = Instr(x[1], <<x[2], x[3]>>)
    BY <1>5, Zenon DEF OnBoth
  <2>a. x[1] \in {"divss", "xorps"} /\ x[2] \in Xmms /\ x[3] \in Xmms
    OBVIOUS
  <2>1. PICK op \in {"divss", "xorps"}, a \in Xmms, b \in Xmms : i = Instr(op, <<a, b>>)
    BY <2>0, <2>a, Zenon
  <2>2. PICK r \in 0 .. 7, q \in 0 .. 7 : a = Xmm(r) /\ b = Xmm(q)
    BY OperandSets
  <2> QED  BY <2>1, <2>2, XmmListed
<1>6. CASE i \in OnBoth({"jmpf", "lcall"}, Nums, Nums)
  <2>1. PICK op \in {"jmpf", "lcall"}, a \in Nums, b \in Nums : i = Instr(op, <<a, b>>)
    BY <1>6, OnBothIs
  <2>2. a \in Typed /\ a.kind = "imm" /\ b \in Typed /\ b.kind = "imm"
    BY OperandSets
  <2> QED  BY <2>1, <2>2, FarListed
<1> QED  BY <1>1, <1>2, <1>3, <1>4, <1>5, <1>6

LEMMA EveryInstructionListed ==
  ASSUME NEW i \in Instructions
  PROVE  AsListed(i)
<1>1. CASE i \in {Instr(op, <<>>) : op \in DOMAIN Words}
  BY <1>1, WordsListed
<1>2. CASE i \notin {Instr(op, <<>>) : op \in DOMAIN Words}
  BY <1>2, Zenon, OneOperandListed, TwoOperandsListed, SpecialListed DEF Instructions, NumberOps
<1> QED  BY <1>1, <1>2

(* Each of Instructions is made into code that runs as what its text says    *)
(* and then as a ret, but for those that Misassembled lists, of which none   *)
(* is (assemble_and_execute): whatever the registers and the numbers are,    *)
(* and whether a number is decimal, hexadecimal or has a minus.              *)
THEOREM ShellAssemblesAsWritten == Spec => []AssemblesAsWritten
<1>1. Init => AssemblesAsWritten
  BY DEF Init, VarInit, Silent, AssemblesAsWritten
<1>2. ASSUME AssemblesAsWritten, [Next]_<<vars, answer>>  PROVE AssemblesAsWritten'
  <2>1. ASSUME NEW i \in Instructions, Asm(i)  PROVE AssemblesAsWritten'
    <3>1. answer'.instr = i /\ answer'.code = Assembled(i)
      BY <2>1 DEF Asm
    <3>2. Runs(Assembled(i)) = Append(AskedFor(AsWritten(i)), Instr("ret", <<>>))
          <=> ~Misassembled(i)
      BY EveryInstructionListed, Zenon DEF AsListed, Right, Asks, Ret
    <3> QED  BY <3>1, <3>2, Zenon DEF AssemblesAsWritten
  <2>2. ASSUME NEW s, NEW m, Calculate(s, m)  PROVE AssemblesAsWritten'
    BY <2>2 DEF Calculate, AssemblesAsWritten
  <2>3. CASE answer'.did \notin {"calculate", "asm"}
    BY <2>3 DEF AssemblesAsWritten
  <2>4. CASE UNCHANGED <<vars, answer>>
    BY <1>2, <2>4, Zenon DEF AssemblesAsWritten
  <2> QED  BY <1>2, <2>1, <2>2, <2>3, <2>4, ShellSteps
<1> QED  BY <1>1, <1>2, PTL DEF Spec
=============================================================================

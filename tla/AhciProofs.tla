----------------------------- MODULE AhciProofs -----------------------------
(***************************************************************************)
(* That the disk driver's structures lie in pages of their own, that       *)
(* commands are issued on ports and slots that are set up, and that no     *)
(* outstanding command is touched, and that a call that reports success,   *)
(* with nothing left over from calls before it, did its work: for any      *)
(* number of ports, slots, pages, polls, buffers and sectors.              *)
(***************************************************************************)
EXTENDS Ahci, Extremes

(* A page alloc_phys finds was not marked, and two calls of a row find       *)
(* different ones.                                                           *)
LEMMA NthFreeIsFree ==
  ASSUME NEW marked, NEW n \in Nat
  PROVE  NthFree(marked, n) \in (Pages \ marked) \cup {NONE}
BY DEF NthFree

LEMMA NthFreeApart ==
  ASSUME NEW marked, NEW n \in Nat, NEW k \in Nat,
         NthFree(marked, n) = NthFree(marked, k), NthFree(marked, n) # NONE
  PROVE  n = k
<1> DEFINE nth(j) == {q \in Pages \ marked :
                        Cardinality({x \in Pages \ marked : x < q}) = j}
<1>1. \A j : NthFree(marked, j) # NONE => NthFree(marked, j) \in nth(j)
  BY DEF NthFree
<1>2. NthFree(marked, n) \in nth(n) /\ NthFree(marked, n) \in nth(k)
  BY <1>1
<1> QED  BY <1>2

LEMMA NoneIsNoPage == NONE \notin Pages
BY AhciAssumption DEF NONE, Pages

-----------------------------------------------------------------------------
(* Types                                                                     *)

(* What ahci_port_init does: either nothing but mark pages, or it gives the  *)
(* port pages that were free, all different.                                 *)
LEMMA PortInitGives ==
  ASSUME TypeOK, next_port < MAX_PORTS, PortInit(next_port)
  PROVE  /\ phys \subseteq phys' /\ phys' \subseteq Pages
         /\ \/ UNCHANGED <<port_count, list, fis, cmd_table>>
            \/ \E clb, fb \in phys' \ phys, tables \in [Slots -> (phys' \ phys) \cup {NONE}] :
                 /\ clb # fb
                 /\ \A s \in Slots : tables[s] \notin {clb, fb}
                 /\ \A s, t \in Slots : tables[s] = tables[t] /\ s # t => tables[s] = NONE
                 /\ list' = [list EXCEPT ![next_port] = clb]
                 /\ fis' = [fis EXCEPT ![next_port] = fb]
                 /\ cmd_table' = [cmd_table EXCEPT ![next_port] = tables]
                 /\ port_count' = port_count + 1
<1> DEFINE tables == [s \in Slots |-> NthFree(phys, 2 + s)]
           clb    == NthFree(phys, 0)
           fb     == NthFree(phys, 1)
<1>1. /\ clb \in (Pages \ phys) \cup {NONE} /\ fb \in (Pages \ phys) \cup {NONE}
      /\ \A s \in Slots : tables[s] \in (Pages \ phys) \cup {NONE}
  BY NthFreeIsFree, AhciAssumption DEF Slots
<1>2. phys \subseteq Pages /\ NONE \notin phys
  BY NoneIsNoPage DEF TypeOK
<1>3. CASE NONE \in {clb, fb}
  <2>1. /\ phys' = phys \cup ({clb, fb} \ {NONE})
        /\ UNCHANGED <<port_count, list, fis, cmd_table>>
    BY <1>3 DEF PortInit
  <2> HIDE DEF clb, fb
  <2> QED  BY <2>1, <1>1, <1>2
<1>4. CASE NONE \notin {clb, fb}
  <2>1. /\ phys' = phys \cup (({clb, fb} \cup {tables[s] : s \in Slots}) \ {NONE})
        /\ list' = [list EXCEPT ![next_port] = clb]
        /\ fis' = [fis EXCEPT ![next_port] = fb]
        /\ cmd_table' = [cmd_table EXCEPT ![next_port] = tables]
        /\ port_count' = port_count + 1
    BY <1>4, Zenon DEF PortInit
  <2>2. clb # fb
    BY <1>4, NthFreeApart
  <2>3. ASSUME NEW s \in Slots  PROVE tables[s] \notin {clb, fb}
    <3>1. 2 + s \in Nat /\ 2 + s # 0 /\ 2 + s # 1 /\ tables[s] = NthFree(phys, 2 + s)
      BY AhciAssumption DEF Slots
    <3> QED  BY <1>4, <3>1, NthFreeApart
  <2>4. ASSUME NEW s \in Slots, NEW t \in Slots, tables[s] = tables[t], s # t
        PROVE  tables[s] = NONE
    <3>1. /\ 2 + s \in Nat /\ 2 + t \in Nat /\ 2 + s # 2 + t
          /\ tables[s] = NthFree(phys, 2 + s) /\ tables[t] = NthFree(phys, 2 + t)
      BY <2>4, AhciAssumption DEF Slots
    <3> QED  BY <2>4, <3>1, NthFreeApart
  <2>5. tables = [s \in Slots |-> tables[s]]
    OBVIOUS
  <2> HIDE DEF tables, clb, fb
  <2>6. clb \in phys' \ phys /\ fb \in phys' \ phys
    BY <2>1, <1>1, <1>4
  <2>7. \A s \in Slots : tables[s] \in (phys' \ phys) \cup {NONE}
    BY <2>1, <1>1
  <2>8. tables \in [Slots -> (phys' \ phys) \cup {NONE}]
    BY <2>5, <2>7
  <2>9. phys \subseteq phys' /\ phys' \subseteq Pages
    BY <2>1, <1>1, <1>2
  <2> SUFFICES \E c, f \in phys' \ phys, t \in [Slots -> (phys' \ phys) \cup {NONE}] :
                 /\ c # f
                 /\ \A s \in Slots : t[s] \notin {c, f}
                 /\ \A s, u \in Slots : t[s] = t[u] /\ s # u => t[s] = NONE
                 /\ list' = [list EXCEPT ![next_port] = c]
                 /\ fis' = [fis EXCEPT ![next_port] = f]
                 /\ cmd_table' = [cmd_table EXCEPT ![next_port] = t]
                 /\ port_count' = port_count + 1
    BY <2>9, Zenon
  <2> USE <2>6, <2>8
  <2> WITNESS clb \in phys' \ phys, fb \in phys' \ phys,
              tables \in [Slots -> (phys' \ phys) \cup {NONE}]
  <2> QED  BY <2>1, <2>2, <2>3, <2>4
<1> QED  BY <1>3, <1>4

LEMMA SetUpTypes ==
  ASSUME TypeOK, SetUpPort
  PROVE  TypeOK'
<1>1. /\ next_port \in Ports /\ next_port' = next_port + 1
      /\ UNCHANGED <<attached, request, ci, err, mem, sector, call>>
  BY AhciAssumption DEF SetUpPort, TypeOK, Ports
<1>2. next_port \in Nat /\ MAX_PORTS \in Nat /\ next_port < MAX_PORTS /\ port_count \in 0 .. next_port
  BY AhciAssumption DEF SetUpPort, TypeOK
<1>3. /\ next_port' \in 0 .. MAX_PORTS
      /\ port_count \in 0 .. next_port' /\ port_count + 1 \in 0 .. next_port'
  BY <1>1, <1>2
<1>4. CASE UNCHANGED <<port_count, list, fis, cmd_table>> /\ phys' \subseteq Pages
  BY <1>1, <1>3, <1>4 DEF TypeOK
<1>5. CASE PortInit(next_port)
  <2>1. CASE UNCHANGED <<port_count, list, fis, cmd_table>>
    BY <1>2, <1>4, <1>5, <2>1, PortInitGives
  <2>2. CASE ~UNCHANGED <<port_count, list, fis, cmd_table>>
    <3>1. PICK clb, fb \in phys' \ phys, tables \in [Slots -> (phys' \ phys) \cup {NONE}] :
            /\ list' = [list EXCEPT ![next_port] = clb]
            /\ fis' = [fis EXCEPT ![next_port] = fb]
            /\ cmd_table' = [cmd_table EXCEPT ![next_port] = tables]
            /\ port_count' = port_count + 1
      BY <1>2, <1>5, <2>2, PortInitGives
    <3>2. phys' \subseteq Pages
      BY <1>2, <1>5, PortInitGives
    <3>3. clb \in Pages /\ fb \in Pages
      BY <3>2
    <3>4. tables \in [Slots -> Pages \cup {NONE}]
      BY <3>2
    <3>5. /\ list' \in [Ports -> Pages \cup {NONE}] /\ fis' \in [Ports -> Pages \cup {NONE}]
          /\ cmd_table' \in [Ports -> [Slots -> Pages \cup {NONE}]]
      BY <3>1, <3>3, <3>4 DEF TypeOK
    <3>6. port_count' \in 0 .. next_port'
      BY <3>1, <1>3
    <3> QED  BY <1>1, <1>3, <3>2, <3>5, <3>6 DEF TypeOK
  <2> QED  BY <2>1, <2>2
<1> QED  BY <1>4, <1>5 DEF SetUpPort, TypeOK

(* The slot the driver takes is one whose command is not outstanding. *)
LEMMA FreeSlotIsFree ==
  ASSUME NEW p \in Ports
  PROVE  FreeSlot(p) \in (Slots \ ci[p]) \cup {NONE}
<1>1. CASE Slots \subseteq ci[p]
  BY <1>1 DEF FreeSlot
<1>2. CASE ~(Slots \subseteq ci[p])
  <2>1. Slots \ ci[p] \in SUBSET Nat /\ Slots \ ci[p] # {}
    BY <1>2, AhciAssumption DEF Slots
  <2>2. \E s \in Slots \ ci[p] : \A k \in Slots \ ci[p] : s <= k
    BY <2>1, LeastExists
  <2> QED  BY <1>2, <2>2 DEF FreeSlot
<1> QED  BY <1>1, <1>2

LEMMA StartTypes ==
  ASSUME TypeOK,
         NEW op \in Operation, NEW p \in Ports, NEW lba \in Sectors,
         NEW buf \in Buffers, NEW data \in Data, Start(op, p, lba, buf, data)
  PROVE  TypeOK'
<1> DEFINE s == FreeSlot(p)
           asked == [op |-> op, lba |-> lba, buf |-> buf]
<1>1. s \in Slots \cup {NONE}
  BY FreeSlotIsFree
<1>2. Usable(p, s) => s \in Slots
  BY <1>1 DEF Usable
<1>3. asked \in Request
  BY DEF Request
<1> HIDE DEF s, asked
<1>4. /\ mem' = IF op = "write" THEN [mem EXCEPT ![buf] = data] ELSE mem
      /\ request' = IF Usable(p, s) THEN [request EXCEPT ![p][s] = asked] ELSE request
      /\ call' = [op |-> op, port |-> p, slot |-> s, lba |-> lba, buf |-> buf,
                  phase |-> IF Usable(p, s) THEN "wait" ELSE "done",
                  polls |-> 0, ok |-> FALSE,
                  alone |-> \A q \in Ports : ci[q] = {}]
      /\ UNCHANGED <<bootVars, ci, err, sector>>
  BY Zenon DEF Start, s, asked
<1>5. mem' \in [Buffers -> Data]
  BY <1>4 DEF TypeOK
<1>6. request' \in [Ports -> [Slots -> Request]]
  <2>1. CASE Usable(p, s)
    <3>1. [request[p] EXCEPT ![s] = asked] \in [Slots -> Request]
      BY <2>1, <1>2, <1>3 DEF TypeOK
    <3> QED  BY <2>1, <3>1, <1>4 DEF TypeOK
  <2>2. CASE ~Usable(p, s)
    BY <2>2, <1>4 DEF TypeOK
  <2> QED  BY <2>1, <2>2
<1>7. call' \in Call
  <2>1. 0 \in 0 .. POLLS
    BY AhciAssumption
  <2>2. (\A q \in Ports : ci[q] = {}) \in BOOLEAN
    OBVIOUS
  <2>3. (IF Usable(p, s) THEN "wait" ELSE "done") \in {"wait", "poll", "check", "done"}
    OBVIOUS
  <2> QED  BY <1>1, <1>4, <2>1, <2>2, <2>3, Zenon DEF Call
<1> QED  BY <1>4, <1>5, <1>6, <1>7 DEF TypeOK, bootVars

(* A call that is about to issue its command has a slot with a table on a    *)
(* port that is set up, and has filled the table in.                         *)
CallReady ==
  call.phase = "wait" =>
    /\ call.slot \in Slots
    /\ list[call.port] # NONE
    /\ cmd_table[call.port][call.slot] # NONE
    /\ request[call.port][call.slot] # NoRequest

LEMMA CallInHand ==
  ASSUME TypeOK, call.phase # "none"
  PROVE  call \in Call
BY DEF TypeOK, NoCall

LEMMA ReturnTypes ==
  ASSUME call \in Call, NEW ok \in BOOLEAN, Return(ok)
  PROVE  call' \in Call /\ call'.phase = "done"
BY DEF Return, Call

LEMMA WaitTypes ==
  ASSUME call \in Call, call.polls < POLLS, call' = [call EXCEPT !.polls = @ + 1]
  PROVE  call' \in Call
<1>1. call.polls + 1 \in 0 .. POLLS
  BY AhciAssumption DEF Call
<1> QED  BY <1>1 DEF Call

LEMMA DriverTypes ==
  ASSUME TypeOK, CallReady, Driver
  PROVE  TypeOK'
<1>1. call \in Call
  <2>1. call.phase # "none"
    BY DEF Driver, Issue, DeviceBusy, Poll, Check
  <2> QED  BY <2>1, CallInHand
<1>2. POLLS \in Nat /\ call.polls \in 0 .. POLLS
  BY <1>1, AhciAssumption DEF Call
<1>3. CASE Issue
  <2>1. call' \in Call
    <3>1. call' = [call EXCEPT !.phase = "poll", !.polls = 0]
      BY <1>3 DEF Issue
    <3>2. 0 \in 0 .. POLLS
      BY <1>2
    <3> QED  BY <1>1, <3>1, <3>2 DEF Call
  <2>2. ci' \in [Ports -> SUBSET Slots]
    BY <1>1, <1>3 DEF Issue, Call, CallReady, TypeOK
  <2> QED  BY <1>3, <2>1, <2>2 DEF Issue, TypeOK, bootVars
<1>4. CASE DeviceBusy
  <2>1. call' \in Call
    <3>1. CASE call.polls < POLLS
      BY <1>1, <1>4, <3>1, WaitTypes DEF DeviceBusy
    <3>2. CASE ~(call.polls < POLLS)
      BY <1>1, <1>4, <3>2, ReturnTypes DEF DeviceBusy
    <3> QED  BY <3>1, <3>2
  <2> QED  BY <1>4, <2>1 DEF DeviceBusy, TypeOK, bootVars
<1>5. CASE Poll
  <2>1. call' \in Call
    <3>1. CASE call.slot \notin ci[call.port]
      BY <1>1, <1>5, <3>1 DEF Poll, Call
    <3>2. CASE call.slot \in ci[call.port] /\ call.polls < POLLS
      BY <1>1, <1>5, <3>2, WaitTypes DEF Poll
    <3>3. CASE call.slot \in ci[call.port] /\ ~(call.polls < POLLS)
      BY <1>1, <1>5, <3>3, ReturnTypes DEF Poll
    <3> QED  BY <3>1, <3>2, <3>3
  <2> QED  BY <1>5, <2>1 DEF Poll, TypeOK, bootVars
<1>6. CASE Check
  <2>1. (~err[call.port]) \in BOOLEAN
    OBVIOUS
  <2>2. call' \in Call
    BY <1>1, <1>6, <2>1, ReturnTypes DEF Check
  <2> QED  BY <1>6, <2>2 DEF Check, TypeOK, bootVars
<1> QED  BY <1>3, <1>4, <1>5, <1>6 DEF Driver

-----------------------------------------------------------------------------
(* The invariant                                                             *)

(* The ports not yet looked at have no pages, and a port has all of its      *)
(* structures or none.                                                       *)
PortsInOrder ==
  \A p \in Ports :
    /\ p >= next_port => list[p] = NONE
    /\ list[p] = NONE => fis[p] = NONE /\ \A s \in Slots : cmd_table[p][s] = NONE
    /\ list[p] # NONE => fis[p] # NONE

KernelMarked == 0 .. MARKED_PAGES - 1 \subseteq phys

IInv ==
  TypeOK /\ PortsInOrder /\ KernelMarked /\ PagesApart /\ CallReady /\ OnlyReadyPorts

LEMMA InitInv == Init => IInv
<1> SUFFICES ASSUME Init PROVE IInv
  OBVIOUS
<1>1. TypeOK
  BY AhciAssumption DEF Init, TypeOK, Pages, Request, NoRequest, Ports, Slots
<1>2. CallReady
  BY DEF Init, CallReady, NoCall
<1>3. PortsInOrder /\ KernelMarked
  BY DEF Init, PortsInOrder, KernelMarked
<1>4. PagesApart /\ OnlyReadyPorts
  BY DEF Init, PagesApart, OnlyReadyPorts
<1> QED  BY <1>1, <1>2, <1>3, <1>4 DEF IInv

(* The calls and the controller leave the pages alone.                       *)
LEMMA PagesKept ==
  ASSUME PortsInOrder, KernelMarked, PagesApart, UNCHANGED bootVars
  PROVE  PortsInOrder' /\ KernelMarked' /\ PagesApart'
BY DEF PortsInOrder, KernelMarked, PagesApart, bootVars

LEMMA SetUpInv ==
  ASSUME IInv, SetUpPort
  PROVE  IInv'
<1>1. TypeOK'
  BY SetUpTypes DEF IInv
<1>2. /\ next_port \in Ports /\ next_port' = next_port + 1 /\ next_port < MAX_PORTS
      /\ UNCHANGED <<request, ci, call>>
  BY AhciAssumption DEF SetUpPort, IInv, TypeOK, Ports
<1>3. TypeOK /\ PortsInOrder /\ KernelMarked /\ PagesApart /\ CallReady /\ OnlyReadyPorts
  BY DEF IInv
<1>4. NONE \notin Pages
  BY NoneIsNoPage
<1>5. ASSUME phys \subseteq phys', UNCHANGED <<list, fis, cmd_table>>
      PROVE  PortsInOrder' /\ KernelMarked' /\ PagesApart' /\ CallReady' /\ OnlyReadyPorts'
  <2>1. PortsInOrder'
    BY <1>2, <1>3, <1>5, AhciAssumption DEF PortsInOrder, Ports
  <2>2. KernelMarked'
    BY <1>3, <1>5 DEF KernelMarked
  <2>3. PagesApart'
    BY <1>3, <1>5 DEF PagesApart
  <2>4. CallReady' /\ OnlyReadyPorts'
    BY <1>2, <1>3, <1>5 DEF CallReady, OnlyReadyPorts
  <2> QED  BY <2>1, <2>2, <2>3, <2>4
<1>6. ASSUME NEW clb \in phys' \ phys, NEW fb \in phys' \ phys,
             NEW tables \in [Slots -> (phys' \ phys) \cup {NONE}],
             clb # fb,
             \A s \in Slots : tables[s] \notin {clb, fb},
             \A s, t \in Slots : tables[s] = tables[t] /\ s # t => tables[s] = NONE,
             list' = [list EXCEPT ![next_port] = clb],
             fis' = [fis EXCEPT ![next_port] = fb],
             cmd_table' = [cmd_table EXCEPT ![next_port] = tables],
             phys \subseteq phys', phys' \subseteq Pages
      PROVE  PortsInOrder' /\ KernelMarked' /\ PagesApart' /\ CallReady' /\ OnlyReadyPorts'
  <2>1. /\ list'[next_port] = clb /\ fis'[next_port] = fb /\ cmd_table'[next_port] = tables
        /\ \A p \in Ports \ {next_port} :
             list'[p] = list[p] /\ fis'[p] = fis[p] /\ cmd_table'[p] = cmd_table[p]
    BY <1>2, <1>3, <1>6 DEF TypeOK
  <2>2. list[next_port] = NONE /\ fis[next_port] = NONE
        /\ \A s \in Slots : cmd_table[next_port][s] = NONE
    BY <1>2, <1>3, AhciAssumption DEF PortsInOrder, Ports
  <2>3. clb # NONE /\ fb # NONE
    BY <1>4, <1>6
  <2>4. PortsInOrder'
    BY <2>1, <2>3, <1>2, <1>3, AhciAssumption DEF PortsInOrder, Ports
  <2>5. KernelMarked'
    BY <1>3, <1>6 DEF KernelMarked
  <2>6. ASSUME NEW p \in Ports
        PROVE  /\ p # next_port => list[p] \in phys \cup {NONE} /\ fis[p] \in phys \cup {NONE}
               /\ \A s \in Slots : cmd_table[p][s] \in phys \cup {NONE}
    BY <1>3 DEF PagesApart
  <2>7. PagesApart'
    <3> SUFFICES ASSUME NEW p \in Ports, NEW q \in Ports
                 PROVE  /\ ({list[p], fis[p]} \cup {cmd_table[p][s] : s \in Slots}
                              \subseteq (phys \ (0 .. MARKED_PAGES - 1)) \cup {NONE})'
                        /\ (list[p] # NONE =>
                              list[p] \notin {fis[q]} \cup {cmd_table[q][s] : s \in Slots})'
                        /\ (fis[p] # NONE => fis[p] \notin {cmd_table[q][s] : s \in Slots})'
                        /\ (\A s, t \in Slots :
                              cmd_table[p][s] = cmd_table[q][t] /\ <<p, s>> # <<q, t>> =>
                                cmd_table[p][s] = NONE)'
                        /\ (p # q /\ list[p] # NONE => list[p] # list[q] /\ fis[p] # fis[q])'
      BY Zenon DEF PagesApart
    <3>1. ({list[p], fis[p]} \cup {cmd_table[p][s] : s \in Slots}
             \subseteq (phys \ (0 .. MARKED_PAGES - 1)) \cup {NONE})'
      <4>1. CASE p = next_port
        BY <4>1, <2>1, <1>3, <1>6 DEF KernelMarked
      <4>2. CASE p # next_port
        BY <4>2, <2>1, <1>3, <1>6 DEF PagesApart
      <4> QED  BY <4>1, <4>2
    <3>2. (list[p] # NONE =>
             list[p] \notin {fis[q]} \cup {cmd_table[q][s] : s \in Slots})'
      <4>1. CASE p = next_port /\ q = next_port
        BY <4>1, <2>1, <1>6
      <4>2. CASE p = next_port /\ q # next_port
        BY <4>2, <2>1, <2>3, <2>6, <1>6
      <4>3. CASE p # next_port /\ q = next_port
        BY <4>3, <2>1, <2>3, <2>6, <1>6
      <4>4. CASE p # next_port /\ q # next_port
        BY <4>4, <2>1, <1>3 DEF PagesApart
      <4> QED  BY <4>1, <4>2, <4>3, <4>4
    <3>3. (fis[p] # NONE => fis[p] \notin {cmd_table[q][s] : s \in Slots})'
      <4>1. CASE p = next_port /\ q = next_port
        BY <4>1, <2>1, <1>6
      <4>2. CASE p = next_port /\ q # next_port
        BY <4>2, <2>1, <2>3, <2>6, <1>6
      <4>3. CASE p # next_port /\ q = next_port
        BY <4>3, <2>1, <2>3, <2>6, <1>6
      <4>4. CASE p # next_port /\ q # next_port
        BY <4>4, <2>1, <1>3 DEF PagesApart
      <4> QED  BY <4>1, <4>2, <4>3, <4>4
    <3>4. (\A s, t \in Slots :
             cmd_table[p][s] = cmd_table[q][t] /\ <<p, s>> # <<q, t>> =>
               cmd_table[p][s] = NONE)'
      <4>1. CASE p = next_port /\ q = next_port
        BY <4>1, <2>1, <1>6
      <4>2. CASE p = next_port /\ q # next_port
        BY <4>2, <2>1, <2>6, <1>6
      <4>3. CASE p # next_port /\ q = next_port
        BY <4>3, <2>1, <2>6, <1>6
      <4>4. CASE p # next_port /\ q # next_port
        BY <4>4, <2>1, <1>3 DEF PagesApart
      <4> QED  BY <4>1, <4>2, <4>3, <4>4
    <3>5. (p # q /\ list[p] # NONE => list[p] # list[q] /\ fis[p] # fis[q])'
      <4>1. CASE p = next_port /\ q # next_port
        BY <4>1, <2>1, <2>3, <2>6, <1>6
      <4>2. CASE p # next_port /\ q = next_port
        BY <4>2, <2>1, <2>3, <2>6, <1>6
      <4>3. CASE p # next_port /\ q # next_port
        BY <4>3, <2>1, <1>3 DEF PagesApart
      <4> QED  BY <4>1, <4>2, <4>3
    <3> QED  BY <3>1, <3>2, <3>3, <3>4, <3>5
  <2>8. CallReady'
    <3>1. call.phase = "wait" => call.port \in Ports /\ call.port # next_port
      BY <1>3, <2>2, CallInHand DEF CallReady, Call
    <3> QED  BY <3>1, <2>1, <1>2, <1>3 DEF CallReady
  <2>9. OnlyReadyPorts'
    BY <2>1, <2>2, <1>2, <1>3 DEF OnlyReadyPorts
  <2> QED  BY <2>4, <2>5, <2>7, <2>8, <2>9
<1>7. CASE PortInit(next_port)
  <2>1. phys \subseteq phys' /\ phys' \subseteq Pages
    BY <1>2, <1>3, <1>7, PortInitGives
  <2>2. CASE UNCHANGED <<port_count, list, fis, cmd_table>>
    BY <1>1, <1>5, <2>1, <2>2 DEF IInv
  <2>3. CASE ~UNCHANGED <<port_count, list, fis, cmd_table>>
    <3>1. PICK clb, fb \in phys' \ phys, tables \in [Slots -> (phys' \ phys) \cup {NONE}] :
            /\ clb # fb
            /\ \A s \in Slots : tables[s] \notin {clb, fb}
            /\ \A s, t \in Slots : tables[s] = tables[t] /\ s # t => tables[s] = NONE
            /\ list' = [list EXCEPT ![next_port] = clb]
            /\ fis' = [fis EXCEPT ![next_port] = fb]
            /\ cmd_table' = [cmd_table EXCEPT ![next_port] = tables]
      BY <1>2, <1>3, <1>7, <2>3, PortInitGives
    <3> QED  BY <1>1, <1>6, <2>1, <3>1 DEF IInv
  <2> QED  BY <2>2, <2>3
<1> QED  BY <1>1, <1>5, <1>7 DEF SetUpPort, IInv

(* A call takes a slot with no command in it, so that what it writes there   *)
(* touches no outstanding one.                                               *)
LEMMA StartTouches ==
  ASSUME TypeOK,
         NEW op \in Operation, NEW p \in Ports, NEW lba \in Sectors,
         NEW buf \in Buffers, NEW data \in Data, Start(op, p, lba, buf, data)
  PROVE  /\ \A q \in Ports : \A s \in ci[q] : request'[q][s] = request[q][s]
         /\ UNCHANGED <<bootVars, ci>>
         /\ call'.phase = "wait" =>
              /\ call'.port = p /\ call'.slot \in Slots
              /\ cmd_table[p][call'.slot] # NONE
              /\ request'[p][call'.slot] # NoRequest
<1> DEFINE s == FreeSlot(p)
           asked == [op |-> op, lba |-> lba, buf |-> buf]
<1>1. s \in (Slots \ ci[p]) \cup {NONE}
  BY FreeSlotIsFree
<1>2. asked.op # "none"
  BY DEF Operation
<1>3. asked # NoRequest
  BY <1>2 DEF NoRequest
<1> HIDE DEF s, asked
<1>4. /\ request' = IF Usable(p, s) THEN [request EXCEPT ![p][s] = asked] ELSE request
      /\ call' = [op |-> op, port |-> p, slot |-> s, lba |-> lba, buf |-> buf,
                  phase |-> IF Usable(p, s) THEN "wait" ELSE "done",
                  polls |-> 0, ok |-> FALSE,
                  alone |-> \A q \in Ports : ci[q] = {}]
      /\ UNCHANGED <<bootVars, ci>>
  BY Zenon DEF Start, s, asked
<1>5. CASE Usable(p, s)
  <2>1. s \in Slots \ ci[p] /\ cmd_table[p][s] # NONE
    BY <1>1, <1>5 DEF Usable
  <2>2. request'[p][s] = asked
        /\ \A q \in Ports, t \in Slots : <<q, t>> # <<p, s>> => request'[q][t] = request[q][t]
    BY <1>4, <1>5, <2>1 DEF TypeOK
  <2>3. \A q \in Ports : ci[q] \subseteq Slots
    BY DEF TypeOK
  <2>4. call'.port = p /\ call'.slot = s
    BY <1>4
  <2> QED  BY <1>3, <1>4, <2>1, <2>2, <2>3, <2>4
<1>6. CASE ~Usable(p, s)
  <2>1. request' = request /\ call'.phase = "done"
    BY <1>4, <1>6
  <2> QED  BY <1>4, <2>1
<1> QED  BY <1>5, <1>6

LEMMA StartInv ==
  ASSUME IInv,
         NEW op \in Operation, NEW p \in Ports, NEW lba \in Sectors,
         NEW buf \in Buffers, NEW data \in Data, Start(op, p, lba, buf, data)
  PROVE  IInv'
<1>1. /\ TypeOK /\ PortsInOrder /\ KernelMarked /\ PagesApart /\ OnlyReadyPorts
  BY DEF IInv
<1>2. TypeOK'
  BY <1>1, StartTypes
<1>3. /\ \A q \in Ports : \A s \in ci[q] : request'[q][s] = request[q][s]
      /\ UNCHANGED <<bootVars, ci>>
      /\ call'.phase = "wait" =>
           /\ call'.port = p /\ call'.slot \in Slots
           /\ cmd_table[p][call'.slot] # NONE
           /\ request'[p][call'.slot] # NoRequest
  BY <1>1, StartTouches
<1>4. PortsInOrder' /\ KernelMarked' /\ PagesApart'
  BY <1>1, <1>3, PagesKept
<1>5. UNCHANGED <<list, cmd_table>>
  BY <1>3 DEF bootVars
<1>6. CallReady'
  BY <1>1, <1>3, <1>5 DEF CallReady, PortsInOrder
<1>7. OnlyReadyPorts'
  BY <1>1, <1>3, <1>5 DEF OnlyReadyPorts
<1> QED  BY <1>2, <1>4, <1>6, <1>7 DEF IInv

LEMMA DriverInv ==
  ASSUME IInv, Driver
  PROVE  IInv'
<1>1. /\ TypeOK /\ PortsInOrder /\ KernelMarked /\ PagesApart /\ CallReady /\ OnlyReadyPorts
  BY DEF IInv
<1>2. TypeOK'
  BY <1>1, DriverTypes
<1>3. UNCHANGED <<bootVars, request>>
  BY DEF Driver, Issue, DeviceBusy, Poll, Check
<1>4. PortsInOrder' /\ KernelMarked' /\ PagesApart'
  BY <1>1, <1>3, PagesKept
<1>5. call \in Call
  <2>1. call.phase # "none"
    BY DEF Driver, Issue, DeviceBusy, Poll, Check
  <2> QED  BY <1>1, <2>1, CallInHand
<1>6. /\ call'.phase = "wait" => call.phase = "wait"
      /\ call'.port = call.port /\ call'.slot = call.slot
  BY <1>5 DEF Driver, Issue, DeviceBusy, Poll, Check, Return, Call
<1>7. UNCHANGED <<list, cmd_table, request>>
  BY <1>3 DEF bootVars
<1>8. CallReady'
  BY <1>1, <1>6, <1>7 DEF CallReady
<1>9. OnlyReadyPorts'
  <2>1. CASE ci' = ci
    BY <1>1, <1>7, <2>1 DEF OnlyReadyPorts
  <2>2. CASE Issue
    <3>1. \A p \in Ports : \A s \in ci'[p] :
            s \in ci[p] \/ (call.phase = "wait" /\ p = call.port /\ s = call.slot)
      BY <1>1, <2>2 DEF Issue, TypeOK
    <3> QED  BY <1>1, <1>7, <3>1 DEF OnlyReadyPorts, CallReady
  <2> QED  BY <2>1, <2>2 DEF Driver, DeviceBusy, Poll, Check
<1> QED  BY <1>2, <1>4, <1>8, <1>9 DEF IInv

LEMMA CompleteInv ==
  ASSUME IInv, NEW p \in Ports, NEW s \in Slots, NEW failed \in BOOLEAN, Complete(p, s, failed)
  PROVE  IInv'
<1>1. /\ TypeOK /\ PortsInOrder /\ KernelMarked /\ PagesApart /\ CallReady /\ OnlyReadyPorts
  BY DEF IInv
<1>2. UNCHANGED <<bootVars, request, call>> /\ s \in ci[p]
      /\ ci' = [ci EXCEPT ![p] = @ \ {s}] /\ err' = [err EXCEPT ![p] = failed]
  BY DEF Complete
<1>3. request[p][s] \in [op : Operation, lba : Sectors, buf : Buffers]
  BY <1>1, <1>2 DEF OnlyReadyPorts, TypeOK, Request
<1>4. TypeOK'
  <2>1. ci' \in [Ports -> SUBSET Slots] /\ err' \in [Ports -> BOOLEAN]
    BY <1>1, <1>2 DEF TypeOK
  <2>2. mem' \in [Buffers -> Data]
    BY <1>1, <1>3 DEF Complete, TypeOK
  <2>3. sector' \in [Ports -> [Sectors -> Data]]
    BY <1>1, <1>3 DEF Complete, TypeOK
  <2> QED  BY <1>1, <1>2, <2>1, <2>2, <2>3 DEF TypeOK, bootVars
<1>5. PortsInOrder' /\ KernelMarked' /\ PagesApart'
  BY <1>1, <1>2, PagesKept
<1>6. CallReady'
  BY <1>1, <1>2 DEF CallReady, bootVars
<1>7. OnlyReadyPorts'
  <2>1. \A q \in Ports : ci'[q] \subseteq ci[q]
    BY <1>1, <1>2 DEF TypeOK
  <2> QED  BY <1>1, <1>2, <2>1 DEF OnlyReadyPorts, bootVars
<1> QED  BY <1>4, <1>5, <1>6, <1>7 DEF IInv

LEMMA StepInv == IInv /\ [Next]_vars => IInv'
<1> SUFFICES ASSUME IInv, [Next]_vars  PROVE IInv'
  OBVIOUS
<1>1. CASE SetUpPort
  BY <1>1, SetUpInv
<1>2. ASSUME NEW op \in Operation, NEW p \in Ports, NEW lba \in Sectors,
             NEW buf \in Buffers, NEW data \in Data, Start(op, p, lba, buf, data)
      PROVE  IInv'
  BY <1>2, StartInv
<1>3. CASE Driver
  BY <1>3, DriverInv
<1>4. ASSUME NEW p \in Ports, NEW s \in Slots, NEW failed \in BOOLEAN, Complete(p, s, failed)
      PROVE  IInv'
  BY <1>4, CompleteInv
<1>5. CASE UNCHANGED vars
  <2>1. UNCHANGED <<bootVars, attached, next_port, port_count, phys, list, fis, cmd_table,
                    request, ci, err, mem, sector, call>>
    BY <1>5 DEF vars, bootVars
  <2>2. TypeOK'
    BY <2>1 DEF IInv, TypeOK
  <2>3. CallReady' /\ OnlyReadyPorts'
    BY <2>1 DEF IInv, CallReady, OnlyReadyPorts
  <2> QED  BY <2>1, <2>2, <2>3, PagesKept DEF IInv
<1> QED  BY <1>1, <1>2, <1>3, <1>4, <1>5 DEF Next

-----------------------------------------------------------------------------
(* The driver and the controller keep the state well typed: no slot, page or *)
(* port is out of its range.                                                 *)
THEOREM AhciTypeCorrect == Spec => []TypeOK
<1>1. IInv => TypeOK
  BY DEF IInv
<1> QED  BY InitInv, StepInv, <1>1, PTL DEF Spec

(* The structures of all ports lie in pages of their own, marked in use and  *)
(* not among those init_phys marked, however many ports there are and        *)
(* however few pages.  It speaks of the bitmap, not of what the linker put   *)
(* in these pages.                                                           *)
THEOREM PagesStayApart == Spec => []PagesApart
<1>1. IInv => PagesApart
  BY DEF IInv
<1> QED  BY InitInv, StepInv, <1>1, PTL DEF Spec

(* A command is only ever issued on a port that was set up and in a slot     *)
(* with a table, the ports that a gap puts in the wrong place included.      *)
THEOREM IssuedWhereReady == Spec => []OnlyReadyPorts
<1>1. IInv => OnlyReadyPorts
  BY DEF IInv
<1> QED  BY InitInv, StepInv, <1>1, PTL DEF Spec

(* No call writes into the table of a command that is outstanding, one given *)
(* up long ago included.                                                     *)
THEOREM OutstandingStay == Spec => OutstandingUntouched
<1>1. IInv /\ [Next]_vars =>
        [\A p \in Ports : \A s \in ci[p] : request'[p][s] = request[p][s]]_vars
  <2> SUFFICES ASSUME IInv, Next
               PROVE  \A p \in Ports : \A s \in ci[p] : request'[p][s] = request[p][s]
    OBVIOUS
  <2>1. ASSUME NEW op \in Operation, NEW p \in Ports, NEW lba \in Sectors,
               NEW buf \in Buffers, NEW data \in Data, Start(op, p, lba, buf, data)
        PROVE  \A q \in Ports : \A s \in ci[q] : request'[q][s] = request[q][s]
    BY <2>1, StartTouches DEF IInv
  <2>2. CASE SetUpPort \/ Driver
    BY <2>2 DEF SetUpPort, Driver, Issue, DeviceBusy, Poll, Check
  <2>3. ASSUME NEW p \in Ports, NEW s \in Slots, NEW failed \in BOOLEAN, Complete(p, s, failed)
        PROVE  request' = request
    BY <2>3 DEF Complete
  <2> QED  BY <2>1, <2>2, <2>3 DEF Next
<1> QED  BY InitInv, StepInv, <1>1, PTL DEF Spec, OutstandingUntouched

-----------------------------------------------------------------------------
(* Results                                                                   *)

Agrees == mem[call.buf] = sector[call.port][call.lba]
Asked  == [op |-> call.op, lba |-> call.lba, buf |-> call.buf]

(* A call that found nothing outstanding is the only one that can have a     *)
(* command outstanding, and its command is what it was asked for; once it is *)
(* complete, it failed or buffer and sector agree.                           *)
Lonely ==
  /\ \A q \in Ports : \A t \in ci[q] :
       call.phase \in {"poll", "done"} /\ q = call.port /\ t = call.slot
  /\ call.phase \in {"wait", "poll"} =>
       call.slot \in Slots /\ request[call.port][call.slot] = Asked
  /\ call.phase \in {"poll", "check"} =>
       call.slot \in ci[call.port] \/ err[call.port] \/ Agrees
  /\ call.phase = "check" => call.slot \notin ci[call.port]
  /\ call.phase = "done" /\ call.ok => call.slot \notin ci[call.port] /\ Agrees

AloneInv == call.phase # "none" /\ call.alone => Lonely

LEMMA StartAlone ==
  ASSUME IInv,
         NEW op \in Operation, NEW p \in Ports, NEW lba \in Sectors,
         NEW buf \in Buffers, NEW data \in Data, Start(op, p, lba, buf, data)
  PROVE  AloneInv'
<1> SUFFICES ASSUME call'.alone  PROVE Lonely'
  BY DEF AloneInv
<1> DEFINE s == FreeSlot(p)
           asked == [op |-> op, lba |-> lba, buf |-> buf]
<1>1. s \in (Slots \ ci[p]) \cup {NONE}
  BY FreeSlotIsFree
<1> HIDE DEF s
<1>2. /\ request' = IF Usable(p, s) THEN [request EXCEPT ![p][s] = asked] ELSE request
      /\ call' = [op |-> op, port |-> p, slot |-> s, lba |-> lba, buf |-> buf,
                  phase |-> IF Usable(p, s) THEN "wait" ELSE "done",
                  polls |-> 0, ok |-> FALSE,
                  alone |-> \A q \in Ports : ci[q] = {}]
      /\ UNCHANGED ci
  BY Zenon DEF Start, s, asked
<1>3. \A q \in Ports : ci'[q] = {}
  BY <1>2
<1>4. call'.phase = "wait" => call'.slot \in Slots /\ request'[call'.port][call'.slot] = Asked'
  <2> SUFFICES ASSUME Usable(p, s)
               PROVE  s \in Slots /\ request'[p][s] = asked /\ Asked' = asked
    BY <1>2
  <2>1. s \in Slots
    BY <1>1 DEF Usable
  <2>2. request'[p][s] = asked
    BY <1>2, <2>1 DEF IInv, TypeOK
  <2>3. Asked' = asked
    BY <1>2 DEF Asked
  <2> QED  BY <2>1, <2>2, <2>3
<1>5. call'.phase \in {"wait", "done"} /\ call'.ok = FALSE
  BY <1>2
<1> QED  BY <1>3, <1>4, <1>5 DEF Lonely

LEMMA DriverAlone ==
  ASSUME IInv, AloneInv, Driver
  PROVE  AloneInv'
<1>1. TypeOK /\ UNCHANGED <<request, err, mem, sector>>
  BY DEF IInv, Driver, Issue, DeviceBusy, Poll, Check
<1>2. call.phase \in {"wait", "poll", "check"}
  BY DEF Driver, Issue, DeviceBusy, Poll, Check
<1>3. call \in Call
  BY <1>1, <1>2, CallInHand
<1>4. \A f \in {"op", "port", "slot", "lba", "buf", "alone"} : call'[f] = call[f]
  BY <1>3 DEF Driver, Issue, DeviceBusy, Poll, Check, Return, Call
<1>5. /\ call'.op = call.op /\ call'.port = call.port /\ call'.slot = call.slot
      /\ call'.lba = call.lba /\ call'.buf = call.buf /\ call'.alone = call.alone
  BY <1>4
<1>6. Asked' = Asked /\ Agrees' = Agrees
  BY <1>1, <1>5 DEF Asked, Agrees
<1> SUFFICES ASSUME call.alone  PROVE Lonely'
  BY <1>5 DEF AloneInv
<1>7. Lonely
  BY <1>2 DEF AloneInv
<1>8. CASE Issue
  <2>1. call.phase = "wait" /\ call'.phase = "poll"
    BY <1>3, <1>8 DEF Issue, Call
  <2>2. \A q \in Ports : ci[q] = {}
    BY <1>7, <2>1 DEF Lonely
  <2>3. call.port \in Ports /\ call.slot \in Slots
    BY <1>3, <1>7, <2>1 DEF Lonely, Call
  <2>4. /\ call.slot \in ci'[call.port]
        /\ \A q \in Ports : \A t \in ci'[q] : q = call.port /\ t = call.slot
    BY <1>1, <1>8, <2>2, <2>3 DEF Issue, TypeOK
  <2> QED  BY <1>1, <1>5, <1>6, <1>7, <2>1, <2>4 DEF Lonely
<1>9. CASE DeviceBusy
  <2>1. /\ call.phase = "wait" /\ UNCHANGED ci
        /\ call'.phase = "wait" \/ (call'.phase = "done" /\ call'.ok = FALSE)
    BY <1>3, <1>9 DEF DeviceBusy, Return, Call
  <2> QED  BY <1>1, <1>5, <1>6, <1>7, <2>1 DEF Lonely
<1>10. CASE Poll
  <2>1. /\ call.phase = "poll" /\ UNCHANGED ci
        /\ \/ call'.phase = "check" /\ call.slot \notin ci[call.port]
           \/ call'.phase = "poll"
           \/ call'.phase = "done" /\ call'.ok = FALSE
    BY <1>3, <1>10 DEF Poll, Return, Call
  <2>2. call.slot \notin ci[call.port] => \A q \in Ports : ci[q] = {}
    BY <1>7 DEF Lonely
  <2> QED  BY <1>1, <1>5, <1>6, <1>7, <2>1, <2>2 DEF Lonely
<1>11. CASE Check
  <2>1. /\ call.phase = "check" /\ UNCHANGED ci
        /\ call'.phase = "done" /\ call'.ok = ~err[call.port]
    BY <1>3, <1>11 DEF Check, Return, Call
  <2> QED  BY <1>1, <1>5, <1>6, <1>7, <2>1 DEF Lonely
<1> QED  BY <1>8, <1>9, <1>10, <1>11 DEF Driver

(* What the controller does to the command of a call it finds alone.         *)
LEMMA CompleteAlone ==
  ASSUME IInv, AloneInv,
         NEW p \in Ports, NEW s \in Slots, NEW failed \in BOOLEAN, Complete(p, s, failed)
  PROVE  AloneInv'
<1>1. TypeOK /\ UNCHANGED <<request, call>> /\ s \in ci[p] /\ Asked' = Asked
      /\ ci' = [ci EXCEPT ![p] = @ \ {s}] /\ err' = [err EXCEPT ![p] = failed]
  BY DEF IInv, Complete, Asked
<1> SUFFICES ASSUME call.phase # "none", call.alone  PROVE Lonely'
  BY <1>1 DEF AloneInv
<1>2. Lonely /\ call \in Call
  BY <1>1, CallInHand DEF AloneInv
<1>3. /\ call.phase \in {"poll", "done"} /\ p = call.port /\ s = call.slot
      /\ call.phase = "done" => ~call.ok
  BY <1>1, <1>2 DEF Lonely
<1>4. \A q \in Ports : ci'[q] = {}
  BY <1>1, <1>2, <1>3 DEF Lonely, TypeOK
<1>5. CASE call.phase = "done"
  BY <1>1, <1>3, <1>4, <1>5 DEF Lonely
<1>6. CASE call.phase = "poll"
  <2>1. request[p][s] = Asked
    BY <1>2, <1>3, <1>6 DEF Lonely
  <2>2. call.op \in Operation /\ call.buf \in Buffers /\ call.lba \in Sectors
    BY <1>2 DEF Call
  <2>3. request[p][s].op = call.op /\ request[p][s].buf = call.buf /\ request[p][s].lba = call.lba
    BY <2>1 DEF Asked
  <2>4. CASE failed
    <3>1. err'[p] = TRUE
      BY <1>1, <2>4 DEF TypeOK
    <3> QED  BY <1>1, <1>2, <1>3, <1>4, <1>6, <3>1 DEF Lonely
  <2>5. CASE ~failed
    <3>1. Agrees'
      <4>1. CASE call.op = "read"
        <5>1. mem' = [mem EXCEPT ![call.buf] = sector[p][call.lba]] /\ sector' = sector
          BY <2>3, <2>5, <4>1 DEF Complete
        <5> QED  BY <1>1, <1>3, <2>2, <5>1 DEF Agrees, TypeOK
      <4>2. CASE call.op = "write"
        <5>1. mem' = mem /\ sector' = [sector EXCEPT ![p][call.lba] = mem[call.buf]]
          BY <2>3, <2>5, <4>2 DEF Complete
        <5> QED  BY <1>1, <1>3, <2>2, <5>1 DEF Agrees, TypeOK
      <4> QED  BY <2>2, <4>1, <4>2 DEF Operation
    <3> QED  BY <1>1, <1>2, <1>3, <1>4, <1>6, <3>1 DEF Lonely
  <2> QED  BY <2>4, <2>5
<1> QED  BY <1>3, <1>5, <1>6

LEMMA StepAlone == IInv /\ AloneInv /\ [Next]_vars => AloneInv'
<1> SUFFICES ASSUME IInv, AloneInv, [Next]_vars  PROVE AloneInv'
  OBVIOUS
<1>1. CASE UNCHANGED <<request, ci, err, mem, sector, call>>
  BY <1>1 DEF AloneInv, Lonely, Asked, Agrees
<1>2. CASE SetUpPort \/ UNCHANGED vars
  BY <1>1, <1>2 DEF SetUpPort, vars
<1> QED  BY <1>2, StartAlone, DriverAlone, CompleteAlone DEF Next

(* A call that returns 1, with nothing outstanding when it began, has moved  *)
(* its data: SuccessIsDone, whatever commands were given up before it.       *)
THEOREM SuccessWasDone == Spec => []SuccessIsDone
<1>1. Init => IInv /\ AloneInv
  BY InitInv DEF Init, NoCall, AloneInv
<1>2. IInv /\ AloneInv /\ [Next]_vars => IInv' /\ AloneInv'
  BY StepInv, StepAlone
<1>3. AloneInv => SuccessIsDone
  BY DEF AloneInv, Lonely, Agrees, SuccessIsDone
<1> QED  BY <1>1, <1>2, <1>3, PTL DEF Spec
=============================================================================

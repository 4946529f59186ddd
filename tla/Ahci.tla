-------------------------------- MODULE Ahci --------------------------------
(***************************************************************************)
(* The AHCI driver (ahci.c) and the pages it takes with alloc_phys         *)
(* (kernel.c): the set-up of the ports, and reads and writes of a sector,  *)
(* polled up to a limit, against a controller that completes a command     *)
(* when it likes, with or without an error, or never.                      *)
(*                                                                         *)
(* There is one call at a time: the driver is used at start-up and then in *)
(* the timer interrupt.  The controller works beside it, also on commands  *)
(* that a call has given up waiting for: nothing stops them, and their     *)
(* buffer, on the stack of the caller, serves the next call.               *)
(***************************************************************************)
EXTENDS Integers, FiniteSets

CONSTANTS
  MAX_PORTS,       \* ports of the controller (32)
  MAX_CMD_SLOTS,   \* commands a port can have outstanding (32)
  MAX_PAGES,       \* pages of the bitmap
  MARKED_PAGES,    \* kernel_pages: lowest pages, those init_phys marks (1024)
  POLLS,           \* times a wait looks at a register before it gives up
  Buffers,         \* addresses of the callers' buffers
  Sectors,         \* sectors of each disk
  Data             \* what a sector or a buffer may hold

NONE == -1         \* the null pointer

Ports == 0 .. MAX_PORTS - 1
Slots == 0 .. MAX_CMD_SLOTS - 1
Pages == 0 .. MAX_PAGES - 1
Operation == {"read", "write"}

ASSUME AhciAssumption ==
  /\ MAX_PORTS \in Nat  /\ MAX_CMD_SLOTS \in Nat
  /\ MAX_PAGES \in Nat  /\ MARKED_PAGES \in 0 .. MAX_PAGES
  /\ POLLS \in Nat

VARIABLES
  attached,     \* ports that are implemented and detect a disk
  next_port,    \* the port ahci_init looks at next; MAX_PORTS: it has returned
  port_count,   \* ports set up
  phys,         \* phys_bitmap: pages marked in use
  list, fis,    \* PORT_CLB and PORT_FB: pages of each port
  cmd_table,    \* cmd_table_cache: a page for each slot
  request,      \* what the table of each slot asks for
  ci,           \* PORT_CI: commands issued and not complete
  err,          \* PORT_TFD: the last completion was an error
  mem,          \* contents of the buffers
  sector,       \* contents of the disks
  call          \* the call in hand, or the last one

bootVars == <<attached, next_port, port_count, phys, list, fis, cmd_table>>
vars == <<bootVars, request, ci, err, mem, sector, call>>

NoRequest == [op |-> "none"]
Request == [op : Operation, lba : Sectors, buf : Buffers] \cup {NoRequest}

(* phase: where the call is; ok: its result, 1 or 0; alone: no command of an *)
(* earlier call was outstanding when it began.                               *)
Call ==
  [op : Operation, port : Ports, slot : Slots \cup {NONE}, lba : Sectors,
   buf : Buffers, phase : {"wait", "poll", "check", "done"}, polls : 0 .. POLLS,
   ok : BOOLEAN, alone : BOOLEAN]
NoCall == [phase |-> "none"]

-----------------------------------------------------------------------------
(* Set-up                                                                    *)

Init ==
  /\ attached \in SUBSET Ports
  /\ next_port = 0
  /\ port_count = 0
  /\ phys = 0 .. MARKED_PAGES - 1
  /\ list = [p \in Ports |-> NONE]
  /\ fis = [p \in Ports |-> NONE]
  /\ cmd_table = [p \in Ports |-> [s \in Slots |-> NONE]]
  /\ request = [p \in Ports |-> [s \in Slots |-> NoRequest]]
  /\ ci = [p \in Ports |-> {}]
  /\ err = [p \in Ports |-> FALSE]
  /\ mem \in [Buffers -> Data]
  /\ sector \in [Ports -> [Sectors -> Data]]
  /\ call = NoCall

NthFree_CountsFromMarked(marked, n) ==
  IF MARKED_PAGES + n \in Pages THEN MARKED_PAGES + n ELSE NONE

(* What call n + 1 of a row of alloc_phys(1) returns when the pages marked   *)
(* before the first are these: each takes the lowest page left.              *)
NthFree(marked, n) ==
  LET nth == {q \in Pages \ marked : Cardinality({k \in Pages \ marked : k < q}) = n}
  IN  IF nth = {} THEN NONE ELSE CHOOSE q \in nth : TRUE

(* ahci_port_init: a page for the command list, one for received FISes, one  *)
(* for the table of each slot as long as there are pages.                    *)
PortInit(p) ==
  LET tables == [s \in Slots |-> NthFree(phys, 2 + s)]
      clb    == NthFree(phys, 0)
      fb     == NthFree(phys, 1)
  IN  \/ /\ NONE \in {clb, fb}
         /\ phys' = phys \cup ({clb, fb} \ {NONE})
         /\ UNCHANGED <<port_count, list, fis, cmd_table>>
      \/ /\ NONE \notin {clb, fb}
         /\ phys' = phys \cup (({clb, fb} \cup {tables[s] : s \in Slots}) \ {NONE})
         /\ list' = [list EXCEPT ![p] = clb]
         /\ fis' = [fis EXCEPT ![p] = fb]
         /\ cmd_table' = [cmd_table EXCEPT ![p] = tables]
         /\ port_count' = port_count + 1

(* ahci_init: the ports one after the other. *)
SetUpPort ==
  /\ next_port < MAX_PORTS
  /\ next_port' = next_port + 1
  /\ \/ next_port \in attached /\ PortInit(next_port)
     \/ next_port \notin attached /\ UNCHANGED <<port_count, phys, list, fis, cmd_table>>
  /\ UNCHANGED <<attached, request, ci, err, mem, sector, call>>

-----------------------------------------------------------------------------
(* The driver                                                                *)

Idle == next_port = MAX_PORTS /\ call.phase \in {"none", "done"}

FreeSlot_Any(p) ==
  IF Slots = {} THEN NONE ELSE CHOOSE s \in Slots : \A k \in Slots : s <= k

(* The lowest slot whose bit in PORT_CI is clear. *)
FreeSlot(p) ==
  IF Slots \subseteq ci[p] THEN NONE
  ELSE CHOOSE s \in Slots \ ci[p] : \A k \in Slots \ ci[p] : s <= k

Usable_Slot(p, s) == s # NONE

(* ahci_read and ahci_write go on only with a free slot that has a table. *)
Usable(p, s) == s # NONE /\ cmd_table[p][s] # NONE

(* ahci_read and ahci_write up to ahci_exec_command_poll: take a slot and    *)
(* fill in its table and header, or return 0.  A caller that writes has put  *)
(* its data into the buffer.  block_init makes devices of ports              *)
(* 0 .. port_count - 1.                                                      *)
Start(op, p, lba, buf, data) ==
  LET s == FreeSlot(p)
      taken == Usable(p, s)
  IN  /\ Idle
      /\ p < port_count
      /\ mem' = IF op = "write" THEN [mem EXCEPT ![buf] = data] ELSE mem
      /\ request' = IF taken
                    THEN [request EXCEPT ![p][s] = [op |-> op, lba |-> lba, buf |-> buf]]
                    ELSE request
      /\ call' = [op |-> op, port |-> p, slot |-> s, lba |-> lba, buf |-> buf,
                  phase |-> IF taken THEN "wait" ELSE "done",
                  polls |-> 0, ok |-> FALSE,
                  alone |-> \A q \in Ports : ci[q] = {}]
      /\ UNCHANGED <<bootVars, ci, err, sector>>

Return(ok) == call' = [call EXCEPT !.phase = "done", !.ok = ok]

(* ahci_wait_for_bsy finds the device ready: the command is issued. *)
Issue ==
  /\ call.phase = "wait"
  /\ ci' = [ci EXCEPT ![call.port] = @ \cup {call.slot}]
  /\ call' = [call EXCEPT !.phase = "poll", !.polls = 0]
  /\ UNCHANGED <<bootVars, request, err, mem, sector>>

(* ahci_wait_for_bsy finds BSY set, and gives up in the end. *)
DeviceBusy ==
  /\ call.phase = "wait"
  /\ IF call.polls < POLLS
     THEN call' = [call EXCEPT !.polls = @ + 1]
     ELSE Return(FALSE)
  /\ UNCHANGED <<bootVars, request, ci, err, mem, sector>>

Poll_NoLimit ==
  /\ call.phase = "poll"
  /\ IF call.slot \notin ci[call.port]
     THEN call' = [call EXCEPT !.phase = "check"]
     ELSE call' = call
  /\ UNCHANGED <<bootVars, request, ci, err, mem, sector>>

Poll_GivesUpWithSuccess ==
  /\ call.phase = "poll"
  /\ IF call.slot \notin ci[call.port]
     THEN call' = [call EXCEPT !.phase = "check"]
     ELSE IF call.polls < POLLS
     THEN call' = [call EXCEPT !.polls = @ + 1]
     ELSE Return(TRUE)
  /\ UNCHANGED <<bootVars, request, ci, err, mem, sector>>

(* ahci_exec_command_poll reads PORT_CI; in the end it gives up, and leaves  *)
(* the command where it is.                                                  *)
Poll ==
  /\ call.phase = "poll"
  /\ IF call.slot \notin ci[call.port]
     THEN call' = [call EXCEPT !.phase = "check"]
     ELSE IF call.polls < POLLS
     THEN call' = [call EXCEPT !.polls = @ + 1]
     ELSE Return(FALSE)
  /\ UNCHANGED <<bootVars, request, ci, err, mem, sector>>

(* The command is complete; PORT_TFD says how. *)
Check ==
  /\ call.phase = "check"
  /\ Return(~err[call.port])
  /\ UNCHANGED <<bootVars, request, ci, err, mem, sector>>

Driver == Issue \/ DeviceBusy \/ Poll \/ Check

-----------------------------------------------------------------------------
(* The controller: it takes a command as the table has it now, moves the     *)
(* data unless it fails, and clears the bit.                                 *)
Complete(p, s, failed) ==
  LET asked == request[p][s] IN
  /\ s \in ci[p]
  /\ ci' = [ci EXCEPT ![p] = @ \ {s}]
  /\ err' = [err EXCEPT ![p] = failed]
  /\ mem' = IF asked.op = "read" /\ ~failed
            THEN [mem EXCEPT ![asked.buf] = sector[p][asked.lba]] ELSE mem
  /\ sector' = IF asked.op = "write" /\ ~failed
               THEN [sector EXCEPT ![p][asked.lba] = mem[asked.buf]] ELSE sector
  /\ UNCHANGED <<bootVars, request, call>>

Next ==
  \/ SetUpPort
  \/ \E op \in Operation, p \in Ports, lba \in Sectors, buf \in Buffers, data \in Data :
       Start(op, p, lba, buf, data)
  \/ Driver
  \/ \E p \in Ports, s \in Slots, failed \in BOOLEAN : Complete(p, s, failed)

(* The processor goes on; the controller need not.                           *)
Spec == Init /\ [][Next]_vars /\ WF_vars(Driver)

-----------------------------------------------------------------------------
(* Properties                                                                *)

TypeOK ==
  /\ attached \subseteq Ports
  /\ next_port \in 0 .. MAX_PORTS
  /\ port_count \in 0 .. next_port
  /\ phys \subseteq Pages
  /\ list \in [Ports -> Pages \cup {NONE}]
  /\ fis \in [Ports -> Pages \cup {NONE}]
  /\ cmd_table \in [Ports -> [Slots -> Pages \cup {NONE}]]
  /\ request \in [Ports -> [Slots -> Request]]
  /\ ci \in [Ports -> SUBSET Slots]
  /\ err \in [Ports -> BOOLEAN]
  /\ mem \in [Buffers -> Data]
  /\ sector \in [Ports -> [Sectors -> Data]]
  /\ call \in Call \cup {NoCall}

(* The structures the controller reads lie in pages of their own, marked in  *)
(* use in the bitmap, and none of them in a page init_phys marked before.    *)
(* Nothing is said of what else may lie in these pages: heap[] is in memory  *)
(* the bitmap counts as free.                                                *)
PagesApart ==
  \A p, q \in Ports :
    /\ {list[p], fis[p]} \cup {cmd_table[p][s] : s \in Slots}
         \subseteq (phys \ (0 .. MARKED_PAGES - 1)) \cup {NONE}
    /\ list[p] # NONE => list[p] \notin {fis[q]} \cup {cmd_table[q][s] : s \in Slots}
    /\ fis[p] # NONE => fis[p] \notin {cmd_table[q][s] : s \in Slots}
    /\ \A s, t \in Slots :
         cmd_table[p][s] = cmd_table[q][t] /\ <<p, s>> # <<q, t>> => cmd_table[p][s] = NONE
    /\ p # q /\ list[p] # NONE => list[p] # list[q] /\ fis[p] # fis[q]

(* A command is issued only on a port that was set up, in a slot that has a  *)
(* table and asks for something.                                             *)
OnlyReadyPorts ==
  \A p \in Ports : \A s \in ci[p] :
    list[p] # NONE /\ cmd_table[p][s] # NONE /\ request[p][s] # NoRequest

(* The table of a command that is outstanding is never written, a timed-out  *)
(* one included: the controller would go on with another buffer or sector.   *)
OutstandingUntouched ==
  [][\A p \in Ports : \A s \in ci[p] : request'[p][s] = request[p][s]]_vars

(* A call that returns 1, and began with nothing outstanding, has done what  *)
(* it was asked: buffer and sector agree.                                    *)
SuccessIsDone ==
  call.phase = "done" =>
    (call.ok /\ call.alone => mem[call.buf] = sector[call.port][call.lba])

(* A call returns whatever the controller does. *)
CallsReturn ==
  call.phase \in {"wait", "poll", "check"} ~> call.phase = "done"
=============================================================================

------------------------------ MODULE KeyRing ------------------------------
(***************************************************************************)
(* The keyboard buffer (keyboard_buffer.c): a ring of scan codes that the  *)
(* keyboard interrupt fills and the console, in the timer interrupt,       *)
(* empties.  Interrupts do not nest, so each function is one step.         *)
(***************************************************************************)
EXTENDS Integers, Sequences

CONSTANTS
  KEYBUF_SIZE,   \* slots of the ring (256 in the code)
  Scancodes      \* bytes the keyboard sends

ASSUME KeyRingAssumption ==
  KEYBUF_SIZE \in Nat \ {0, 1} /\ Scancodes \subseteq 1 .. 255

VARIABLES keybuf, key_head, key_tail

ringVars == <<keybuf, key_head, key_tail>>

Places == 0 .. KEYBUF_SIZE - 1

After(i) == (i + 1) % KEYBUF_SIZE

RingInit ==
  /\ keybuf = [i \in Places |-> 0]
  /\ key_head = 0
  /\ key_tail = 0

HasKey   == key_tail # key_head          \* has_key
FrontKey == keybuf[key_tail]             \* what get_key returns
RingFull == After(key_head) = key_tail

StoreKey_NotChecked(sc) ==
  /\ keybuf' = [keybuf EXCEPT ![key_head] = sc]
  /\ key_head' = After(key_head)
  /\ UNCHANGED key_tail

(* keyboard_handler when there is room ... *)
StoreKey(sc) ==
  /\ ~RingFull
  /\ keybuf' = [keybuf EXCEPT ![key_head] = sc]
  /\ key_head' = After(key_head)
  /\ UNCHANGED key_tail

(* ... and when there is none: the new code is lost. *)
RefuseKey == RingFull /\ UNCHANGED ringVars

(* get_key, which does nothing on an empty ring *)
GetKey ==
  /\ HasKey
  /\ key_tail' = After(key_tail)
  /\ UNCHANGED <<keybuf, key_head>>

(* flush_keys *)
FlushKeys ==
  /\ key_tail' = key_head
  /\ UNCHANGED <<keybuf, key_head>>

RingNext ==
  \/ \E sc \in Scancodes : StoreKey(sc)
  \/ RefuseKey
  \/ GetKey
  \/ FlushKeys

RingSpec == RingInit /\ [][RingNext]_ringVars

-----------------------------------------------------------------------------

RingTypeOK ==
  /\ keybuf \in [Places -> Scancodes \cup {0}]
  /\ key_head \in Places
  /\ key_tail \in Places

(* The codes in the ring, the oldest first. *)
Held == IF key_tail <= key_head THEN key_head - key_tail
        ELSE key_head - key_tail + KEYBUF_SIZE
Place(i) == IF key_tail + i < KEYBUF_SIZE THEN key_tail + i
            ELSE key_tail + i - KEYBUF_SIZE
Queue == [i \in 1 .. Held |-> keybuf[Place(i - 1)]]

Fifo == INSTANCE KeyFifo WITH
  Capacity <- KEYBUF_SIZE - 1, queue <- Queue, gone <- key_tail

(* The ring is the queue KeyFifo: codes come out once, in order, none that   *)
(* was not put in, and a full ring loses the newest code, never the oldest:  *)
(* the keyboard interrupt takes none away.                                   *)
IsFifo == Fifo!Spec
=============================================================================

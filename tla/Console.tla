------------------------------ MODULE Console ------------------------------
(***************************************************************************)
(* The prompt (read_line of kernel.c) over the keyboard ring: a key of the *)
(* user is one or more scan codes, one keyboard interrupt stores each, and *)
(* each timer tick (console_func) takes at most one key out of the ring.   *)
(* The ring is KeyRing; what the prompt should be is LineEditor.           *)
(*                                                                         *)
(* Drawing and the cursor of the screen are left out.  The command is run  *)
(* inside the tick that completes the line: only its text is kept here.    *)
(***************************************************************************)
EXTENDS KeyRing

CONSTANTS
  MAX_LEN,    \* size of input_buffer, and max_len of read_line (256)
  Keys        \* what the user does at the keyboard, a subset of DOMAIN Wire

VARIABLES
  input_buffer, input_len, input_pos, input_active, shift, caps,
  line,       \* the last line read_line returned
  wire,       \* codes of the last key that have not been sent yet
  intact,     \* history: no code was refused, flushed, or torn from its pair
  ideal       \* history: the editor, were each key taken whole; while intact

editVars == <<input_buffer, input_len, input_pos, input_active, shift, caps, line>>
vars == <<ringVars, editVars, wire, intact, ideal>>

LETTER    == \h1E
LETTER_UP == \h9E
DIGIT     == \h02
ENTER     == \h1C
BACKSPACE == \h0E
LSHIFT    == \h2A
LSHIFT_UP == \hAA
CAPS      == \h3A
EXTENDED  == \hE0
LEFT      == \h4B
RIGHT     == \h4D

(* The codes of a key, in scan code set 1.  With Num Lock on, an arrow key   *)
(* is sent inside a made-up shift.                                           *)
Wire ==
  [letter |-> <<LETTER>>, digit |-> <<DIGIT>>, enter |-> <<ENTER>>,
   backspace |-> <<BACKSPACE>>, shift |-> <<LSHIFT>>, unshift |-> <<LSHIFT_UP>>,
   caps |-> <<CAPS>>, release |-> <<LETTER_UP>>,
   left |-> <<EXTENDED, LEFT>>, right |-> <<EXTENDED, RIGHT>>,
   numleft |-> <<EXTENDED, LSHIFT, EXTENDED, LEFT>>]

ASSUME ConsoleAssumption ==
  /\ MAX_LEN \in Nat \ {0}
  /\ Keys \subseteq DOMAIN Wire
  /\ Scancodes = {LETTER, DIGIT, ENTER, BACKSPACE, LSHIFT, LSHIFT_UP, CAPS,
                  EXTENDED, LEFT, RIGHT, LETTER_UP}

(* A character of the line: the key, and whether it is the shifted one.     *)
Chars == [key : {LETTER, DIGIT}, upper : BOOLEAN]
NUL == [key |-> 0, upper |-> FALSE]

(* Caps Lock reverses Shift for letters, and does nothing without Shift.     *)
CharOf(sc, sh, cp) == [key |-> sc, upper |-> sh /\ ~(sc = LETTER /\ cp)]

Text(from, to) == [i \in 1 .. to - from |-> input_buffer[from + i - 1]]

Editor == INSTANCE LineEditor WITH
  MaxLine <- MAX_LEN - 1,
  ed <- [left  |-> IF input_active THEN Text(0, input_pos) ELSE <<>>,
         right |-> IF input_active THEN Text(input_pos, input_len) ELSE <<>>,
         line  |-> line]

Untouched == [ed |-> Editor!Empty, shift |-> FALSE, caps |-> FALSE]

(* The history of a code that came through, or did not. *)
Keep(ok) == intact' = (intact /\ ok) /\ ideal' = IF intact /\ ok THEN ideal ELSE Untouched

-----------------------------------------------------------------------------

Init ==
  /\ RingInit
  /\ input_buffer = [i \in 0 .. MAX_LEN - 1 |-> NUL]
  /\ input_len = 0 /\ input_pos = 0 /\ input_active = FALSE
  /\ shift = FALSE /\ caps = FALSE
  /\ line = <<>>
  /\ wire = <<>>
  /\ intact = TRUE
  /\ ideal = Untouched

(* What the key means to the user. *)
Meant(key) ==
  LET e == ideal.ed IN
  CASE key \in {"letter", "digit"} ->
         [ideal EXCEPT !.ed = Editor!Insert(e, CharOf(Wire[key][1], ideal.shift, ideal.caps))]
    [] key = "backspace"           -> [ideal EXCEPT !.ed = Editor!Erase(e)]
    [] key \in {"left", "numleft"} -> [ideal EXCEPT !.ed = Editor!CursorLeft(e)]
    [] key = "right"               -> [ideal EXCEPT !.ed = Editor!CursorRight(e)]
    [] key = "enter"               -> [ideal EXCEPT !.ed = Editor!Submit(e)]
    [] key = "caps"                -> [ideal EXCEPT !.caps = ~ideal.caps]
    [] key = "shift"               -> [ideal EXCEPT !.shift = TRUE]
    [] key = "unshift"             -> [ideal EXCEPT !.shift = FALSE]
    [] key = "release"             -> ideal

(* The user touches a key. *)
Press(key) ==
  /\ wire = <<>>
  /\ wire' = Wire[key]
  /\ ideal' = IF intact THEN Meant(key) ELSE Untouched
  /\ UNCHANGED <<ringVars, editVars, intact>>

(* keyboard_handler *)
KeyboardInterrupt ==
  /\ wire # <<>>
  /\ StoreKey(Head(wire)) \/ RefuseKey
  /\ wire' = Tail(wire)
  /\ Keep(~RingFull)
  /\ UNCHANGED editVars

InputStart_KeepsLength ==
  /\ ~input_active
  /\ input_pos' = 0 /\ input_active' = TRUE
  /\ FlushKeys
  /\ Keep(~HasKey)
  /\ UNCHANGED <<input_buffer, input_len, shift, caps, line, wire>>

(* input_start, at the first tick after a line: what has been typed since   *)
(* then is thrown away, and read_line finds no key.                         *)
InputStart ==
  /\ ~input_active
  /\ input_len' = 0 /\ input_pos' = 0 /\ input_active' = TRUE
  /\ FlushKeys
  /\ Keep(~HasKey)
  /\ UNCHANGED <<input_buffer, shift, caps, line, wire>>

(* The next key is sc, and read_line takes it. *)
Takes(sc) == input_active /\ FrontKey = sc /\ GetKey /\ UNCHANGED wire

LoneExtended_Waits ==
  /\ input_active /\ HasKey /\ FrontKey = EXTENDED
  /\ After(key_tail) = key_head
  /\ UNCHANGED vars

(* The prefix of an extended key is alone in the ring: it is dropped, and   *)
(* the code that follows will be read without it.                           *)
LoneExtended ==
  /\ Takes(EXTENDED)
  /\ After(key_tail) = key_head
  /\ Keep(FALSE)
  /\ UNCHANGED editVars

(* An extended key: the arrows move the cursor, no other one does anything. *)
ExtendedKey ==
  /\ input_active /\ HasKey /\ FrontKey = EXTENDED
  /\ After(key_tail) # key_head
  /\ key_tail' = After(After(key_tail))
  /\ LET sc2 == keybuf[After(key_tail)] IN
     input_pos' = CASE sc2 = LEFT  /\ input_pos > 0         -> input_pos - 1
                    [] sc2 = RIGHT /\ input_pos < input_len -> input_pos + 1
                    [] OTHER -> input_pos
  /\ UNCHANGED <<keybuf, key_head, wire, intact, ideal, input_buffer, input_len,
                 input_active, shift, caps, line>>

ModifierKey_ReleaseUnseen ==
  /\ Takes(LSHIFT) \/ Takes(LSHIFT_UP) \/ Takes(CAPS)
  /\ shift' = (shift \/ FrontKey = LSHIFT)
  /\ caps' = IF FrontKey = CAPS THEN ~caps ELSE caps
  /\ UNCHANGED <<input_buffer, input_len, input_pos, input_active, line, intact, ideal>>

ModifierKey ==
  /\ Takes(LSHIFT) \/ Takes(LSHIFT_UP) \/ Takes(CAPS)
  /\ shift' = IF FrontKey = CAPS THEN shift ELSE FrontKey = LSHIFT
  /\ caps' = IF FrontKey = CAPS THEN ~caps ELSE caps
  /\ UNCHANGED <<input_buffer, input_len, input_pos, input_active, line, intact, ideal>>

(* Releases, and keys scancode_table has no character for. *)
SilentKey ==
  /\ \E sc \in {LETTER_UP, LEFT, RIGHT} : Takes(sc)
  /\ UNCHANGED <<editVars, intact, ideal>>

(* The line goes to the shell. *)
EnterKey ==
  /\ Takes(ENTER)
  /\ line' = Text(0, input_len)
  /\ input_active' = FALSE
  /\ UNCHANGED <<input_buffer, input_len, input_pos, shift, caps, intact, ideal>>

BackspaceKey ==
  /\ Takes(BACKSPACE)
  /\ IF input_pos > 0
     THEN /\ input_buffer' =
               [j \in DOMAIN input_buffer |->
                  IF j \in input_pos - 1 .. input_len - 2
                  THEN input_buffer[j + 1] ELSE input_buffer[j]]
          /\ input_len' = input_len - 1
          /\ input_pos' = input_pos - 1
     ELSE UNCHANGED <<input_buffer, input_len, input_pos>>
  /\ UNCHANGED <<input_active, shift, caps, line, intact, ideal>>

CharacterKey_Overwrites ==
  /\ Takes(LETTER) \/ Takes(DIGIT)
  /\ IF input_len < MAX_LEN - 1
     THEN /\ input_buffer' = [input_buffer EXCEPT ![input_pos] = CharOf(FrontKey, shift, caps)]
          /\ input_len' = input_len + 1
          /\ input_pos' = input_pos + 1
     ELSE UNCHANGED <<input_buffer, input_len, input_pos>>
  /\ UNCHANGED <<input_active, shift, caps, line, intact, ideal>>

(* A character goes in at the cursor, when the line has room. *)
CharacterKey ==
  /\ Takes(LETTER) \/ Takes(DIGIT)
  /\ IF input_len < MAX_LEN - 1
     THEN /\ input_buffer' =
               [j \in DOMAIN input_buffer |->
                  IF j = input_pos THEN CharOf(FrontKey, shift, caps)
                  ELSE IF j \in input_pos + 1 .. input_len
                  THEN input_buffer[j - 1] ELSE input_buffer[j]]
          /\ input_len' = input_len + 1
          /\ input_pos' = input_pos + 1
     ELSE UNCHANGED <<input_buffer, input_len, input_pos>>
  /\ UNCHANGED <<input_active, shift, caps, line, intact, ideal>>

(* read_line, once in each timer tick *)
Tick ==
  \/ InputStart \/ LoneExtended \/ ExtendedKey \/ ModifierKey
  \/ SilentKey \/ EnterKey \/ BackspaceKey \/ CharacterKey

Next == (\E key \in Keys : Press(key)) \/ KeyboardInterrupt \/ Tick

Spec == Init /\ [][Next]_vars /\ WF_vars(Tick)

-----------------------------------------------------------------------------

TypeOK ==
  /\ RingTypeOK
  /\ input_buffer \in [0 .. MAX_LEN - 1 -> Chars \cup {NUL}]
  /\ input_len \in 0 .. MAX_LEN - 1
  /\ input_pos \in 0 .. input_len
  /\ {input_active, shift, caps, intact} \subseteq BOOLEAN
  /\ line \in Seq(Chars)
  /\ wire \in Seq(Scancodes)

(* Whatever comes out of the ring, lost or torn codes included, each tick is *)
(* one operation of a line editor, and the shell gets the line on the screen. *)
EditsALine == Editor!Spec

(* Once the ring has been emptied, the line, the cursor, the shift state and *)
(* the last line given to the shell are those of the keys the user pressed,  *)
(* provided no code was refused, flushed or torn: nothing else goes wrong    *)
(* between the two interrupts.                                               *)
TypedIsRead ==
  intact /\ wire = <<>> /\ ~HasKey =>
    /\ ideal.shift = shift
    /\ ideal.caps = caps
    /\ ideal.ed = [left  |-> IF input_active THEN Text(0, input_pos) ELSE <<>>,
                   right |-> IF input_active THEN Text(input_pos, input_len) ELSE <<>>,
                   line  |-> line]

(* A code in the ring is read or flushed in the end: the timer does not stop. *)
KeysGetRead == \A t \in Places : HasKey /\ key_tail = t ~> key_tail # t
=============================================================================

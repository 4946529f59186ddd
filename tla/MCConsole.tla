----------------------------- MODULE MCConsole -----------------------------
(* The prompt for TLC: editing a line, and keys of up to four codes around   *)
(* the Shift key.                                                            *)
EXTENDS Console

MCScancodes == {LETTER, DIGIT, ENTER, BACKSPACE, LSHIFT, LSHIFT_UP, CAPS,
                EXTENDED, LEFT, RIGHT, LETTER_UP}

EditKeys  == {"letter", "digit", "backspace", "left", "right", "enter"}
ShiftKeys == {"letter", "shift", "unshift", "caps", "numleft", "backspace"}
=============================================================================

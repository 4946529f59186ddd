----------------------------- MODULE LineEditor -----------------------------
(***************************************************************************)
(* A line editor: the text before and after the cursor, and the last line  *)
(* given to the shell.  What the prompt promises of the keys it has.       *)
(***************************************************************************)
EXTENDS Naturals, Sequences, SequencesExt

CONSTANTS MaxLine, Chars   \* characters a line can hold; what can be typed

VARIABLE ed

Empty == [left |-> <<>>, right |-> <<>>, line |-> <<>>]

Insert(e, c) ==
  IF Len(e.left) + Len(e.right) < MaxLine THEN [e EXCEPT !.left = Append(@, c)] ELSE e

Erase(e) == IF e.left = <<>> THEN e ELSE [e EXCEPT !.left = Front(@)]

CursorLeft(e) ==
  IF e.left = <<>> THEN e
  ELSE [e EXCEPT !.left = Front(@), !.right = <<Last(e.left)>> \o @]

CursorRight(e) ==
  IF e.right = <<>> THEN e
  ELSE [e EXCEPT !.left = Append(@, Head(e.right)), !.right = Tail(@)]

Submit(e) == [left |-> <<>>, right |-> <<>>, line |-> e.left \o e.right]

Init == ed = Empty

Next == \/ \E c \in Chars : ed' = Insert(ed, c)
        \/ ed' \in {Erase(ed), CursorLeft(ed), CursorRight(ed), Submit(ed)}

Spec == Init /\ [][Next]_ed
=============================================================================

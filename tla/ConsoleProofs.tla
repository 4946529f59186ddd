---------------------------- MODULE ConsoleProofs ----------------------------
(***************************************************************************)
(* That the ring of the keyboard is the queue KeyFifo, and the prompt a    *)
(* line editor, for a ring and a line of any length, whatever codes come;  *)
(* and that the keys typed are the keys read, while no code is lost.       *)
(***************************************************************************)
EXTENDS Console, TLAPS, SequenceTheorems

-----------------------------------------------------------------------------
(* The ring                                                                 *)

LEMMA AfterWraps ==
  ASSUME NEW i \in Places
  PROVE  /\ After(i) \in Places
         /\ After(i) = IF i + 1 = KEYBUF_SIZE THEN 0 ELSE i + 1
BY KeyRingAssumption, SMT DEF Places, After

(* The indices and the codes stay in range: RingTypeOK.                      *)
THEOREM RingTypeCorrect == RingSpec => []RingTypeOK
<1>1. RingInit => RingTypeOK
  BY KeyRingAssumption DEF RingInit, RingTypeOK, Places
<1>2. RingTypeOK /\ [RingNext]_ringVars => RingTypeOK'
  BY AfterWraps DEF RingTypeOK, RingNext, ringVars, StoreKey, RefuseKey, GetKey, FlushKeys
<1> QED  BY <1>1, <1>2, PTL DEF RingSpec

(* The index n places on from the reader's, wrapped.                         *)
LEMMA PlaceWraps ==
  ASSUME RingTypeOK, NEW n \in 0 .. KEYBUF_SIZE - 1
  PROVE  Place(n) = (key_tail + n) % (KEYBUF_SIZE - 1 + 1)
<1>1. KEYBUF_SIZE - 1 + 1 = KEYBUF_SIZE /\ KEYBUF_SIZE \in Nat \ {0}
  BY KeyRingAssumption
<1>2. key_tail \in Nat /\ key_tail < KEYBUF_SIZE
  BY KeyRingAssumption DEF RingTypeOK, Places
<1>3. CASE key_tail + n < KEYBUF_SIZE
  BY <1>1, <1>2, <1>3, SMT DEF Place
<1>4. CASE key_tail + n >= KEYBUF_SIZE
  BY <1>1, <1>2, <1>4, SMT DEF Place
<1> QED  BY <1>1, <1>2, <1>3, <1>4

(* How many codes the ring holds: never KEYBUF_SIZE, one slot stays free.    *)
LEMMA HeldBounds ==
  ASSUME RingTypeOK
  PROVE  /\ Held \in 0 .. KEYBUF_SIZE - 1
         /\ HasKey <=> Held > 0
         /\ RingFull <=> Held = KEYBUF_SIZE - 1
<1>1. After(key_head) = IF key_head + 1 = KEYBUF_SIZE THEN 0 ELSE key_head + 1
  BY AfterWraps DEF RingTypeOK
<1> QED  BY <1>1, KeyRingAssumption DEF RingTypeOK, Held, HasKey, RingFull, Places

LEMMA QueueIsSeq ==
  ASSUME RingTypeOK
  PROVE  /\ Queue \in Seq(Scancodes \cup {0})
         /\ Len(Queue) = Held
         /\ \A i \in 1 .. Held : Queue[i] = keybuf[Place(i - 1)] /\ Place(i - 1) \in Places
<1>1. Held \in Nat /\ Held < KEYBUF_SIZE
  BY HeldBounds, KeyRingAssumption
<1>2. \A i \in 1 .. Held : Place(i - 1) \in Places
  BY <1>1, KeyRingAssumption DEF Place, Places, RingTypeOK
<1>3. \A i \in 1 .. Held : keybuf[Place(i - 1)] \in Scancodes \cup {0}
  BY <1>2 DEF RingTypeOK
<1> QED  BY <1>1, <1>2, <1>3 DEF Queue

LEMMA StoreIsPut ==
  ASSUME RingTypeOK, RingTypeOK', NEW sc \in Scancodes, StoreKey(sc)
  PROVE  Fifo!Put(sc)
<1>1. Held < KEYBUF_SIZE - 1 /\ Held \in Nat
  BY HeldBounds, KeyRingAssumption DEF StoreKey
<1>2. After(key_head) = IF key_head + 1 = KEYBUF_SIZE THEN 0 ELSE key_head + 1
  BY AfterWraps DEF RingTypeOK
<1>3. Held' = Held + 1
  BY <1>1, <1>2, KeyRingAssumption DEF StoreKey, Held, RingTypeOK, Places
<1>4. Place(Held) = key_head
  BY <1>1, KeyRingAssumption DEF Place, Held, RingTypeOK, Places
<1>5. \A i \in 1 .. Held : Place(i - 1) # key_head
  BY <1>1, KeyRingAssumption DEF Place, Held, RingTypeOK, Places
<1>6. \A i \in 1 .. Held + 1 : Place(i - 1)' = Place(i - 1)
  BY DEF Place, StoreKey
<1>7. \A i \in 1 .. Held + 1 :
        keybuf'[Place(i - 1)] = IF i = Held + 1 THEN sc ELSE keybuf[Place(i - 1)]
  <2>1. keybuf' = [keybuf EXCEPT ![key_head] = sc] /\ keybuf \in [Places -> Scancodes \cup {0}]
        /\ key_head \in Places
    BY DEF StoreKey, RingTypeOK
  <2>2. \A i \in 1 .. Held : Place(i - 1) \in Places
    BY QueueIsSeq
  <2>3. keybuf'[Place(Held)] = sc
    BY <2>1, <1>4
  <2>4. \A i \in 1 .. Held : keybuf'[Place(i - 1)] = keybuf[Place(i - 1)]
    BY <2>1, <2>2, <1>5
  <2> QED  BY <2>3, <2>4, <1>1
<1>8. Queue' = Append(Queue, sc)
  <2> DEFINE S == Scancodes \cup {0}
             T == Append(Queue, sc)
  <2>1. Queue \in Seq(S) /\ Len(Queue) = Held
    BY QueueIsSeq
  <2>2. /\ T \in Seq(S)
        /\ Len(T) = Held + 1
        /\ \A i \in 1 .. Held : T[i] = Queue[i]
        /\ T[Held + 1] = sc
    BY <2>1, AppendProperties
  <2>3. Queue' \in Seq(S) /\ Len(Queue') = Held + 1
    <3>1. (Queue \in Seq(S) /\ Len(Queue) = Held)'
      BY QueueIsSeq, PTL
    <3> QED  BY <3>1, <1>3
  <2>4. \A i \in 1 .. Held + 1 : Queue'[i] = T[i]
    <3>1. Queue' = [i \in 1 .. Held + 1 |-> keybuf'[Place(i - 1)]]
      BY <1>3, <1>6 DEF Queue
    <3>2. \A i \in 1 .. Held : Queue[i] = keybuf[Place(i - 1)]
      BY QueueIsSeq
    <3> QED  BY <3>1, <3>2, <2>2, <1>1, <1>7
  <2>5. Len(Queue') = Len(T) /\ \A i \in 1 .. Len(Queue') : Queue'[i] = T[i]
    BY <2>2, <2>3, <2>4
  <2> HIDE DEF S, T
  <2>6. Queue' = T
    BY <2>2, <2>3, <2>5, SeqEqual
  <2> QED  BY <2>6 DEF T
<1> QED  BY <1>1, <1>8, QueueIsSeq DEF Fifo!Put, StoreKey

LEMMA GetIsTake ==
  ASSUME RingTypeOK, RingTypeOK', GetKey
  PROVE  Fifo!Take
<1>1. Held > 0 /\ Held < KEYBUF_SIZE /\ Held \in Nat
  BY HeldBounds, KeyRingAssumption DEF GetKey
<1>2. After(key_tail) = IF key_tail + 1 = KEYBUF_SIZE THEN 0 ELSE key_tail + 1
  BY AfterWraps DEF RingTypeOK
<1>3. Held' = Held - 1
  BY <1>1, <1>2, KeyRingAssumption DEF GetKey, Held, RingTypeOK, Places
<1>4. \A i \in 1 .. Held - 1 : Place(i - 1)' = Place(i)
  BY <1>1, <1>2, KeyRingAssumption DEF GetKey, Place, RingTypeOK, Places
<1>5. Queue' = [i \in 1 .. Held - 1 |-> Queue[i + 1]]
  <2>1. Queue' = [i \in 1 .. Held - 1 |-> keybuf[Place(i)]]
    BY <1>3, <1>4 DEF Queue, GetKey
  <2>2. \A i \in 1 .. Held - 1 : Queue[i + 1] = keybuf[Place(i)]
    BY <1>1, QueueIsSeq
  <2> QED  BY <2>1, <2>2
<1>6. Queue' = SubSeq(Queue, 2, Len(Queue))
  BY <1>1, <1>5, QueueIsSeq
<1>7. key_tail' = (key_tail + 1) % (KEYBUF_SIZE - 1 + 1)
  BY KeyRingAssumption DEF GetKey, After
<1> QED  BY <1>1, <1>6, <1>7, QueueIsSeq DEF Fifo!Take

LEMMA FlushIsTake ==
  ASSUME RingTypeOK, RingTypeOK', FlushKeys
  PROVE  Fifo!Take \/ UNCHANGED <<Queue, key_tail>>
<1>1. Held' = 0
  BY DEF FlushKeys, Held, RingTypeOK, Places
<1>2. Queue' = <<>>
  BY <1>1 DEF Queue
<1>3. Held \in Nat
  BY HeldBounds, KeyRingAssumption
<1>4. CASE Held = 0
  BY <1>2, <1>4, HeldBounds DEF Queue, FlushKeys, HasKey
<1>5. CASE Held > 0
  <2>1. Queue' = SubSeq(Queue, Held + 1, Len(Queue))
    BY <1>2, <1>3, QueueIsSeq
  <2>2. Held \in 0 .. KEYBUF_SIZE - 1 /\ key_tail' = Place(Held)
    BY HeldBounds, KeyRingAssumption DEF FlushKeys, Place, Held, RingTypeOK, Places
  <2>3. key_tail' = (key_tail + Held) % (KEYBUF_SIZE - 1 + 1)
    BY <2>2, PlaceWraps
  <2> QED  BY <2>1, <2>3, <1>3, <1>5, QueueIsSeq DEF Fifo!Take
<1> QED  BY <1>3, <1>4, <1>5

(* The ring implements the queue: IsFifo.                                    *)
THEOREM RingIsFifo == RingSpec => IsFifo
<1>1. RingInit => Fifo!Init
  BY KeyRingAssumption DEF RingInit, Fifo!Init, Queue, Held, Places
<1>2. RingTypeOK /\ RingTypeOK' /\ [RingNext]_ringVars => [Fifo!Next]_<<Queue, key_tail>>
  <2> SUFFICES ASSUME RingTypeOK, RingTypeOK', [RingNext]_ringVars
               PROVE  Fifo!Next \/ UNCHANGED <<Queue, key_tail>>
    OBVIOUS
  <2>1. ASSUME NEW sc \in Scancodes, StoreKey(sc) PROVE Fifo!Next
    BY <2>1, StoreIsPut DEF Fifo!Next
  <2>2. CASE GetKey
    BY <2>2, GetIsTake DEF Fifo!Next
  <2>3. CASE FlushKeys
    BY <2>3, FlushIsTake DEF Fifo!Next
  <2>4. CASE UNCHANGED ringVars
    BY <2>4 DEF ringVars, Queue, Held, Place
  <2> QED  BY <2>1, <2>2, <2>3, <2>4 DEF RingNext, RefuseKey
<1> QED  BY <1>1, <1>2, RingTypeCorrect, PTL DEF RingSpec, IsFifo, Fifo!Spec

-----------------------------------------------------------------------------
(* The prompt                                                               *)

LEMMA CodesAreScancodes ==
  {LETTER, DIGIT, ENTER, BACKSPACE, LSHIFT, LSHIFT_UP, CAPS, EXTENDED, LEFT, RIGHT, LETTER_UP}
    \subseteq Scancodes
BY ConsoleAssumption

LEMMA WireType ==
  ASSUME NEW key \in Keys
  PROVE  Wire[key] \in Seq(Scancodes)
<1> DEFINE K == {"letter", "digit", "enter", "backspace", "shift", "unshift", "caps",
                 "release", "left", "right", "numleft"}
<1>1. key \in K
  <2>1. DOMAIN Wire = K
    BY DEF Wire
  <2> QED  BY <2>1, ConsoleAssumption
<1>2. /\ Wire["letter"] = <<LETTER>> /\ Wire["digit"] = <<DIGIT>> /\ Wire["enter"] = <<ENTER>>
      /\ Wire["backspace"] = <<BACKSPACE>> /\ Wire["shift"] = <<LSHIFT>>
      /\ Wire["unshift"] = <<LSHIFT_UP>> /\ Wire["caps"] = <<CAPS>>
      /\ Wire["release"] = <<LETTER_UP>>
      /\ Wire["left"] = <<EXTENDED, LEFT>> /\ Wire["right"] = <<EXTENDED, RIGHT>>
      /\ Wire["numleft"] = <<EXTENDED, LSHIFT, EXTENDED, LEFT>>
  BY DEF Wire
<1>3. /\ \A a \in Scancodes : <<a>> \in Seq(Scancodes)
      /\ \A a, b \in Scancodes : <<a, b>> \in Seq(Scancodes)
      /\ \A a, b, c, d \in Scancodes : <<a, b, c, d>> \in Seq(Scancodes)
  OBVIOUS
<1>4. CASE key \in {"letter", "digit", "enter", "backspace", "shift", "unshift", "caps", "release"}
  BY <1>2, <1>3, <1>4, CodesAreScancodes
<1>5. CASE key \in {"left", "right"}
  BY <1>2, <1>3, <1>5, CodesAreScancodes
<1>6. CASE key = "numleft"
  <2>1. <<EXTENDED, LSHIFT, EXTENDED, LEFT>> \in Seq(Scancodes)
    BY <1>3, CodesAreScancodes
  <2> QED  BY <1>2, <1>6, <2>1
<1> QED  BY <1>1, <1>4, <1>5, <1>6

LEMMA RingSteps ==
  ASSUME RingTypeOK
  PROVE  /\ \A sc \in Scancodes : StoreKey(sc) => RingTypeOK'
         /\ RefuseKey \/ GetKey \/ FlushKeys \/ UNCHANGED ringVars => RingTypeOK'
         /\ \A sc \in Scancodes : Takes(sc) => RingTypeOK'
         /\ ExtendedKey => RingTypeOK'
<1>1. After(key_head) \in Places /\ After(key_tail) \in Places
      /\ After(After(key_tail)) \in Places
  BY AfterWraps DEF RingTypeOK
<1> QED  BY <1>1 DEF RingTypeOK, StoreKey, RefuseKey, GetKey, FlushKeys, ringVars, Takes, ExtendedKey

LEMMA CharIsChar ==
  ASSUME NEW sc \in {LETTER, DIGIT}, NEW sh \in BOOLEAN, NEW cp \in BOOLEAN
  PROVE  CharOf(sc, sh, cp) \in Chars
BY DEF CharOf, Chars

LEMMA MaxLen == MAX_LEN \in Nat /\ MAX_LEN >= 1
BY ConsoleAssumption

-----------------------------------------------------------------------------
(* Pieces of the buffer                                                      *)

Piece(buf, from, to) == [i \in 1 .. to - from |-> buf[from + i - 1]]

(* The characters below n of a buffer. *)
Filled(buf, n) == \A j \in 0 .. n - 1 : buf[j] \in Chars

(* p holds the n characters of buf from place from on. *)
Holds(p, buf, from, n) ==
  p \in Seq(Chars) /\ Len(p) = n /\ \A i \in 1 .. n : p[i] = buf[from + i - 1]

LEMMA PieceHolds ==
  ASSUME NEW buf, NEW from \in Nat, NEW to \in Nat, from <= to, Filled(buf, to)
  PROVE  Holds(Piece(buf, from, to), buf, from, to - from)
<1>1. to - from \in Nat
  OBVIOUS
<1>2. \A i \in 1 .. to - from : buf[from + i - 1] \in Chars
  <2> TAKE i \in 1 .. to - from
  <2>1. from + i - 1 \in 0 .. to - 1
    BY <1>1
  <2> QED  BY <2>1 DEF Filled
<1> QED  BY <1>1, <1>2 DEF Piece, Holds

(* The cursor goes over one character, or one is put in or taken out before  *)
(* it: the last one of the piece.                                            *)
LEMMA PieceFront ==
  ASSUME NEW buf, NEW n \in Nat, n > 0, Filled(buf, n)
  PROVE  /\ Piece(buf, 0, n) # <<>>
         /\ Editor!Front(Piece(buf, 0, n)) = Piece(buf, 0, n - 1)
         /\ Editor!Last(Piece(buf, 0, n)) = buf[n - 1]
         /\ Piece(buf, 0, n) = Append(Piece(buf, 0, n - 1), buf[n - 1])
<1> DEFINE p == Piece(buf, 0, n)
           q == Piece(buf, 0, n - 1)
<1>1. n - 1 \in Nat /\ 0 \in Nat /\ 0 <= n /\ 0 <= n - 1 /\ n = n - 0 /\ n - 1 = n - 1 - 0
  OBVIOUS
<1>2. Filled(buf, n - 1) /\ buf[n - 1] \in Chars
  <2>1. n - 1 \in 0 .. n - 1 /\ \A j \in 0 .. n - 1 - 1 : j \in 0 .. n - 1
    BY <1>1
  <2> QED  BY <2>1 DEF Filled
<1>3. p \in Seq(Chars) /\ Len(p) = n /\ \A i \in 1 .. n : p[i] = buf[i - 1]
  <2>1. Holds(p, buf, 0, n)
    BY <1>1, PieceHolds
  <2> HIDE DEF p
  <2> QED  BY <2>1 DEF Holds
<1>4. q \in Seq(Chars) /\ Len(q) = n - 1 /\ \A i \in 1 .. n - 1 : q[i] = buf[i - 1]
  <2>1. Holds(q, buf, 0, n - 1)
    BY <1>1, <1>2, PieceHolds
  <2> HIDE DEF q
  <2> QED  BY <2>1 DEF Holds
<1> HIDE DEF p, q
<1>5. Editor!Last(p) = buf[n - 1]
  BY <1>3 DEF Editor!Last
<1>6. Editor!Front(p) = q
  <2>1. SubSeq(p, 1, n - 1) \in Seq(Chars) /\ Len(SubSeq(p, 1, n - 1)) = n - 1
        /\ \A i \in 1 .. n - 1 : SubSeq(p, 1, n - 1)[i] = p[i]
    BY <1>1, <1>3
  <2>2. SubSeq(p, 1, n - 1) = q
    BY <1>1, <1>3, <1>4, <2>1, SeqEqual
  <2> QED  BY <1>3, <2>2 DEF Editor!Front
<1>7. p = Append(q, buf[n - 1])
  <2> DEFINE a == Append(q, buf[n - 1])
  <2>1. a \in Seq(Chars) /\ Len(a) = n /\ a[n] = buf[n - 1] /\ \A i \in 1 .. n - 1 : a[i] = q[i]
    BY <1>1, <1>2, <1>4, AppendProperties
  <2> HIDE DEF a
  <2>2. \A i \in 1 .. n : a[i] = p[i]
    BY <1>1, <1>3, <1>4, <2>1
  <2>3. a = p
    BY <1>3, <2>1, <2>2, SeqEqual
  <2> QED  BY <2>3 DEF a
<1> QED  BY <1>3, <1>5, <1>6, <1>7 DEF p, q

LEMMA PieceTail ==
  ASSUME NEW buf, NEW from \in Nat, NEW to \in Nat, from < to, Filled(buf, to)
  PROVE  /\ Piece(buf, from, to) # <<>>
         /\ Head(Piece(buf, from, to)) = buf[from]
         /\ Tail(Piece(buf, from, to)) = Piece(buf, from + 1, to)
         /\ Piece(buf, from, to) = <<buf[from]>> \o Piece(buf, from + 1, to)
<1> DEFINE p == Piece(buf, from, to)
           q == Piece(buf, from + 1, to)
           n == to - from
<1>1. n \in Nat /\ n > 0 /\ from <= to /\ from + 1 \in Nat /\ from + 1 <= to
      /\ n = to - from /\ n - 1 = to - (from + 1)
  OBVIOUS
<1> HIDE DEF n
<1>2. buf[from] \in Chars
  BY DEF Filled
<1>3. p \in Seq(Chars) /\ Len(p) = n /\ \A i \in 1 .. n : p[i] = buf[from + i - 1]
  <2>1. Holds(p, buf, from, n)
    BY <1>1, PieceHolds
  <2> HIDE DEF p
  <2> QED  BY <2>1 DEF Holds
<1>4. q \in Seq(Chars) /\ Len(q) = n - 1 /\ \A i \in 1 .. n - 1 : q[i] = buf[from + i]
  <2>1. Holds(q, buf, from + 1, n - 1)
    BY <1>1, PieceHolds
  <2>2. \A i \in 1 .. n - 1 : from + 1 + i - 1 = from + i
    BY <1>1
  <2> HIDE DEF q
  <2> QED  BY <2>1, <2>2 DEF Holds
<1>5. n - 1 \in Nat /\ from + 1 - 1 = from
  BY <1>1
<1> HIDE DEF p, q
<1>6. Head(p) = buf[from] /\ p # <<>>
  BY <1>1, <1>3, <1>5
<1>7. Tail(p) = q
  <2>1. Tail(p) \in Seq(Chars) /\ Len(Tail(p)) = n - 1
        /\ \A i \in 1 .. n - 1 : Tail(p)[i] = p[i + 1]
    BY <1>1, <1>3
  <2>2. \A i \in 1 .. n - 1 : Tail(p)[i] = q[i]
    <3> TAKE i \in 1 .. n - 1
    <3>1. i + 1 \in 1 .. n /\ from + (i + 1) - 1 = from + i
      BY <1>1
    <3> QED  BY <1>3, <1>4, <2>1, <3>1
  <2> QED  BY <1>4, <2>1, <2>2, SeqEqual
<1>8. p = <<buf[from]>> \o q
  <2>1. p = <<Head(p)>> \o Tail(p)
    BY <1>1, <1>3
  <2> QED  BY <1>6, <1>7, <2>1
<1> QED  BY <1>6, <1>7, <1>8 DEF p, q

LEMMA PieceJoin ==
  ASSUME NEW buf, NEW n \in Nat, NEW m \in Nat, n <= m, Filled(buf, m)
  PROVE  Piece(buf, 0, n) \o Piece(buf, n, m) = Piece(buf, 0, m)
<1> DEFINE l == Piece(buf, 0, n)
           r == Piece(buf, n, m)
           w == Piece(buf, 0, m)
<1>1. 0 <= n /\ 0 <= m /\ n = n - 0 /\ m = m - 0 /\ m - n \in Nat
  OBVIOUS
<1>2. Filled(buf, n)
  BY DEF Filled
<1>3. Holds(l, buf, 0, n)
  BY <1>1, <1>2, PieceHolds
<1>4. Holds(r, buf, n, m - n)
  BY <1>1, PieceHolds
<1>5. Holds(w, buf, 0, m)
  BY <1>1, PieceHolds
<1> HIDE DEF l, r, w
<1> USE DEF Holds
<1>6. l \o r \in Seq(Chars) /\ Len(l \o r) = m
  <2>1. l \o r \in Seq(Chars) /\ Len(l \o r) = Len(l) + Len(r)
    BY <1>3, <1>4, ConcatProperties
  <2> QED  BY <1>1, <1>3, <1>4, <2>1
<1>7. ASSUME NEW i \in 1 .. m  PROVE (l \o r)[i] = w[i]
  <2>1. (l \o r)[i] = IF i <= n THEN l[i] ELSE r[i - n]
    <3>1. i \in 1 .. Len(l) + Len(r)
      BY <1>1, <1>3, <1>4
    <3> QED  BY <1>3, <1>4, <3>1, ConcatProperties
  <2>2. CASE i <= n
    <3>1. i \in 1 .. n
      BY <2>2
    <3> QED  BY <1>3, <1>5, <2>1, <2>2, <3>1
  <2>3. CASE ~(i <= n)
    <3>1. i - n \in 1 .. m - n /\ n + (i - n) - 1 = 0 + i - 1
      BY <2>3
    <3> QED  BY <1>4, <1>5, <2>1, <2>3, <3>1
  <2> QED  BY <2>2, <2>3
<1>8. l \o r = w
  BY <1>5, <1>6, <1>7, SeqEqual
<1> QED  BY <1>8 DEF l, r, w

LEMMA PieceSame ==
  ASSUME NEW buf, NEW buf2, NEW from \in Int, NEW to \in Int, NEW from2 \in Int, NEW to2 \in Int,
         to2 - from2 = to - from,
         \A i \in 1 .. to - from : buf2[from2 + i - 1] = buf[from + i - 1]
  PROVE  Piece(buf2, from2, to2) = Piece(buf, from, to)
BY DEF Piece

LEMMA EmptyPiece == \A buf, n : n \in Int => Piece(buf, n, n) = <<>>
<1> TAKE buf, n
<1> SUFFICES ASSUME n \in Int  PROVE Piece(buf, n, n) = <<>>
  OBVIOUS
<1>1. 1 .. n - n = {}
  OBVIOUS
<1> QED  BY <1>1 DEF Piece

-----------------------------------------------------------------------------
(* What each key does to the editor's text                                   *)

EdOf(buf, len, pos, active, ln) ==
  [left  |-> IF active THEN Piece(buf, 0, pos) ELSE <<>>,
   right |-> IF active THEN Piece(buf, pos, len) ELSE <<>>,
   line  |-> ln]

Line(buf, len, pos) == len \in Nat /\ pos \in Nat /\ pos <= len /\ Filled(buf, len)

LEMMA FilledBelow ==
  ASSUME NEW buf, NEW n \in Nat, NEW m \in Nat, m <= n, Filled(buf, n)
  PROVE  Filled(buf, m)
BY DEF Filled

LEMMA LeftMoves ==
  ASSUME NEW buf, NEW len, NEW pos, NEW ln, Line(buf, len, pos), pos > 0
  PROVE  EdOf(buf, len, pos - 1, TRUE, ln) = Editor!CursorLeft(EdOf(buf, len, pos, TRUE, ln))
<1>1. len \in Nat /\ pos \in Nat /\ pos <= len /\ Filled(buf, len) /\ Filled(buf, pos)
  BY FilledBelow DEF Line
<1>2. pos - 1 \in Nat /\ pos - 1 < len /\ (pos - 1) + 1 = pos
  BY <1>1
<1>3. Piece(buf, pos - 1, len) = <<buf[pos - 1]>> \o Piece(buf, pos, len)
  <2>1. Piece(buf, pos - 1, len) = <<buf[pos - 1]>> \o Piece(buf, (pos - 1) + 1, len)
    BY <1>1, <1>2, PieceTail
  <2> QED  BY <1>2, <2>1
<1>4. /\ Piece(buf, 0, pos) # <<>>
      /\ Editor!Front(Piece(buf, 0, pos)) = Piece(buf, 0, pos - 1)
      /\ Editor!Last(Piece(buf, 0, pos)) = buf[pos - 1]
  BY <1>1, PieceFront
<1> QED  BY <1>3, <1>4 DEF EdOf, Editor!CursorLeft

LEMMA RightMoves ==
  ASSUME NEW buf, NEW len, NEW pos, NEW ln, Line(buf, len, pos), pos < len
  PROVE  EdOf(buf, len, pos + 1, TRUE, ln) = Editor!CursorRight(EdOf(buf, len, pos, TRUE, ln))
<1>1. len \in Nat /\ pos \in Nat /\ Filled(buf, len) /\ Filled(buf, pos + 1)
  BY FilledBelow DEF Line
<1>2. /\ Piece(buf, pos, len) # <<>>
      /\ Head(Piece(buf, pos, len)) = buf[pos]
      /\ Tail(Piece(buf, pos, len)) = Piece(buf, pos + 1, len)
  BY <1>1, PieceTail
<1>3. Piece(buf, 0, pos + 1) = Append(Piece(buf, 0, pos), buf[pos])
  <2>1. pos + 1 \in Nat /\ pos + 1 > 0 /\ (pos + 1) - 1 = pos
    BY <1>1
  <2>2. Piece(buf, 0, pos + 1) = Append(Piece(buf, 0, (pos + 1) - 1), buf[(pos + 1) - 1])
    BY <1>1, <2>1, PieceFront
  <2> QED  BY <2>1, <2>2
<1> QED  BY <1>2, <1>3 DEF EdOf, Editor!CursorRight

LEMMA EnterSubmits ==
  ASSUME NEW buf, NEW len, NEW pos, NEW ln, Line(buf, len, pos)
  PROVE  EdOf(buf, len, pos, FALSE, Piece(buf, 0, len))
           = Editor!Submit(EdOf(buf, len, pos, TRUE, ln))
<1>1. Piece(buf, 0, pos) \o Piece(buf, pos, len) = Piece(buf, 0, len)
  BY PieceJoin DEF Line
<1> QED  BY <1>1 DEF EdOf, Editor!Submit

(* Where an editor does nothing: at the ends of the line, and in a full one. *)
LEMMA EditorIdle ==
  ASSUME NEW buf, NEW len, NEW pos, NEW ln, Line(buf, len, pos)
  PROVE  LET e == EdOf(buf, len, pos, TRUE, ln)
         IN  /\ pos = 0 => Editor!Erase(e) = e /\ Editor!CursorLeft(e) = e
             /\ pos = len => Editor!CursorRight(e) = e
             /\ ~(len < MAX_LEN - 1) => \A c : Editor!Insert(e, c) = e
<1> DEFINE e == EdOf(buf, len, pos, TRUE, ln)
<1>1. e.left = Piece(buf, 0, pos) /\ e.right = Piece(buf, pos, len)
  BY DEF EdOf
<1> HIDE DEF e
<1>2. pos = 0 => e.left = <<>>
  BY <1>1, EmptyPiece
<1>3. pos = len => e.right = <<>>
  BY <1>1, EmptyPiece DEF Line
<1>4. Len(e.left) + Len(e.right) = len
  <2>1. /\ 0 <= pos /\ pos <= len /\ pos \in Nat /\ len \in Nat
        /\ Filled(buf, pos) /\ Filled(buf, len)
    BY FilledBelow DEF Line
  <2>2. Len(Piece(buf, 0, pos)) = pos - 0 /\ Len(Piece(buf, pos, len)) = len - pos
    BY <2>1, PieceHolds DEF Holds
  <2> QED  BY <1>1, <2>1, <2>2
<1> QED  BY <1>2, <1>3, <1>4 DEF e, Editor!Erase, Editor!CursorLeft, Editor!CursorRight, Editor!Insert

(* buf2 is buf without the character before place pos, or with c put there.  *)
Closed(buf, buf2, len, pos) ==
  \A j \in 0 .. len - 2 : buf2[j] = IF j >= pos - 1 THEN buf[j + 1] ELSE buf[j]
Opened(buf, buf2, len, pos, c) ==
  \A j \in 0 .. len : buf2[j] = IF j = pos THEN c ELSE IF j > pos THEN buf[j - 1] ELSE buf[j]

(* A buffer, a length and a cursor that stand for the line with one character erased. *)
Erases(buf, len, pos, ln, buf2, len2, pos2) ==
  /\ Line(buf2, len2, pos2)
  /\ EdOf(buf2, len2, pos2, TRUE, ln) = Editor!Erase(EdOf(buf, len, pos, TRUE, ln))

LEMMA BackspaceErases ==
  ASSUME NEW buf, NEW len, NEW pos, NEW ln, NEW buf2, NEW len2, NEW pos2,
         Line(buf, len, pos), pos > 0, Closed(buf, buf2, len, pos),
         len2 = len - 1, pos2 = pos - 1
  PROVE  Erases(buf, len, pos, ln, buf2, len2, pos2)
<1> USE DEF Closed
<1>1. len \in Nat /\ pos \in Nat /\ pos <= len /\ Filled(buf, len) /\ Filled(buf, pos)
  BY FilledBelow DEF Line
<1>2. Filled(buf2, len - 1)
  <2>1. ASSUME NEW j \in 0 .. len - 1 - 1  PROVE buf2[j] \in Chars
    <3>1. j \in 0 .. len - 2 /\ j + 1 \in 0 .. len - 1 /\ j \in 0 .. len - 1
      BY <1>1
    <3> QED  BY <1>1, <3>1 DEF Filled
  <2> QED  BY <2>1 DEF Filled
<1>3. Line(buf2, len - 1, pos - 1)
  BY <1>1, <1>2 DEF Line
<1>4. Piece(buf2, 0, pos - 1) = Piece(buf, 0, pos - 1)
  <2>1. ASSUME NEW i \in 1 .. pos - 1 - 0  PROVE buf2[0 + i - 1] = buf[0 + i - 1]
    <3>1. 0 + i - 1 \in 0 .. len - 2 /\ ~(0 + i - 1 >= pos - 1)
      BY <1>1
    <3> QED  BY <3>1
  <2> QED  BY <1>1, <2>1, PieceSame
<1>5. Piece(buf2, pos - 1, len - 1) = Piece(buf, pos, len)
  <2> DEFINE f == pos - 1
             t == len - 1
  <2>1. t - f = len - pos /\ f \in Int /\ t \in Int /\ len \in Int /\ pos \in Int
    BY <1>1
  <2>2. ASSUME NEW i \in 1 .. len - pos  PROVE buf2[f + i - 1] = buf[pos + i - 1]
    <3>1. f + i - 1 \in 0 .. len - 2 /\ f + i - 1 >= pos - 1 /\ f + (i - 1) + 1 = pos + i - 1
      BY <1>1
    <3> QED  BY <3>1
  <2> HIDE DEF f, t
  <2>3. Piece(buf2, f, t) = Piece(buf, pos, len)
    <3>1. \A i \in 1 .. len - pos : buf2[f + i - 1] = buf[pos + i - 1]
      BY <2>2
    <3> QED  BY <2>1, <3>1 DEF Piece
  <2> QED  BY <2>3 DEF f, t
<1>6. Piece(buf, 0, pos) # <<>> /\ Editor!Front(Piece(buf, 0, pos)) = Piece(buf, 0, pos - 1)
  BY <1>1, PieceFront
<1>7. EdOf(buf2, len - 1, pos - 1, TRUE, ln) = Editor!Erase(EdOf(buf, len, pos, TRUE, ln))
  BY <1>4, <1>5, <1>6 DEF EdOf, Editor!Erase
<1> QED  BY <1>3, <1>7 DEF Erases

(* And for the line with c inserted at the cursor. *)
Inserts(buf, len, pos, ln, c, buf2, len2, pos2) ==
  /\ Line(buf2, len2, pos2)
  /\ EdOf(buf2, len2, pos2, TRUE, ln) = Editor!Insert(EdOf(buf, len, pos, TRUE, ln), c)

LEMMA CharacterInserts ==
  ASSUME NEW buf, NEW len, NEW pos, NEW ln, NEW buf2, NEW len2, NEW pos2, NEW c \in Chars,
         Line(buf, len, pos), len < MAX_LEN - 1, Opened(buf, buf2, len, pos, c),
         len2 = len + 1, pos2 = pos + 1
  PROVE  Inserts(buf, len, pos, ln, c, buf2, len2, pos2)
<1> USE DEF Opened
<1>1. len \in Nat /\ pos \in Nat /\ pos <= len /\ Filled(buf, len) /\ Filled(buf, pos)
  BY FilledBelow DEF Line
<1>2. Filled(buf2, len + 1)
  <2>1. ASSUME NEW j \in 0 .. (len + 1) - 1  PROVE buf2[j] \in Chars
    <3>1. CASE j = pos
      BY <1>1, <3>1
    <3>2. CASE j > pos
      <4>1. j \in 0 .. len /\ j - 1 \in 0 .. len - 1 /\ j # pos
        BY <1>1, <3>2
      <4> QED  BY <1>1, <3>2, <4>1 DEF Filled
    <3>3. CASE j < pos
      <4>1. j \in 0 .. len /\ j \in 0 .. len - 1 /\ j # pos /\ ~(j > pos)
        BY <1>1, <3>3
      <4> QED  BY <1>1, <4>1 DEF Filled
    <3> QED  BY <1>1, <3>1, <3>2, <3>3
  <2> QED  BY <2>1 DEF Filled
<1>3. Line(buf2, len + 1, pos + 1)
  BY <1>1, <1>2 DEF Line
<1>4. Piece(buf2, 0, pos + 1) = Append(Piece(buf, 0, pos), c)
  <2>1. Piece(buf2, 0, pos) = Piece(buf, 0, pos)
    <3>1. ASSUME NEW i \in 1 .. pos - 0  PROVE buf2[0 + i - 1] = buf[0 + i - 1]
      <4>1. 0 + i - 1 \in 0 .. len /\ 0 + i - 1 < pos
        BY <1>1
      <4> QED  BY <1>1, <4>1
    <3> QED  BY <1>1, <3>1, PieceSame
  <2>2. pos + 1 \in Nat /\ pos + 1 > 0 /\ (pos + 1) - 1 = pos /\ pos \in 0 .. len
        /\ len + 1 \in Nat /\ pos + 1 <= len + 1
    BY <1>1
  <2>3. Filled(buf2, pos + 1)
    BY <1>2, <2>2, FilledBelow
  <2>4. Piece(buf2, 0, pos + 1) = Append(Piece(buf2, 0, (pos + 1) - 1), buf2[(pos + 1) - 1])
    BY <2>2, <2>3, PieceFront
  <2> QED  BY <2>1, <2>2, <2>4
<1>5. Piece(buf2, pos + 1, len + 1) = Piece(buf, pos, len)
  <2>1. ASSUME NEW i \in 1 .. len - pos  PROVE buf2[pos + 1 + i - 1] = buf[pos + i - 1]
    <3> DEFINE j == pos + 1 + i - 1
    <3>1. j \in 0 .. len /\ j > pos /\ j # pos /\ j - 1 = pos + i - 1
      BY <1>1
    <3> HIDE DEF j
    <3>2. buf2[j] = buf[j - 1]
      BY <3>1
    <3> QED  BY <3>1, <3>2 DEF j
  <2>2. (len + 1) - (pos + 1) = len - pos
    BY <1>1
  <2> QED  BY <1>1, <2>1, <2>2, PieceSame
<1>6. Len(Piece(buf, 0, pos)) + Len(Piece(buf, pos, len)) < MAX_LEN - 1
  <2>1. Holds(Piece(buf, 0, pos), buf, 0, pos - 0)
    BY <1>1, PieceHolds
  <2>2. Holds(Piece(buf, pos, len), buf, pos, len - pos)
    BY <1>1, PieceHolds
  <2>3. Len(Piece(buf, 0, pos)) = pos - 0 /\ Len(Piece(buf, pos, len)) = len - pos
    BY <2>1, <2>2 DEF Holds
  <2> QED  BY <1>1, <2>3, MaxLen
<1>7. EdOf(buf2, len + 1, pos + 1, TRUE, ln) = Editor!Insert(EdOf(buf, len, pos, TRUE, ln), c)
  BY <1>4, <1>5, <1>6 DEF EdOf, Editor!Insert
<1> QED  BY <1>3, <1>7 DEF Inserts

-----------------------------------------------------------------------------
(* The invariant                                                             *)

(* What is below input_len are characters; read_line never shows the rest.   *)
ConsInv == TypeOK /\ Filled(input_buffer, input_len)

Ed == [left  |-> IF input_active THEN Text(0, input_pos) ELSE <<>>,
       right |-> IF input_active THEN Text(input_pos, input_len) ELSE <<>>,
       line  |-> line]

LEMMA EdIs ==
  /\ Ed = EdOf(input_buffer, input_len, input_pos, input_active, line)
  /\ Ed' = EdOf(input_buffer', input_len', input_pos', input_active', line')
BY DEF Ed, EdOf, Text, Piece

LEMMA LineFacts ==
  ASSUME ConsInv
  PROVE  /\ Line(input_buffer, input_len, input_pos) /\ input_len <= MAX_LEN - 1
         /\ input_buffer \in [0 .. MAX_LEN - 1 -> Chars \cup {NUL}]
         /\ input_active \in BOOLEAN /\ shift \in BOOLEAN /\ caps \in BOOLEAN
         /\ intact \in BOOLEAN /\ RingTypeOK
         /\ line \in Seq(Chars) /\ wire \in Seq(Scancodes)
BY MaxLen DEF ConsInv, TypeOK, Line

(* The parts of the invariant, for a state after a tick.                     *)
LEMMA ConsInvFrom ==
  ASSUME RingTypeOK', input_buffer' \in [0 .. MAX_LEN - 1 -> Chars \cup {NUL}],
         Line(input_buffer', input_len', input_pos'), input_len' <= MAX_LEN - 1,
         input_active' \in BOOLEAN, shift' \in BOOLEAN, caps' \in BOOLEAN, intact' \in BOOLEAN,
         line' \in Seq(Chars), wire' \in Seq(Scancodes)
  PROVE  ConsInv'
BY MaxLen DEF ConsInv, TypeOK, Line

LEMMA KeepType ==
  ASSUME intact \in BOOLEAN, NEW ok \in BOOLEAN, Keep(ok)
  PROVE  intact' \in BOOLEAN
BY DEF Keep

LEMMA InitInv == Init => ConsInv /\ Editor!Init
<1> SUFFICES ASSUME Init  PROVE ConsInv /\ Editor!Init
  OBVIOUS
<1>1. RingTypeOK
  BY KeyRingAssumption DEF Init, RingInit, RingTypeOK, Places
<1>2. TypeOK /\ Filled(input_buffer, input_len)
  <2>1. 0 \in 0 .. MAX_LEN - 1
    BY MaxLen
  <2>2. line \in Seq(Chars) /\ wire \in Seq(Scancodes)
    BY DEF Init
  <2>3. input_buffer \in [0 .. MAX_LEN - 1 -> Chars \cup {NUL}]
    BY DEF Init
  <2>4. input_len = 0 /\ input_pos = 0 /\ 0 \in 0 .. 0
        /\ input_active = FALSE /\ shift = FALSE /\ caps = FALSE /\ intact = TRUE
    BY DEF Init
  <2>5. Filled(input_buffer, input_len)
    BY <2>4 DEF Filled
  <2> QED  BY <1>1, <2>1, <2>2, <2>3, <2>4, <2>5 DEF TypeOK
<1>3. Ed = Editor!Empty
  BY DEF Init, Ed, Editor!Empty
<1> QED  BY <1>2, <1>3 DEF ConsInv, Editor!Init, Ed

(* A step that leaves the line alone. *)
LEMMA LineUntouched ==
  ASSUME ConsInv, RingTypeOK', wire' \in Seq(Scancodes), intact' \in BOOLEAN,
         shift' \in BOOLEAN, caps' \in BOOLEAN,
         UNCHANGED <<input_buffer, input_len, input_pos, input_active, line>>
  PROVE  ConsInv' /\ UNCHANGED Ed
<1>1. ConsInv'
  BY LineFacts, ConsInvFrom
<1>2. Ed' = Ed
  BY EdIs
<1> QED  BY <1>1, <1>2

LEMMA PressStep ==
  ASSUME ConsInv, NEW key \in Keys, Press(key)
  PROVE  ConsInv' /\ UNCHANGED Ed
<1>1. RingTypeOK' /\ wire' \in Seq(Scancodes)
  BY LineFacts, RingSteps, WireType DEF Press
<1> QED  BY <1>1, LineFacts, LineUntouched DEF Press, editVars

LEMMA InterruptStep ==
  ASSUME ConsInv, KeyboardInterrupt
  PROVE  ConsInv' /\ UNCHANGED Ed
<1>1. Head(wire) \in Scancodes /\ Tail(wire) \in Seq(Scancodes)
  BY LineFacts DEF KeyboardInterrupt
<1>2. RingTypeOK' /\ wire' \in Seq(Scancodes)
  BY <1>1, LineFacts, RingSteps DEF KeyboardInterrupt
<1>3. intact' \in BOOLEAN
  <2>1. (~RingFull) \in BOOLEAN
    OBVIOUS
  <2> QED  BY <2>1, LineFacts, KeepType DEF KeyboardInterrupt
<1> QED  BY <1>2, <1>3, LineFacts, LineUntouched DEF KeyboardInterrupt, editVars

LEMMA InputStartStep ==
  ASSUME ConsInv, InputStart
  PROVE  ConsInv' /\ UNCHANGED Ed
<1>1. RingTypeOK'
  BY LineFacts, RingSteps DEF InputStart
<1>2. intact' \in BOOLEAN
  <2>1. (~HasKey) \in BOOLEAN
    OBVIOUS
  <2> QED  BY <2>1, LineFacts, KeepType DEF InputStart
<1>3. Line(input_buffer', input_len', input_pos') /\ input_len' <= MAX_LEN - 1
  BY MaxLen DEF InputStart, Line, Filled
<1>4. ConsInv'
  BY <1>1, <1>2, <1>3, LineFacts, ConsInvFrom DEF InputStart
<1>5. Piece(input_buffer, 0, 0) = <<>>
  BY EmptyPiece
<1>6. Ed' = Ed
  BY <1>5, EdIs DEF InputStart, EdOf
<1> QED  BY <1>4, <1>6

LEMMA LoneExtendedStep ==
  ASSUME ConsInv, LoneExtended
  PROVE  ConsInv' /\ UNCHANGED Ed
<1>1. RingTypeOK'
  BY LineFacts, RingSteps, CodesAreScancodes DEF LoneExtended
<1>2. intact' \in BOOLEAN
  BY LineFacts, KeepType DEF LoneExtended
<1> QED  BY <1>1, <1>2, LineFacts, LineUntouched DEF LoneExtended, Takes, editVars

LEMMA SilentStep ==
  ASSUME ConsInv, SilentKey
  PROVE  ConsInv' /\ UNCHANGED Ed
<1>1. RingTypeOK'
  BY LineFacts, RingSteps, CodesAreScancodes DEF SilentKey
<1> QED  BY <1>1, LineFacts, LineUntouched DEF SilentKey, Takes, editVars

LEMMA ModifierStep ==
  ASSUME ConsInv, ModifierKey
  PROVE  ConsInv' /\ UNCHANGED Ed
<1>1. RingTypeOK'
  BY LineFacts, RingSteps, CodesAreScancodes DEF ModifierKey
<1>2. shift' \in BOOLEAN /\ caps' \in BOOLEAN
  BY LineFacts DEF ModifierKey
<1>3. wire' = wire
  BY DEF ModifierKey, Takes
<1> QED  BY <1>1, <1>2, <1>3, LineFacts, LineUntouched DEF ModifierKey

(* What an extended code does to the text. *)
Arrow(e, sc) ==
  IF sc = LEFT THEN Editor!CursorLeft(e)
  ELSE IF sc = RIGHT THEN Editor!CursorRight(e) ELSE e

LEMMA ExtendedStep ==
  ASSUME ConsInv, ExtendedKey
  PROVE  ConsInv' /\ Ed' = Arrow(Ed, keybuf[After(key_tail)])
<1>1. RingTypeOK'
  BY LineFacts, RingSteps
<1> DEFINE sc2 == keybuf[After(key_tail)]
<1>2. /\ input_active /\ UNCHANGED <<input_buffer, input_len, input_active, shift, caps, line,
                                     wire, intact>>
      /\ input_pos' = CASE sc2 = LEFT  /\ input_pos > 0         -> input_pos - 1
                        [] sc2 = RIGHT /\ input_pos < input_len -> input_pos + 1
                        [] OTHER -> input_pos
  BY DEF ExtendedKey
<1>3. /\ Line(input_buffer, input_len, input_pos)
      /\ input_len \in Nat /\ input_pos \in Nat /\ input_pos <= input_len
      /\ Filled(input_buffer, input_len)
  BY LineFacts DEF Line
<1> HIDE DEF sc2
<1>4. LEFT # RIGHT
  BY DEF LEFT, RIGHT
<1>5. CASE sc2 = LEFT /\ input_pos > 0
  <2>1. input_pos' = input_pos - 1
    BY <1>2, <1>4, <1>5
  <2>2. Line(input_buffer', input_len', input_pos')
    BY <1>2, <1>3, <1>5, <2>1 DEF Line
  <2>3. ConsInv'
    BY <1>1, <1>2, <2>2, LineFacts, ConsInvFrom
  <2>4. Ed' = Editor!CursorLeft(Ed)
    BY <1>2, <1>3, <1>5, <2>1, EdIs, LeftMoves
  <2> QED  BY <1>5, <2>3, <2>4 DEF Arrow, sc2
<1>6. CASE sc2 = RIGHT /\ input_pos < input_len
  <2>1. input_pos' = input_pos + 1
    BY <1>2, <1>4, <1>6
  <2>2. Line(input_buffer', input_len', input_pos')
    BY <1>2, <1>3, <1>6, <2>1 DEF Line
  <2>3. ConsInv'
    BY <1>1, <1>2, <2>2, LineFacts, ConsInvFrom
  <2>4. Ed' = Editor!CursorRight(Ed)
    BY <1>2, <1>3, <1>6, <2>1, EdIs, RightMoves
  <2> QED  BY <1>4, <1>6, <2>3, <2>4 DEF Arrow, sc2
<1>7. CASE ~(sc2 = LEFT /\ input_pos > 0) /\ ~(sc2 = RIGHT /\ input_pos < input_len)
  <2>1. input_pos' = input_pos
    BY <1>2, <1>7
  <2>2. ConsInv' /\ Ed' = Ed
    BY <1>1, <1>2, <2>1, LineFacts, LineUntouched
  <2>3. Arrow(Ed, sc2) = Ed
    <3>1. Ed = EdOf(input_buffer, input_len, input_pos, TRUE, line)
      BY <1>2, EdIs, LineFacts
    <3>2. sc2 = LEFT => input_pos = 0
      BY <1>3, <1>7
    <3>3. sc2 = RIGHT => input_pos = input_len
      BY <1>3, <1>7
    <3> QED  BY <1>3, <3>1, <3>2, <3>3, EditorIdle DEF Arrow
  <2> QED  BY <2>2, <2>3 DEF sc2
<1> QED  BY <1>5, <1>6, <1>7

LEMMA EnterStep ==
  ASSUME ConsInv, EnterKey
  PROVE  ConsInv' /\ Ed' = Editor!Submit(Ed)
<1>1. RingTypeOK'
  BY LineFacts, RingSteps, CodesAreScancodes DEF EnterKey
<1>2. /\ input_active = TRUE /\ input_active' = FALSE
      /\ line' = Piece(input_buffer, 0, input_len)
      /\ UNCHANGED <<input_buffer, input_len, input_pos, shift, caps, intact, wire>>
  BY LineFacts DEF EnterKey, Takes, Text, Piece
<1>3. line' \in Seq(Chars)
  <2>1. 0 <= input_len /\ input_len \in Nat /\ Filled(input_buffer, input_len)
    BY LineFacts DEF Line
  <2>2. Holds(Piece(input_buffer, 0, input_len), input_buffer, 0, input_len - 0)
    BY <2>1, PieceHolds
  <2> QED  BY <1>2, <2>2 DEF Holds
<1>4. ConsInv'
  BY <1>1, <1>2, <1>3, LineFacts, ConsInvFrom
<1>5. Ed' = Editor!Submit(Ed)
  BY <1>2, EdIs, LineFacts, EnterSubmits
<1> QED  BY <1>4, <1>5

LEMMA BackspaceStep ==
  ASSUME ConsInv, BackspaceKey
  PROVE  ConsInv' /\ Ed' = Editor!Erase(Ed)
<1>1. RingTypeOK'
  BY LineFacts, RingSteps, CodesAreScancodes DEF BackspaceKey
<1>2. /\ input_active = TRUE
      /\ UNCHANGED <<input_active, shift, caps, line, intact, wire>>
  BY LineFacts DEF BackspaceKey, Takes
<1>3. CASE input_pos > 0
  <2>1. /\ input_buffer' = [j \in DOMAIN input_buffer |->
                              IF j \in input_pos - 1 .. input_len - 2
                              THEN input_buffer[j + 1] ELSE input_buffer[j]]
        /\ input_len' = input_len - 1 /\ input_pos' = input_pos - 1
    BY <1>3 DEF BackspaceKey
  <2>2. /\ Line(input_buffer, input_len, input_pos)
        /\ input_len \in Nat /\ input_pos \in Nat /\ input_pos <= input_len
        /\ input_len <= MAX_LEN - 1 /\ MAX_LEN \in Nat
        /\ input_buffer \in [0 .. MAX_LEN - 1 -> Chars \cup {NUL}]
    BY LineFacts, MaxLen DEF Line
  <2>3. Closed(input_buffer, input_buffer', input_len, input_pos)
    <3> SUFFICES ASSUME NEW j \in 0 .. input_len - 2
                 PROVE  input_buffer'[j] = IF j >= input_pos - 1 THEN input_buffer[j + 1]
                                           ELSE input_buffer[j]
      BY DEF Closed
    <3>1. j \in DOMAIN input_buffer /\ (j \in input_pos - 1 .. input_len - 2 <=> j >= input_pos - 1)
      BY <2>2
    <3> QED  BY <2>1, <3>1
  <2>4. /\ Line(input_buffer', input_len', input_pos')
        /\ Ed' = Editor!Erase(Ed)
    <3>1. Erases(input_buffer, input_len, input_pos, line,
                 input_buffer', input_len', input_pos')
      BY <1>3, <2>1, <2>2, <2>3, BackspaceErases
    <3> QED  BY <3>1, <1>2, EdIs DEF Erases
  <2>5. input_buffer' \in [0 .. MAX_LEN - 1 -> Chars \cup {NUL}]
    <3>1. ASSUME NEW j \in 0 .. MAX_LEN - 1, j \in input_pos - 1 .. input_len - 2
          PROVE  j + 1 \in 0 .. MAX_LEN - 1
      BY <2>2, <3>1
    <3> QED  BY <2>1, <2>2, <3>1
  <2>6. input_len' <= MAX_LEN - 1
    BY <2>1, <2>2
  <2>7. ConsInv'
    BY <1>1, <1>2, <2>4, <2>5, <2>6, LineFacts, ConsInvFrom
  <2> QED  BY <2>4, <2>7
<1>4. CASE ~(input_pos > 0)
  <2>1. UNCHANGED <<input_buffer, input_len, input_pos>>
    BY <1>4 DEF BackspaceKey
  <2>2. ConsInv' /\ Ed' = Ed
    BY <1>1, <1>2, <2>1, LineFacts, LineUntouched
  <2>3. Ed = EdOf(input_buffer, input_len, input_pos, TRUE, line) /\ input_pos = 0
    BY <1>2, <1>4, EdIs, LineFacts DEF Line
  <2> QED  BY <2>2, <2>3, LineFacts, EditorIdle
<1> QED  BY <1>3, <1>4

LEMMA CharacterStep ==
  ASSUME ConsInv, CharacterKey
  PROVE  /\ ConsInv' /\ CharOf(FrontKey, shift, caps) \in Chars
         /\ Ed' = Editor!Insert(Ed, CharOf(FrontKey, shift, caps))
<1>1. RingTypeOK'
  BY LineFacts, RingSteps, CodesAreScancodes DEF CharacterKey
<1>2. /\ input_active = TRUE /\ FrontKey \in {LETTER, DIGIT}
      /\ UNCHANGED <<input_active, shift, caps, line, intact, wire>>
  BY LineFacts DEF CharacterKey, Takes
<1> DEFINE c == CharOf(FrontKey, shift, caps)
<1>3. c \in Chars
  BY <1>2, LineFacts, CharIsChar
<1>4. CASE input_len < MAX_LEN - 1
  <2>1. /\ input_buffer' = [j \in DOMAIN input_buffer |->
                              IF j = input_pos THEN c
                              ELSE IF j \in input_pos + 1 .. input_len
                              THEN input_buffer[j - 1] ELSE input_buffer[j]]
        /\ input_len' = input_len + 1 /\ input_pos' = input_pos + 1
    BY <1>4 DEF CharacterKey
  <2> HIDE DEF c
  <2>2. /\ Line(input_buffer, input_len, input_pos)
        /\ input_len \in Nat /\ input_pos \in Nat /\ input_pos <= input_len
        /\ input_len <= MAX_LEN - 1 /\ MAX_LEN \in Nat
        /\ input_buffer \in [0 .. MAX_LEN - 1 -> Chars \cup {NUL}]
    BY LineFacts, MaxLen DEF Line
  <2>3. Opened(input_buffer, input_buffer', input_len, input_pos, c)
    <3> SUFFICES ASSUME NEW j \in 0 .. input_len
                 PROVE  input_buffer'[j] = IF j = input_pos THEN c
                                           ELSE IF j > input_pos THEN input_buffer[j - 1]
                                           ELSE input_buffer[j]
      BY DEF Opened
    <3>1. j \in DOMAIN input_buffer /\ (j \in input_pos + 1 .. input_len <=> j > input_pos)
      BY <1>4, <2>2
    <3> QED  BY <2>1, <3>1
  <2>4. /\ Line(input_buffer', input_len', input_pos')
        /\ Ed' = Editor!Insert(Ed, c)
    <3>1. Inserts(input_buffer, input_len, input_pos, line, c,
                  input_buffer', input_len', input_pos')
      BY <1>3, <1>4, <2>1, <2>2, <2>3, CharacterInserts
    <3> QED  BY <3>1, <1>2, EdIs DEF Inserts
  <2>5. input_buffer' \in [0 .. MAX_LEN - 1 -> Chars \cup {NUL}]
    <3>1. ASSUME NEW j \in 0 .. MAX_LEN - 1, j \in input_pos + 1 .. input_len
          PROVE  j - 1 \in 0 .. MAX_LEN - 1
      BY <2>2, <3>1
    <3> QED  BY <1>3, <2>1, <2>2, <3>1
  <2>6. input_len' <= MAX_LEN - 1
    BY <1>4, <2>1, <2>2
  <2>7. ConsInv'
    BY <1>1, <1>2, <2>4, <2>5, <2>6, LineFacts, ConsInvFrom
  <2> QED  BY <1>3, <2>4, <2>7 DEF c
<1>5. CASE ~(input_len < MAX_LEN - 1)
  <2>1. UNCHANGED <<input_buffer, input_len, input_pos>>
    BY <1>5 DEF CharacterKey
  <2>2. ConsInv' /\ Ed' = Ed
    BY <1>1, <1>2, <2>1, LineFacts, LineUntouched
  <2>3. Ed = EdOf(input_buffer, input_len, input_pos, TRUE, line)
    BY <1>2, EdIs
  <2>4. Editor!Insert(Ed, c) = Ed
    <3> HIDE DEF c
    <3> QED  BY <1>5, <2>3, LineFacts, EditorIdle
  <2> QED  BY <1>3, <2>2, <2>4 DEF c
<1> QED  BY <1>4, <1>5

LEMMA ConsStep ==
  ASSUME ConsInv, [Next]_vars
  PROVE  ConsInv' /\ (Editor!Next \/ UNCHANGED Ed)
<1>1. CASE UNCHANGED vars
  <2>1. RingTypeOK'
    BY <1>1, LineFacts, RingSteps DEF vars
  <2> QED  BY <1>1, <2>1, LineFacts, LineUntouched DEF vars, editVars
<1>2. CASE ExtendedKey
  BY <1>2, ExtendedStep DEF Arrow, Editor!Next, Ed
<1>3. CASE EnterKey
  BY <1>3, EnterStep DEF Editor!Next, Ed
<1>4. CASE BackspaceKey
  BY <1>4, BackspaceStep DEF Editor!Next, Ed
<1>5. CASE CharacterKey
  <2>1. \E c \in Chars : Ed' = Editor!Insert(Ed, c)
    BY <1>5, CharacterStep
  <2> QED  BY <1>5, <2>1, CharacterStep DEF Editor!Next, Ed
<1> QED  BY <1>1, <1>2, <1>3, <1>4, <1>5, PressStep, InterruptStep, InputStartStep,
            LoneExtendedStep, ModifierStep, SilentStep DEF Next, Tick

(* The line and the cursor stay inside input_buffer, the ring inside keybuf. *)
THEOREM ConsoleTypeCorrect == Spec => []TypeOK
<1>1. ConsInv /\ [Next]_vars => ConsInv'
  BY ConsStep
<1>2. ConsInv => TypeOK
  BY DEF ConsInv
<1> QED  BY InitInv, <1>1, <1>2, PTL DEF Spec

(* Each tick and each interrupt is one operation of a line editor or none:   *)
(* EditsALine, for a line and a ring of any length, whatever codes come.     *)
THEOREM PromptEditsALine == Spec => EditsALine
<1>1. ConsInv /\ [Next]_vars => ConsInv' /\ [Editor!Next]_Ed
  BY ConsStep
<1> QED  BY InitInv, <1>1, PTL DEF Spec, EditsALine, Editor!Spec, Ed
-----------------------------------------------------------------------------
(* What the codes under way will do                                          *)

At(e, sh, cp) == [ed |-> e, shift |-> sh, caps |-> cp]

(* The editor s after read_line has read the code sc, or an extended one. *)
Plain(s, sc) ==
  At(IF sc \in {LETTER, DIGIT} THEN Editor!Insert(s.ed, CharOf(sc, s.shift, s.caps))
     ELSE IF sc = BACKSPACE THEN Editor!Erase(s.ed)
     ELSE IF sc = ENTER THEN Editor!Submit(s.ed) ELSE s.ed,
     IF sc = LSHIFT THEN TRUE ELSE IF sc = LSHIFT_UP THEN FALSE ELSE s.shift,
     IF sc = CAPS THEN ~s.caps ELSE s.caps)

Extended(s, sc) == At(Arrow(s.ed, sc), s.shift, s.caps)

(* st[i] is the editor after the first i codes, where they do not end in the *)
(* middle of a pair.                                                         *)
Reads(codes, st) ==
  \A i \in 1 .. Len(codes) :
    IF codes[i] = EXTENDED
    THEN /\ i < Len(codes) /\ codes[i + 1] # EXTENDED
         /\ st[i + 1] = Extended(st[i - 1], codes[i + 1])
    ELSE (i = 1 \/ codes[i - 1] # EXTENDED) => st[i] = Plain(st[i - 1], codes[i])

(* Reading the codes takes the editor from s to t. *)
Leads(codes, s, t) == \E st : st[0] = s /\ st[Len(codes)] = t /\ Reads(codes, st)

LEMMA NothingLeads ==
  ASSUME NEW codes, Len(codes) = 0, NEW s, NEW t
  PROVE  Leads(codes, s, t) <=> s = t
<1>1. 1 .. Len(codes) = {}
  OBVIOUS
<1>2. ASSUME s = t  PROVE Leads(codes, s, t)
  <2> DEFINE st == [i \in {0} |-> s]
  <2>1. st[0] = s
    OBVIOUS
  <2>2. Reads(codes, st)
    BY <1>1 DEF Reads
  <2> QED  BY <1>2, <2>1, <2>2 DEF Leads
<1>3. ASSUME Leads(codes, s, t)  PROVE s = t
  BY <1>3 DEF Leads
<1> QED  BY <1>2, <1>3

(* codes2 is codes with sc behind. *)
Longer(codes, codes2, sc) ==
  /\ Len(codes) \in Nat /\ Len(codes2) = Len(codes) + 1
  /\ \A i \in 1 .. Len(codes) : codes2[i] = codes[i]
  /\ codes2[Len(codes) + 1] = sc

LEMMA PlainLeadsOn ==
  ASSUME NEW codes, NEW codes2, NEW sc, Longer(codes, codes2, sc), sc # EXTENDED,
         NEW s, NEW t, Leads(codes, s, t)
  PROVE  Leads(codes2, s, Plain(t, sc))
<1> DEFINE n == Len(codes)
<1>1. n \in Nat /\ Len(codes2) = n + 1 /\ codes2[n + 1] = sc
      /\ \A i \in 1 .. n : codes2[i] = codes[i]
  BY DEF Longer
<1>2. PICK st : st[0] = s /\ st[n] = t /\ Reads(codes, st)
  BY DEF Leads
<1> DEFINE st2 == [i \in 0 .. n + 1 |-> IF i = n + 1 THEN Plain(t, sc) ELSE st[i]]
<1> HIDE DEF n
<1>3. /\ \A i \in 0 .. n : st2[i] = st[i]
      /\ st2[n + 1] = Plain(t, sc)
  BY <1>1
<1> HIDE DEF st2
<1>4. ASSUME NEW i \in 1 .. n + 1
      PROVE  IF codes2[i] = EXTENDED
             THEN /\ i < n + 1 /\ codes2[i + 1] # EXTENDED
                  /\ st2[i + 1] = Extended(st2[i - 1], codes2[i + 1])
             ELSE (i = 1 \/ codes2[i - 1] # EXTENDED) => st2[i] = Plain(st2[i - 1], codes2[i])
  <2>1. CASE i = n + 1
    <3>1. codes2[i] # EXTENDED /\ codes2[i] = sc /\ i - 1 = n
      BY <2>1, <1>1
    <3>2. st2[i] = Plain(t, sc) /\ st2[i - 1] = t
      <4>1. n \in 0 .. n
        BY <1>1
      <4> QED  BY <2>1, <3>1, <4>1, <1>2, <1>3
    <3> QED  BY <3>1, <3>2
  <2>2. CASE i # n + 1
    <3>1. i \in 1 .. n /\ i \in 0 .. n /\ i - 1 \in 0 .. n /\ (i # 1 => i - 1 \in 1 .. n)
      BY <2>2, <1>1
    <3>2. codes2[i] = codes[i] /\ st2[i] = st[i] /\ st2[i - 1] = st[i - 1]
          /\ (i # 1 => codes2[i - 1] = codes[i - 1])
      BY <3>1, <1>1, <1>3
    <3>3. CASE codes[i] = EXTENDED
      <4>1. i < n /\ codes[i + 1] # EXTENDED /\ st[i + 1] = Extended(st[i - 1], codes[i + 1])
        BY <3>1, <3>3, <1>2 DEF Reads, n
      <4>2. i + 1 \in 1 .. n /\ i + 1 \in 0 .. n /\ i < n + 1
        BY <3>1, <4>1, <1>1
      <4>3. codes2[i + 1] = codes[i + 1] /\ st2[i + 1] = st[i + 1]
        BY <4>2, <1>1, <1>3
      <4> QED  BY <3>2, <3>3, <4>1, <4>2, <4>3
    <3>4. CASE codes[i] # EXTENDED
      <4>1. (i = 1 \/ codes[i - 1] # EXTENDED) => st[i] = Plain(st[i - 1], codes[i])
        BY <3>1, <3>4, <1>2 DEF Reads, n
      <4> QED  BY <3>2, <3>4, <4>1
    <3> QED  BY <3>3, <3>4
  <2> QED  BY <2>1, <2>2
<1>5. Reads(codes2, st2)
  BY <1>1, <1>4 DEF Reads
<1>6. st2[0] = s /\ st2[Len(codes2)] = Plain(t, sc)
  <2>1. 0 \in 0 .. n
    BY <1>1
  <2> QED  BY <2>1, <1>1, <1>2, <1>3
<1> QED  BY <1>5, <1>6 DEF Leads

LEMMA PairLeadsOn ==
  ASSUME NEW codes, NEW mid, NEW codes2, NEW sc,
         Longer(codes, mid, EXTENDED), Longer(mid, codes2, sc), sc # EXTENDED,
         NEW s, NEW t, Leads(codes, s, t)
  PROVE  Leads(codes2, s, Extended(t, sc))
<1> DEFINE n == Len(codes)
<1>1. /\ n \in Nat /\ Len(codes2) = n + 2 /\ codes2[n + 1] = EXTENDED /\ codes2[n + 2] = sc
      /\ \A i \in 1 .. n : codes2[i] = codes[i]
  <2>1. /\ Len(codes) \in Nat /\ Len(mid) = Len(codes) + 1 /\ Len(codes2) = Len(mid) + 1
        /\ mid[Len(codes) + 1] = EXTENDED /\ codes2[Len(mid) + 1] = sc
        /\ \A i \in 1 .. Len(codes) : mid[i] = codes[i]
        /\ \A i \in 1 .. Len(mid) : codes2[i] = mid[i]
    BY DEF Longer
  <2>2. Len(codes) + 1 \in 1 .. Len(mid) /\ \A i \in 1 .. Len(codes) : i \in 1 .. Len(mid)
    BY <2>1
  <2>3. Len(mid) + 1 = Len(codes) + 2
    BY <2>1
  <2> QED  BY <2>1, <2>2, <2>3
<1>2. PICK st : st[0] = s /\ st[n] = t /\ Reads(codes, st)
  BY DEF Leads
<1> DEFINE st2 == [i \in 0 .. n + 2 |-> IF i = n + 2 THEN Extended(t, sc) ELSE st[i]]
<1> HIDE DEF n
<1>3. /\ \A i \in 0 .. n : st2[i] = st[i]
      /\ st2[n + 2] = Extended(t, sc)
  BY <1>1
<1> HIDE DEF st2
<1>4. ASSUME NEW i \in 1 .. n + 2
      PROVE  IF codes2[i] = EXTENDED
             THEN /\ i < n + 2 /\ codes2[i + 1] # EXTENDED
                  /\ st2[i + 1] = Extended(st2[i - 1], codes2[i + 1])
             ELSE (i = 1 \/ codes2[i - 1] # EXTENDED) => st2[i] = Plain(st2[i - 1], codes2[i])
  <2>1. CASE i = n + 2
    <3>1. codes2[i] # EXTENDED /\ codes2[i - 1] = EXTENDED /\ i # 1
      <4>1. i - 1 = n + 1
        BY <2>1, <1>1
      <4> QED  BY <2>1, <4>1, <1>1
    <3> QED  BY <3>1
  <2>2. CASE i = n + 1
    <3>1. codes2[i] = EXTENDED /\ i < n + 2 /\ i + 1 = n + 2 /\ i - 1 = n /\ n \in 0 .. n
      BY <2>2, <1>1
    <3>2. codes2[i + 1] = sc /\ st2[i + 1] = Extended(t, sc) /\ st2[i - 1] = t
      BY <3>1, <1>1, <1>2, <1>3
    <3> QED  BY <3>1, <3>2
  <2>3. CASE i # n + 1 /\ i # n + 2
    <3>1. i \in 1 .. n /\ i \in 0 .. n /\ i - 1 \in 0 .. n /\ (i # 1 => i - 1 \in 1 .. n)
      BY <2>3, <1>1
    <3>2. codes2[i] = codes[i] /\ st2[i] = st[i] /\ st2[i - 1] = st[i - 1]
          /\ (i # 1 => codes2[i - 1] = codes[i - 1])
      BY <3>1, <1>1, <1>3
    <3>3. CASE codes[i] = EXTENDED
      <4>1. i < n /\ codes[i + 1] # EXTENDED /\ st[i + 1] = Extended(st[i - 1], codes[i + 1])
        BY <3>1, <3>3, <1>2 DEF Reads, n
      <4>2. i + 1 \in 1 .. n /\ i + 1 \in 0 .. n /\ i < n + 2
        BY <3>1, <4>1, <1>1
      <4>3. codes2[i + 1] = codes[i + 1] /\ st2[i + 1] = st[i + 1]
        BY <4>2, <1>1, <1>3
      <4> QED  BY <3>2, <3>3, <4>1, <4>2, <4>3
    <3>4. CASE codes[i] # EXTENDED
      <4>1. (i = 1 \/ codes[i - 1] # EXTENDED) => st[i] = Plain(st[i - 1], codes[i])
        BY <3>1, <3>4, <1>2 DEF Reads, n
      <4> QED  BY <3>2, <3>4, <4>1
    <3> QED  BY <3>3, <3>4
  <2> QED  BY <2>1, <2>2, <2>3
<1>5. Reads(codes2, st2)
  BY <1>1, <1>4 DEF Reads
<1>6. st2[0] = s /\ st2[Len(codes2)] = Extended(t, sc)
  <2>1. 0 \in 0 .. n
    BY <1>1
  <2> QED  BY <2>1, <1>1, <1>2, <1>3
<1> QED  BY <1>5, <1>6 DEF Leads

(* codes2 is codes without the first k. *)
Shorter(codes, codes2, k) ==
  /\ Len(codes) \in Nat /\ k \in Nat /\ k <= Len(codes) /\ Len(codes2) = Len(codes) - k
  /\ \A i \in 1 .. Len(codes) - k : codes2[i] = codes[i + k]

LEMMA RestReads ==
  ASSUME NEW codes, NEW codes2, NEW k, Shorter(codes, codes2, k), k >= 1, codes[k] # EXTENDED,
         NEW st, Reads(codes, st)
  PROVE  Leads(codes2, st[k], st[Len(codes)])
<1> DEFINE n == Len(codes)
           st2 == [i \in 0 .. n - k |-> st[i + k]]
<1>1. n \in Nat /\ k \in Nat /\ k <= n /\ Len(codes2) = n - k
      /\ \A i \in 1 .. n - k : codes2[i] = codes[i + k]
  BY DEF Shorter
<1> HIDE DEF n
<1>3. \A i \in 0 .. n - k : st2[i] = st[i + k]
  OBVIOUS
<1> HIDE DEF st2
<1>4. ASSUME NEW i \in 1 .. n - k
      PROVE  IF codes2[i] = EXTENDED
             THEN /\ i < n - k /\ codes2[i + 1] # EXTENDED
                  /\ st2[i + 1] = Extended(st2[i - 1], codes2[i + 1])
             ELSE (i = 1 \/ codes2[i - 1] # EXTENDED) => st2[i] = Plain(st2[i - 1], codes2[i])
  <2>1. /\ i \in 0 .. n - k /\ i - 1 \in 0 .. n - k /\ i + k \in 1 .. n /\ i - 1 + k = i + k - 1
        /\ (i # 1 => i - 1 \in 1 .. n - k) /\ (i = 1 => i + k - 1 = k) /\ i + k # 1
    BY <1>1
  <2>2. codes2[i] = codes[i + k] /\ st2[i] = st[i + k] /\ st2[i - 1] = st[i + k - 1]
        /\ (i # 1 => codes2[i - 1] = codes[i + k - 1])
    BY <2>1, <1>1, <1>3
  <2> DEFINE p == i + k
  <2>a. p \in 1 .. n /\ p # 1 /\ p + 1 = i + k + 1 /\ p - 1 = i + k - 1
    BY <2>1, <1>1
  <2> HIDE DEF p
  <2>b. IF codes[p] = EXTENDED
        THEN p < n /\ codes[p + 1] # EXTENDED /\ st[p + 1] = Extended(st[p - 1], codes[p + 1])
        ELSE (p = 1 \/ codes[p - 1] # EXTENDED) => st[p] = Plain(st[p - 1], codes[p])
    BY <2>a DEF Reads, n
  <2>3. CASE codes[i + k] = EXTENDED
    <3>1. /\ i + k < n /\ codes[i + k + 1] # EXTENDED
          /\ st[i + k + 1] = Extended(st[i + k - 1], codes[i + k + 1])
      BY <2>a, <2>b, <2>3 DEF p
    <3>2. i + 1 \in 1 .. n - k /\ i + 1 \in 0 .. n - k /\ i < n - k /\ i + 1 + k = i + k + 1
      BY <3>1, <1>1
    <3>3. codes2[i + 1] = codes[i + k + 1] /\ st2[i + 1] = st[i + k + 1]
      BY <3>2, <1>1, <1>3
    <3> QED  BY <2>2, <2>3, <3>1, <3>2, <3>3
  <2>4. CASE codes[i + k] # EXTENDED
    <3>1. codes[i + k - 1] # EXTENDED => st[i + k] = Plain(st[i + k - 1], codes[i + k])
      BY <2>a, <2>b, <2>4 DEF p
    <3> QED  BY <2>1, <2>2, <2>4, <3>1
  <2> QED  BY <2>3, <2>4
<1>5. Reads(codes2, st2)
  BY <1>1, <1>4 DEF Reads
<1>6. st2[0] = st[k] /\ st2[Len(codes2)] = st[n]
  <2>1. 0 \in 0 .. n - k /\ n - k \in 0 .. n - k /\ 0 + k = k /\ n - k + k = n
    BY <1>1
  <2> QED  BY <2>1, <1>1, <1>3
<1> QED  BY <1>5, <1>6 DEF Leads, n

(* One code read, and the two of a pair. *)
LEMMA PlainRead ==
  ASSUME NEW codes, NEW codes2, Shorter(codes, codes2, 1), codes[1] # EXTENDED,
         NEW s, NEW t, Leads(codes, s, t)
  PROVE  Leads(codes2, Plain(s, codes[1]), t)
<1>1. PICK st : st[0] = s /\ st[Len(codes)] = t /\ Reads(codes, st)
  BY DEF Leads
<1>2. 1 \in 1 .. Len(codes) /\ 1 - 1 = 0
  BY DEF Shorter
<1>3. st[1] = Plain(s, codes[1])
  <2>1. st[1] = Plain(st[1 - 1], codes[1])
    BY <1>1, <1>2 DEF Reads
  <2> QED  BY <2>1, <1>1, <1>2
<1> QED  BY <1>1, <1>3, RestReads

LEMMA PairRead ==
  ASSUME NEW codes, NEW codes2, Shorter(codes, codes2, 2), codes[1] = EXTENDED,
         NEW s, NEW t, Leads(codes, s, t)
  PROVE  Leads(codes2, Extended(s, codes[2]), t)
<1>1. PICK st : st[0] = s /\ st[Len(codes)] = t /\ Reads(codes, st)
  BY DEF Leads
<1>2. 1 \in 1 .. Len(codes) /\ 1 - 1 = 0 /\ 1 + 1 = 2
  BY DEF Shorter
<1>3. codes[2] # EXTENDED /\ st[2] = Extended(s, codes[2])
  <2>1. codes[1 + 1] # EXTENDED /\ st[1 + 1] = Extended(st[1 - 1], codes[1 + 1])
    BY <1>1, <1>2 DEF Reads
  <2> QED  BY <2>1, <1>1, <1>2
<1> QED  BY <1>1, <1>3, RestReads
-----------------------------------------------------------------------------
(* The codes under way: those in the ring, and those of a key not yet sent   *)

Codes == Queue \o wire

CodesKnown == RingTypeOK /\ wire \in Seq(Scancodes)

LEMMA CodesAre ==
  ASSUME CodesKnown
  PROVE  /\ Codes \in Seq(Scancodes \cup {0}) /\ Queue \in Seq(Scancodes \cup {0})
         /\ Len(Codes) = Len(Queue) + Len(wire)
         /\ \A i \in 1 .. Len(Queue) + Len(wire) :
              Codes[i] = IF i <= Len(Queue) THEN Queue[i] ELSE wire[i - Len(Queue)]
<1>1. Queue \in Seq(Scancodes \cup {0})
  BY QueueIsSeq DEF CodesKnown
<1>2. wire \in Seq(Scancodes \cup {0})
  BY DEF CodesKnown
<1> QED  BY <1>1, <1>2, ConcatProperties DEF Codes

LEMMA FrontTaken ==
  ASSUME RingTypeOK, GetKey
  PROVE  Shorter(Queue, Queue', 1) /\ Queue[1] = FrontKey
<1>1. Held > 0 /\ Held < KEYBUF_SIZE /\ Held \in Nat
  BY HeldBounds, KeyRingAssumption DEF GetKey
<1>2. After(key_tail) = IF key_tail + 1 = KEYBUF_SIZE THEN 0 ELSE key_tail + 1
  BY AfterWraps DEF RingTypeOK
<1>3. Held' = Held - 1
  BY <1>1, <1>2, KeyRingAssumption DEF GetKey, Held, RingTypeOK, Places
<1>4. \A i \in 1 .. Held - 1 : Place(i - 1)' = Place(i)
  BY <1>1, <1>2, KeyRingAssumption DEF GetKey, Place, RingTypeOK, Places
<1>5. Queue' = [i \in 1 .. Held - 1 |-> keybuf[Place(i)]]
  BY <1>3, <1>4 DEF Queue, GetKey
<1>6. Len(Queue) = Held /\ \A i \in 1 .. Held : Queue[i] = keybuf[Place(i - 1)]
  BY QueueIsSeq
<1>7. Len(Queue') = Held - 1
  BY <1>1, <1>5
<1>8. ASSUME NEW i \in 1 .. Held - 1  PROVE Queue'[i] = Queue[i + 1]
  <2>1. i + 1 \in 1 .. Held /\ (i + 1) - 1 = i
    BY <1>1
  <2>2. Queue[i + 1] = keybuf[Place(i)]
    BY <2>1, <1>6
  <2> QED  BY <2>2, <1>5
<1>9. Queue[1] = FrontKey
  <2>1. 1 \in 1 .. Held /\ Place(1 - 1) = key_tail
    BY <1>1, KeyRingAssumption DEF Place, RingTypeOK, Places
  <2> QED  BY <2>1, <1>6 DEF FrontKey
<1> HIDE DEF Held
<1> QED  BY <1>1, <1>6, <1>7, <1>8, <1>9 DEF Shorter

LEMMA PairTaken ==
  ASSUME RingTypeOK, ExtendedKey
  PROVE  /\ Shorter(Queue, Queue', 2)
         /\ Queue[1] = EXTENDED /\ Queue[2] = keybuf[After(key_tail)]
         /\ key_tail' = (key_tail + 2) % (KEYBUF_SIZE - 1 + 1)
<1>0. /\ HasKey /\ FrontKey = EXTENDED /\ After(key_tail) # key_head
      /\ key_tail' = After(After(key_tail)) /\ UNCHANGED <<keybuf, key_head>>
  BY DEF ExtendedKey
<1>1. Held > 0 /\ Held < KEYBUF_SIZE /\ Held \in Nat
  BY <1>0, HeldBounds, KeyRingAssumption
<1>2. /\ After(key_tail) = IF key_tail + 1 = KEYBUF_SIZE THEN 0 ELSE key_tail + 1
      /\ After(key_tail) \in Places
      /\ After(After(key_tail)) = IF After(key_tail) + 1 = KEYBUF_SIZE THEN 0 ELSE After(key_tail) + 1
  BY AfterWraps DEF RingTypeOK
<1>3. Held > 1 /\ Held' = Held - 2
  BY <1>0, <1>1, <1>2, KeyRingAssumption DEF Held, RingTypeOK, Places
<1>4. \A i \in 1 .. Held - 2 : Place(i - 1)' = Place(i + 1)
  BY <1>0, <1>1, <1>2, KeyRingAssumption DEF Place, RingTypeOK, Places
<1>5. Queue' = [i \in 1 .. Held - 2 |-> keybuf[Place(i + 1)]]
  BY <1>0, <1>3, <1>4 DEF Queue
<1>6. Len(Queue) = Held /\ \A i \in 1 .. Held : Queue[i] = keybuf[Place(i - 1)]
  BY QueueIsSeq
<1>7. Len(Queue') = Held - 2
  BY <1>1, <1>3, <1>5
<1>8. ASSUME NEW i \in 1 .. Held - 2  PROVE Queue'[i] = Queue[i + 2]
  <2>1. i + 2 \in 1 .. Held /\ (i + 2) - 1 = i + 1
    BY <1>1
  <2>2. Queue[i + 2] = keybuf[Place(i + 1)]
    BY <2>1, <1>6
  <2> QED  BY <2>2, <1>5
<1>9. Queue[1] = EXTENDED
  <2>1. 1 \in 1 .. Held /\ Place(1 - 1) = key_tail
    BY <1>1, KeyRingAssumption DEF Place, RingTypeOK, Places
  <2> QED  BY <2>1, <1>0, <1>6 DEF FrontKey
<1>10. Queue[2] = keybuf[After(key_tail)]
  <2>1. 2 \in 1 .. Held /\ Place(2 - 1) = After(key_tail)
    BY <1>1, <1>2, <1>3, KeyRingAssumption DEF Place, RingTypeOK, Places
  <2> QED  BY <2>1, <1>6
<1>11. key_tail' = (key_tail + 2) % (KEYBUF_SIZE - 1 + 1)
  <2>1. KEYBUF_SIZE - 1 + 1 = KEYBUF_SIZE /\ KEYBUF_SIZE \in Nat /\ KEYBUF_SIZE >= 2
        /\ key_tail \in Nat /\ key_tail < KEYBUF_SIZE
    BY KeyRingAssumption DEF RingTypeOK, Places
  <2>2. CASE key_tail + 2 < KEYBUF_SIZE
    BY <2>1, <2>2, <1>0, <1>2
  <2>3. CASE key_tail + 2 >= KEYBUF_SIZE
    <3>1. (key_tail + 2) % KEYBUF_SIZE = key_tail + 2 - KEYBUF_SIZE
      BY <2>1, <2>3
    <3>2. key_tail' = key_tail + 2 - KEYBUF_SIZE
      BY <2>1, <2>3, <1>0, <1>2
    <3> QED  BY <2>1, <3>1, <3>2
  <2> QED  BY <2>1, <2>2, <2>3
<1> HIDE DEF Held
<1> QED  BY <1>1, <1>3, <1>6, <1>7, <1>8, <1>9, <1>10, <1>11 DEF Shorter

(* What is taken out of the ring is taken off the front of the codes.        *)
LEMMA CodesTaken ==
  ASSUME CodesKnown, CodesKnown', wire' = wire,
         NEW k \in {1, 2}, Shorter(Queue, Queue', k)
  PROVE  Shorter(Codes, Codes', k) /\ \A i \in 1 .. k : Codes[i] = Queue[i]
<1>1. /\ Len(Codes) = Len(Queue) + Len(wire)
      /\ \A i \in 1 .. Len(Queue) + Len(wire) :
           Codes[i] = IF i <= Len(Queue) THEN Queue[i] ELSE wire[i - Len(Queue)]
  BY CodesAre
<1>2. /\ Len(Codes') = Len(Queue') + Len(wire)
      /\ \A i \in 1 .. Len(Queue') + Len(wire) :
           Codes'[i] = IF i <= Len(Queue') THEN Queue'[i] ELSE wire[i - Len(Queue')]
  <2>2. (/\ Len(Codes) = Len(Queue) + Len(wire)
         /\ \A i \in 1 .. Len(Queue) + Len(wire) :
              Codes[i] = IF i <= Len(Queue) THEN Queue[i] ELSE wire[i - Len(Queue)])'
    BY CodesAre, PTL
  <2> QED  BY <2>2
<1> DEFINE n == Len(Queue)
           m == Len(wire)
<1>3. /\ n \in Nat /\ m \in Nat /\ k <= n /\ Len(Queue') = n - k
      /\ \A i \in 1 .. n - k : Queue'[i] = Queue[i + k]
  BY DEF Shorter
<1>4. Len(Codes) = n + m /\ Len(Codes') = n + m - k /\ k <= n + m
  BY <1>1, <1>2, <1>3
<1> HIDE DEF n, m
<1>5. ASSUME NEW i \in 1 .. n + m - k  PROVE Codes'[i] = Codes[i + k]
  <2>1. i + k \in 1 .. n + m /\ i \in 1 .. n - k + m
    BY <1>3
  <2>2. Codes[i + k] = IF i + k <= n THEN Queue[i + k] ELSE wire[i + k - n]
    BY <2>1, <1>1 DEF n, m
  <2>3. Codes'[i] = IF i <= n - k THEN Queue'[i] ELSE wire[i - (n - k)]
    BY <2>1, <1>2, <1>3 DEF m
  <2>4. CASE i <= n - k
    <3>1. i \in 1 .. n - k /\ i + k <= n
      BY <2>1, <2>4, <1>3
    <3> QED  BY <3>1, <2>2, <2>3, <2>4, <1>3
  <2>5. CASE ~(i <= n - k)
    <3>1. ~(i + k <= n) /\ i - (n - k) = i + k - n
      BY <2>1, <2>5, <1>3
    <3> QED  BY <3>1, <2>2, <2>3, <2>5
  <2> QED  BY <2>4, <2>5
<1>6. \A i \in 1 .. k : Codes[i] = Queue[i]
  <2> TAKE i \in 1 .. k
  <2>1. i \in 1 .. n + m /\ i <= n
    BY <1>3
  <2> QED  BY <2>1, <1>1 DEF n, m
<1> QED  BY <1>3, <1>4, <1>5, <1>6 DEF Shorter

(* Storing a code moves it from the wire to the ring. *)
LEMMA CodesSent ==
  ASSUME RingTypeOK, RingTypeOK', wire \in Seq(Scancodes), wire # <<>>,
         StoreKey(Head(wire)), wire' = Tail(wire)
  PROVE  Codes' = Codes
<1>1. Head(wire) \in Scancodes /\ Tail(wire) \in Seq(Scancodes)
      /\ wire = <<Head(wire)>> \o Tail(wire)
  OBVIOUS
<1>2. Queue' = Append(Queue, Head(wire))
  BY <1>1, StoreIsPut DEF Fifo!Put
<1> DEFINE S == Scancodes \cup {0}
           h == Head(wire)
           rest == Tail(wire)
<1>3. Queue \in Seq(S) /\ h \in S /\ rest \in Seq(S) /\ wire \in Seq(S) /\ <<h>> \in Seq(S)
  BY <1>1, QueueIsSeq
<1> HIDE DEF S, h, rest
<1>4. Append(Queue, h) = Queue \o <<h>>
  BY <1>3, AppendIsConcat
<1>5. (Queue \o <<h>>) \o rest = Queue \o (<<h>> \o rest)
  BY <1>3, ConcatAssociative
<1> QED  BY <1>1, <1>2, <1>4, <1>5 DEF Codes, h, rest
-----------------------------------------------------------------------------
(* Keys, codes and the editor                                                *)

Now == At(Ed, shift, caps)

(* While no code is lost, the codes under way take the editor to where the   *)
(* keys already pressed would have it.                                       *)
Bound == intact => Leads(Codes, Now, ideal) /\ ideal = At(ideal.ed, ideal.shift, ideal.caps)

TypedInv == ConsInv /\ Bound

LEMMA CodesDiffer ==
  /\ \A sc \in {LETTER, DIGIT, ENTER, BACKSPACE, LSHIFT, LSHIFT_UP, CAPS, LEFT, RIGHT, LETTER_UP} :
       sc # EXTENDED
  /\ \A sc \in {LETTER, DIGIT} : sc \notin {ENTER, BACKSPACE, LSHIFT, LSHIFT_UP, CAPS}
  /\ \A sc \in {LETTER_UP, LEFT, RIGHT} :
       sc \notin {LETTER, DIGIT, ENTER, BACKSPACE, LSHIFT, LSHIFT_UP, CAPS}
  /\ ENTER \notin {LETTER, DIGIT, BACKSPACE, LSHIFT, LSHIFT_UP, CAPS}
  /\ BACKSPACE \notin {LETTER, DIGIT, LSHIFT, LSHIFT_UP, CAPS}
  /\ LSHIFT \notin {LETTER, DIGIT, BACKSPACE, ENTER, LSHIFT_UP, CAPS, LEFT, RIGHT}
  /\ LSHIFT_UP \notin {LETTER, DIGIT, BACKSPACE, ENTER, CAPS}
  /\ CAPS \notin {LETTER, DIGIT, BACKSPACE, ENTER}
  /\ LEFT # RIGHT
BY DEF LETTER, LETTER_UP, DIGIT, ENTER, BACKSPACE, LSHIFT, LSHIFT_UP, CAPS, EXTENDED, LEFT, RIGHT

LEMMA AtParts ==
  \A e, sh, cp : At(e, sh, cp).ed = e /\ At(e, sh, cp).shift = sh /\ At(e, sh, cp).caps = cp
BY DEF At

(* What each code does, in the terms of read_line's branches. *)
LEMMA PlainIs ==
  ASSUME NEW s
  PROVE  /\ \A sc \in {LETTER, DIGIT} :
              Plain(s, sc) = At(Editor!Insert(s.ed, CharOf(sc, s.shift, s.caps)), s.shift, s.caps)
         /\ Plain(s, BACKSPACE) = At(Editor!Erase(s.ed), s.shift, s.caps)
         /\ Plain(s, ENTER) = At(Editor!Submit(s.ed), s.shift, s.caps)
         /\ Plain(s, LSHIFT) = At(s.ed, TRUE, s.caps)
         /\ Plain(s, LSHIFT_UP) = At(s.ed, FALSE, s.caps)
         /\ Plain(s, CAPS) = At(s.ed, s.shift, ~s.caps)
         /\ \A sc \in {LETTER_UP, LEFT, RIGHT} : Plain(s, sc) = At(s.ed, s.shift, s.caps)
<1>2. ASSUME NEW sc \in {LETTER, DIGIT}
      PROVE  Plain(s, sc) = At(Editor!Insert(s.ed, CharOf(sc, s.shift, s.caps)), s.shift, s.caps)
  BY CodesDiffer, Zenon DEF Plain
<1>3. Plain(s, BACKSPACE) = At(Editor!Erase(s.ed), s.shift, s.caps)
  BY CodesDiffer, Zenon DEF Plain
<1>4. Plain(s, ENTER) = At(Editor!Submit(s.ed), s.shift, s.caps)
  BY CodesDiffer, Zenon DEF Plain
<1>5. Plain(s, LSHIFT) = At(s.ed, TRUE, s.caps)
  BY CodesDiffer, Zenon DEF Plain
<1>6. Plain(s, LSHIFT_UP) = At(s.ed, FALSE, s.caps)
  BY CodesDiffer, Zenon DEF Plain
<1>7. Plain(s, CAPS) = At(s.ed, s.shift, ~s.caps)
  BY CodesDiffer, Zenon DEF Plain
<1>8. ASSUME NEW sc \in {LETTER_UP, LEFT, RIGHT}
      PROVE  Plain(s, sc) = At(s.ed, s.shift, s.caps)
  BY CodesDiffer, Zenon DEF Plain
<1> QED  BY <1>2, <1>3, <1>4, <1>5, <1>6, <1>7, <1>8

LEMMA ExtendedIs ==
  ASSUME NEW s
  PROVE  /\ Extended(s, LEFT) = At(Editor!CursorLeft(s.ed), s.shift, s.caps)
         /\ Extended(s, RIGHT) = At(Editor!CursorRight(s.ed), s.shift, s.caps)
         /\ Extended(s, LSHIFT) = At(s.ed, s.shift, s.caps)
BY CodesDiffer DEF Extended, Arrow

(* One code more behind the codes. *)
LEMMA OneMore ==
  ASSUME NEW S, NEW q \in Seq(S), NEW w \in Seq(S), NEW w2 \in Seq(S), NEW sc, Longer(w, w2, sc)
  PROVE  Longer(q \o w, q \o w2, sc)
<1> DEFINE c == q \o w
           c2 == q \o w2
           n == Len(q)
           m == Len(w)
<1>1. /\ n \in Nat /\ m \in Nat /\ Len(c) = n + m /\ Len(c2) = n + (m + 1)
      /\ \A i \in 1 .. n + m : c[i] = IF i <= n THEN q[i] ELSE w[i - n]
      /\ \A i \in 1 .. n + (m + 1) : c2[i] = IF i <= n THEN q[i] ELSE w2[i - n]
  <2>1. /\ Len(q \o w) = Len(q) + Len(w)
        /\ \A i \in 1 .. Len(q) + Len(w) : (q \o w)[i] = IF i <= Len(q) THEN q[i] ELSE w[i - Len(q)]
    BY ONLY w \in Seq(S), q \in Seq(S), ConcatProperties
  <2>2. /\ Len(q \o w2) = Len(q) + Len(w2)
        /\ \A i \in 1 .. Len(q) + Len(w2) :
             (q \o w2)[i] = IF i <= Len(q) THEN q[i] ELSE w2[i - Len(q)]
    BY ONLY w2 \in Seq(S), q \in Seq(S), ConcatProperties
  <2>3. Len(w2) = Len(w) + 1 /\ Len(w) \in Nat /\ Len(q) \in Nat
    BY DEF Longer
  <2> QED  BY ONLY <2>1, <2>2, <2>3 DEF c, c2, n, m
<1>2. w2[m + 1] = sc /\ \A i \in 1 .. m : w2[i] = w[i]
  BY DEF Longer
<1> HIDE DEF c, c2, n, m
<1>3. \A i \in 1 .. n + m : c2[i] = c[i]
  <2> TAKE i \in 1 .. n + m
  <2>1. i \in 1 .. n + (m + 1) /\ (~(i <= n) => i - n \in 1 .. m)
    BY <1>1
  <2> QED  BY <2>1, <1>1, <1>2
<1>4. c2[n + m + 1] = sc
  <2>1. n + m + 1 \in 1 .. n + (m + 1) /\ ~(n + m + 1 <= n) /\ n + m + 1 - n = m + 1
    BY <1>1
  <2> QED  BY <2>1, <1>1, <1>2
<1>5. n + m \in Nat /\ n + (m + 1) = n + m + 1
  BY <1>1
<1> QED  BY <1>1, <1>3, <1>4, <1>5 DEF Longer, c, c2

(* Whatever the codes so far do, those of the key do what the key means. *)
LEMMA PressLeads ==
  ASSUME TypedInv, intact, NEW key \in Keys, Press(key)
  PROVE  Leads(Codes', Now, Meant(key)) /\ Meant(key) = At(Meant(key).ed, Meant(key).shift, Meant(key).caps)
<1> DEFINE e == ideal.ed
           sh == ideal.shift
           cp == ideal.caps
           S == Scancodes
           q == Queue
<1>1. ideal = At(e, sh, cp) /\ Leads(Codes, Now, ideal)
  BY DEF TypedInv, Bound
<1>2. Codes = q /\ Codes' = q \o Wire[key] /\ wire = <<>>
  <2>1. Queue' = Queue
    BY DEF Press, ringVars, Queue, Held, Place
  <2>2. Queue \in Seq(Scancodes \cup {0}) /\ wire = <<>>
    BY QueueIsSeq, LineFacts DEF TypedInv, Press
  <2>3. Queue \o <<>> = Queue
    BY <2>2, ConcatEmptySeq
  <2> QED  BY <2>1, <2>2, <2>3 DEF Codes, Press
<1>3. q \in Seq(S \cup {0})
  BY QueueIsSeq, LineFacts DEF TypedInv
<1>4. q \o <<>> = q
  BY <1>3, ConcatEmptySeq
<1> HIDE DEF e, sh, cp, S, q
<1>5. ASSUME NEW sc \in Scancodes, sc # EXTENDED, Wire[key] = <<sc>>
      PROVE  Leads(Codes', Now, Plain(ideal, sc))
  <2>1. <<>> \in Seq(S \cup {0}) /\ <<sc>> \in Seq(S \cup {0}) /\ Longer(<<>>, <<sc>>, sc)
    BY DEF S, Longer
  <2>2. Longer(q \o <<>>, q \o <<sc>>, sc)
    BY ONLY <1>3, <2>1, OneMore
  <2>3. Longer(Codes, Codes', sc)
    BY <1>2, <1>4, <1>5, <2>2
  <2> QED  BY <1>1, <1>5, <2>3, PlainLeadsOn
<1>6. ASSUME NEW sc \in Scancodes, sc # EXTENDED, Wire[key] = <<EXTENDED, sc>>
      PROVE  Leads(Codes', Now, Extended(ideal, sc))
  <2> DEFINE w1 == <<EXTENDED>>
             w2 == <<EXTENDED, sc>>
  <2>1. EXTENDED \in S \cup {0} /\ sc \in S \cup {0}
    BY CodesAreScancodes DEF S
  <2>2. <<>> \in Seq(S \cup {0}) /\ w1 \in Seq(S \cup {0}) /\ w2 \in Seq(S \cup {0})
    BY <2>1
  <2>3. Longer(<<>>, w1, EXTENDED) /\ Longer(w1, w2, sc)
    BY DEF Longer
  <2> HIDE DEF w1, w2
  <2>4. Longer(q \o <<>>, q \o w1, EXTENDED) /\ Longer(q \o w1, q \o w2, sc)
    BY ONLY <1>3, <2>2, <2>3, OneMore
  <2> DEFINE mid == q \o w1
  <2>5. Longer(Codes, mid, EXTENDED) /\ Longer(mid, Codes', sc) /\ sc # EXTENDED
    BY <1>2, <1>4, <1>6, <2>4 DEF w2
  <2> HIDE DEF mid
  <2> QED  BY <1>1, <2>5, PairLeadsOn
<1>7. ASSUME Wire[key] = <<EXTENDED, LSHIFT, EXTENDED, LEFT>>
      PROVE  Leads(Codes', Now, Extended(Extended(ideal, LSHIFT), LEFT))
  <2> DEFINE w1 == <<EXTENDED>>
             w2 == <<EXTENDED, LSHIFT>>
             w3 == <<EXTENDED, LSHIFT, EXTENDED>>
             w4 == <<EXTENDED, LSHIFT, EXTENDED, LEFT>>
  <2>1. /\ EXTENDED \in S \cup {0} /\ LSHIFT \in S \cup {0} /\ LEFT \in S \cup {0}
    BY CodesAreScancodes DEF S
  <2>2. /\ <<>> \in Seq(S \cup {0}) /\ w1 \in Seq(S \cup {0}) /\ w2 \in Seq(S \cup {0})
        /\ w3 \in Seq(S \cup {0}) /\ w4 \in Seq(S \cup {0})
    BY <2>1
  <2>3. /\ Longer(<<>>, w1, EXTENDED) /\ Longer(w1, w2, LSHIFT)
        /\ Longer(w2, w3, EXTENDED) /\ Longer(w3, w4, LEFT)
    <3>1. Longer(<<>>, w1, EXTENDED) /\ Longer(w1, w2, LSHIFT)
      BY DEF Longer
    <3>2. Longer(w2, w3, EXTENDED)
      BY DEF Longer
    <3>3. Longer(w3, w4, LEFT)
      BY DEF Longer
    <3> QED  BY <3>1, <3>2, <3>3
  <2> HIDE DEF w1, w2, w3, w4
  <2>4. /\ Longer(q \o <<>>, q \o w1, EXTENDED) /\ Longer(q \o w1, q \o w2, LSHIFT)
        /\ Longer(q \o w2, q \o w3, EXTENDED) /\ Longer(q \o w3, q \o w4, LEFT)
    BY ONLY <1>3, <2>2, <2>3, OneMore
  <2> DEFINE m1 == q \o w1
             m2 == q \o w2
             m3 == q \o w3
  <2>5. /\ Longer(Codes, m1, EXTENDED) /\ Longer(m1, m2, LSHIFT)
        /\ Longer(m2, m3, EXTENDED) /\ Longer(m3, Codes', LEFT)
    BY <1>2, <1>4, <1>7, <2>4 DEF w4
  <2> HIDE DEF m1, m2, m3
  <2>6. Leads(m2, Now, Extended(ideal, LSHIFT))
    BY <1>1, <2>5, CodesDiffer, PairLeadsOn
  <2> QED  BY <2>5, <2>6, CodesDiffer, PairLeadsOn
<1>8. /\ \A x : [ideal EXCEPT !.ed = x] = At(x, sh, cp)
      /\ \A y : [ideal EXCEPT !.shift = y] = At(e, y, cp)
      /\ \A z : [ideal EXCEPT !.caps = z] = At(e, sh, z)
  BY <1>1 DEF At
<1>9. key \in DOMAIN Wire
  BY ConsoleAssumption
<1> DEFINE Done == Leads(Codes', Now, Meant(key))
                   /\ Meant(key) = At(Meant(key).ed, Meant(key).shift, Meant(key).caps)
<1>a. ASSUME NEW x1, NEW y1, NEW z1, Meant(key) = At(x1, y1, z1), Leads(Codes', Now, At(x1, y1, z1))
      PROVE  Done
  <2>1. Meant(key).ed = x1 /\ Meant(key).shift = y1 /\ Meant(key).caps = z1
    BY <1>a, AtParts
  <2> QED  BY <1>a, <2>1
<1> HIDE DEF Done
<1> SUFFICES Done
  BY DEF Done
<1>10. CASE key = "letter"
  <2>1. Wire[key] = <<LETTER>> /\ Wire[key][1] = LETTER
    BY <1>10 DEF Wire
  <2>2. Meant(key) = At(Editor!Insert(e, CharOf(LETTER, sh, cp)), sh, cp)
    BY <1>8, <1>10, <2>1 DEF Meant, e, sh, cp
  <2>3. Plain(ideal, LETTER) = At(Editor!Insert(e, CharOf(LETTER, sh, cp)), sh, cp)
    BY <1>1, PlainIs DEF e, sh, cp
  <2>4. Leads(Codes', Now, Plain(ideal, LETTER))
    BY <1>5, <2>1, CodesDiffer, CodesAreScancodes
  <2> QED  BY <1>a, <2>2, <2>3, <2>4
<1>11. CASE key = "digit"
  <2>1. Wire[key] = <<DIGIT>> /\ Wire[key][1] = DIGIT
    BY <1>11 DEF Wire
  <2>2. Meant(key) = At(Editor!Insert(e, CharOf(DIGIT, sh, cp)), sh, cp)
    BY <1>8, <1>11, <2>1 DEF Meant, e, sh, cp
  <2>3. Plain(ideal, DIGIT) = At(Editor!Insert(e, CharOf(DIGIT, sh, cp)), sh, cp)
    BY <1>1, PlainIs DEF e, sh, cp
  <2>4. Leads(Codes', Now, Plain(ideal, DIGIT))
    BY <1>5, <2>1, CodesDiffer, CodesAreScancodes
  <2> QED  BY <1>a, <2>2, <2>3, <2>4
<1>12. CASE key = "enter"
  <2>1. Wire[key] = <<ENTER>>
    BY <1>12 DEF Wire
  <2>2. Meant(key) = At(Editor!Submit(e), sh, cp)
    BY <1>8, <1>12 DEF Meant, e
  <2>3. Plain(ideal, ENTER) = At(Editor!Submit(e), sh, cp)
    BY <1>1, PlainIs DEF e, sh, cp
  <2>4. Leads(Codes', Now, Plain(ideal, ENTER))
    BY <1>5, <2>1, CodesDiffer, CodesAreScancodes
  <2> QED  BY <1>a, <2>2, <2>3, <2>4
<1>13. CASE key = "backspace"
  <2>1. Wire[key] = <<BACKSPACE>>
    BY <1>13 DEF Wire
  <2>2. Meant(key) = At(Editor!Erase(e), sh, cp)
    BY <1>8, <1>13 DEF Meant, e
  <2>3. Plain(ideal, BACKSPACE) = At(Editor!Erase(e), sh, cp)
    BY <1>1, PlainIs DEF e, sh, cp
  <2>4. Leads(Codes', Now, Plain(ideal, BACKSPACE))
    BY <1>5, <2>1, CodesDiffer, CodesAreScancodes
  <2> QED  BY <1>a, <2>2, <2>3, <2>4
<1>14. CASE key = "shift"
  <2>1. Wire[key] = <<LSHIFT>>
    BY <1>14 DEF Wire
  <2>2. Meant(key) = At(e, TRUE, cp)
    BY <1>8, <1>14 DEF Meant
  <2>3. Plain(ideal, LSHIFT) = At(e, TRUE, cp)
    BY <1>1, PlainIs DEF e, sh, cp
  <2>4. Leads(Codes', Now, Plain(ideal, LSHIFT))
    BY <1>5, <2>1, CodesDiffer, CodesAreScancodes
  <2> QED  BY <1>a, <2>2, <2>3, <2>4
<1>15. CASE key = "unshift"
  <2>1. Wire[key] = <<LSHIFT_UP>>
    BY <1>15 DEF Wire
  <2>2. Meant(key) = At(e, FALSE, cp)
    BY <1>8, <1>15 DEF Meant
  <2>3. Plain(ideal, LSHIFT_UP) = At(e, FALSE, cp)
    BY <1>1, PlainIs DEF e, sh, cp
  <2>4. Leads(Codes', Now, Plain(ideal, LSHIFT_UP))
    BY <1>5, <2>1, CodesDiffer, CodesAreScancodes
  <2> QED  BY <1>a, <2>2, <2>3, <2>4
<1>16. CASE key = "caps"
  <2>1. Wire[key] = <<CAPS>>
    BY <1>16 DEF Wire
  <2>2. Meant(key) = At(e, sh, ~cp)
    BY <1>8, <1>16 DEF Meant, cp
  <2>3. Plain(ideal, CAPS) = At(e, sh, ~cp)
    BY <1>1, PlainIs DEF e, sh, cp
  <2>4. Leads(Codes', Now, Plain(ideal, CAPS))
    BY <1>5, <2>1, CodesDiffer, CodesAreScancodes
  <2> QED  BY <1>a, <2>2, <2>3, <2>4
<1>17. CASE key = "release"
  <2>1. Wire[key] = <<LETTER_UP>>
    BY <1>17 DEF Wire
  <2>2. Meant(key) = At(e, sh, cp)
    BY <1>1, <1>17 DEF Meant
  <2>3. Plain(ideal, LETTER_UP) = At(e, sh, cp)
    BY <1>1, PlainIs DEF e, sh, cp
  <2>4. Leads(Codes', Now, Plain(ideal, LETTER_UP))
    BY <1>5, <2>1, CodesDiffer, CodesAreScancodes
  <2> QED  BY <1>a, <2>2, <2>3, <2>4
<1>18. CASE key = "left"
  <2>1. Wire[key] = <<EXTENDED, LEFT>>
    BY <1>18 DEF Wire
  <2>2. Meant(key) = At(Editor!CursorLeft(e), sh, cp)
    BY <1>8, <1>18 DEF Meant, e
  <2>3. Extended(ideal, LEFT) = At(Editor!CursorLeft(e), sh, cp)
    BY <1>1, ExtendedIs DEF e, sh, cp
  <2>4. Leads(Codes', Now, Extended(ideal, LEFT))
    BY <1>6, <2>1, CodesDiffer, CodesAreScancodes
  <2> QED  BY <1>a, <2>2, <2>3, <2>4
<1>19. CASE key = "right"
  <2>1. Wire[key] = <<EXTENDED, RIGHT>>
    BY <1>19 DEF Wire
  <2>2. Meant(key) = At(Editor!CursorRight(e), sh, cp)
    BY <1>8, <1>19 DEF Meant, e
  <2>3. Extended(ideal, RIGHT) = At(Editor!CursorRight(e), sh, cp)
    BY <1>1, ExtendedIs DEF e, sh, cp
  <2>4. Leads(Codes', Now, Extended(ideal, RIGHT))
    BY <1>6, <2>1, CodesDiffer, CodesAreScancodes
  <2> QED  BY <1>a, <2>2, <2>3, <2>4
<1>20. CASE key = "numleft"
  <2>1. Wire[key] = <<EXTENDED, LSHIFT, EXTENDED, LEFT>>
    BY <1>20 DEF Wire
  <2>2. Meant(key) = At(Editor!CursorLeft(e), sh, cp)
    BY <1>8, <1>20 DEF Meant, e
  <2>3. Extended(Extended(ideal, LSHIFT), LEFT) = At(Editor!CursorLeft(e), sh, cp)
    BY <1>1, ExtendedIs DEF e, sh, cp
  <2>4. Leads(Codes', Now, Extended(Extended(ideal, LSHIFT), LEFT))
    BY <1>7, <2>1
  <2> QED  BY <1>a, <2>2, <2>3, <2>4
<1> QED
  BY <1>9, <1>10, <1>11, <1>12, <1>13, <1>14, <1>15, <1>16, <1>17, <1>18, <1>19, <1>20 DEF Wire
-----------------------------------------------------------------------------
LEMMA TypedInit == Init => TypedInv
<1> SUFFICES ASSUME Init  PROVE TypedInv
  OBVIOUS
<1>1. ConsInv /\ Ed = Editor!Empty
  BY InitInv DEF Editor!Init, Ed
<1>2. Codes = <<>>
  <2>1. Queue = <<>> /\ wire = <<>>
    <3>1. Held = 0
      BY DEF Init, RingInit, Held
    <3>2. Len(Queue) = 0 /\ Queue \in Seq(Scancodes \cup {0})
      BY <1>1, <3>1, QueueIsSeq, LineFacts
    <3> QED  BY <3>2 DEF Init
  <2>2. <<>> \o <<>> = <<>>
    OBVIOUS
  <2> QED  BY <2>1, <2>2 DEF Codes
<1>3. Now = Untouched /\ ideal = Untouched
  BY <1>1 DEF Init, Now, At, Untouched
<1>4. Leads(Codes, Now, ideal)
  <2>1. Len(Codes) = 0
    BY <1>2
  <2> QED  BY <1>3, <2>1, NothingLeads
<1>5. ideal = At(ideal.ed, ideal.shift, ideal.caps)
  BY <1>3 DEF Untouched, At
<1> QED  BY <1>1, <1>4, <1>5 DEF TypedInv, Bound

LEMMA BoundKept ==
  ASSUME Bound, Leads(Codes, Now, ideal) => Leads(Codes', Now', ideal),
         intact' => intact /\ ideal' = ideal
  PROVE  Bound'
BY DEF Bound

LEMMA TypedPress ==
  ASSUME TypedInv, NEW key \in Keys, Press(key)
  PROVE  TypedInv'
<1>1. ConsInv' /\ Ed' = Ed
  BY PressStep DEF TypedInv
<1>2. Now' = Now
  BY <1>1 DEF Now, At, Press, editVars
<1>3. CASE intact
  <2>1. ideal' = Meant(key)
    BY <1>3 DEF Press
  <2>2. Leads(Codes', Now, Meant(key)) /\ Meant(key) = At(Meant(key).ed, Meant(key).shift, Meant(key).caps)
    BY <1>3, PressLeads
  <2>3. Leads(Codes', Now', ideal') /\ ideal' = At(ideal'.ed, ideal'.shift, ideal'.caps)
    BY <1>2, <2>1, <2>2
  <2> QED  BY <1>1, <2>3 DEF TypedInv, Bound
<1>4. CASE ~intact
  <2>1. ~intact'
    BY <1>4 DEF Press
  <2> QED  BY <1>1, <2>1 DEF TypedInv, Bound
<1> QED  BY <1>3, <1>4

LEMMA TypedInterrupt ==
  ASSUME TypedInv, KeyboardInterrupt
  PROVE  TypedInv'
<1>1. ConsInv' /\ Ed' = Ed
  BY InterruptStep DEF TypedInv
<1>2. Now' = Now
  BY <1>1 DEF Now, At, KeyboardInterrupt, editVars
<1>3. intact' => intact /\ ~RingFull /\ ideal' = ideal
  BY DEF KeyboardInterrupt, Keep
<1>4. ASSUME ~RingFull  PROVE Codes' = Codes
  <2>1. wire \in Seq(Scancodes) /\ wire # <<>> /\ wire' = Tail(wire) /\ RingTypeOK /\ RingTypeOK'
    BY <1>1, LineFacts DEF TypedInv, KeyboardInterrupt, ConsInv, TypeOK
  <2>2. StoreKey(Head(wire))
    BY <1>4 DEF KeyboardInterrupt, RefuseKey
  <2> QED  BY <2>1, <2>2, CodesSent
<1>5. Bound'
  BY <1>2, <1>3, <1>4 DEF TypedInv, Bound
<1> QED  BY <1>1, <1>5 DEF TypedInv

LEMMA QueueSame == UNCHANGED ringVars => UNCHANGED Queue
BY DEF ringVars, Queue, Held, Place

LEMMA TypedInputStart ==
  ASSUME TypedInv, InputStart
  PROVE  TypedInv'
<1>1. ConsInv' /\ Ed' = Ed
  BY InputStartStep DEF TypedInv
<1>2. Now' = Now
  BY <1>1 DEF Now, At, InputStart
<1>3. intact' => intact /\ ~HasKey /\ ideal' = ideal
  BY DEF InputStart, Keep
<1>4. ASSUME ~HasKey  PROVE Codes' = Codes
  <2>1. UNCHANGED ringVars
    BY <1>4 DEF InputStart, FlushKeys, HasKey, ringVars
  <2> QED  BY <2>1, QueueSame DEF Codes, InputStart
<1>5. Bound'
  BY <1>2, <1>3, <1>4 DEF TypedInv, Bound
<1> QED  BY <1>1, <1>5 DEF TypedInv

LEMMA TypedExtended ==
  ASSUME TypedInv, ExtendedKey
  PROVE  TypedInv'
<1>1. ConsInv' /\ Ed' = Arrow(Ed, keybuf[After(key_tail)])
  BY ExtendedStep DEF TypedInv
<1>2. CodesKnown /\ CodesKnown'
  BY <1>1 DEF TypedInv, ConsInv, TypeOK, CodesKnown
<1>3. Shorter(Queue, Queue', 2) /\ Queue[1] = EXTENDED /\ Queue[2] = keybuf[After(key_tail)]
  BY <1>2, PairTaken DEF CodesKnown
<1>4. wire' = wire /\ shift' = shift /\ caps' = caps /\ intact' = intact /\ ideal' = ideal
  BY DEF ExtendedKey
<1>5. Shorter(Codes, Codes', 2) /\ Codes[1] = EXTENDED /\ Codes[2] = keybuf[After(key_tail)]
  <2>1. Shorter(Codes, Codes', 2) /\ \A i \in 1 .. 2 : Codes[i] = Queue[i]
    BY <1>2, <1>3, <1>4, CodesTaken
  <2> QED  BY <1>3, <2>1
<1>6. Now' = Extended(Now, Codes[2])
  BY <1>1, <1>4, <1>5, AtParts DEF Now, Extended, At
<1>7. Leads(Codes, Now, ideal) => Leads(Codes', Now', ideal)
  BY <1>5, <1>6, PairRead
<1>8. Bound'
  BY <1>4, <1>7, BoundKept DEF TypedInv
<1> QED  BY <1>1, <1>8 DEF TypedInv

(* The front code sc read whole. *)
LEMMA TypedTake ==
  ASSUME TypedInv, ConsInv', NEW sc, sc # EXTENDED, Takes(sc),
         intact' = intact, ideal' = ideal, Now' = Plain(Now, sc)
  PROVE  TypedInv'
<1>1. CodesKnown /\ CodesKnown' /\ wire' = wire /\ GetKey /\ FrontKey = sc
  BY DEF TypedInv, ConsInv, TypeOK, CodesKnown, Takes
<1>2. Shorter(Queue, Queue', 1) /\ Queue[1] = sc
  BY <1>1, FrontTaken DEF CodesKnown
<1>3. Shorter(Codes, Codes', 1) /\ \A i \in 1 .. 1 : Codes[i] = Queue[i]
  BY <1>1, <1>2, CodesTaken
<1>4. Codes[1] = sc
  BY <1>2, <1>3
<1>5. Leads(Codes, Now, ideal) => Leads(Codes', Now', ideal)
  BY <1>3, <1>4, PlainRead
<1>6. Bound'
  BY <1>5, BoundKept DEF TypedInv
<1> QED  BY <1>6 DEF TypedInv

LEMMA NowParts == Now.ed = Ed /\ Now.shift = shift /\ Now.caps = caps
BY AtParts DEF Now

LEMMA TypedTakes ==
  ASSUME TypedInv, ModifierKey \/ SilentKey \/ EnterKey \/ BackspaceKey \/ CharacterKey
  PROVE  TypedInv'
<1>1. CASE ModifierKey
  <2>1. ConsInv' /\ Ed' = Ed /\ intact' = intact /\ ideal' = ideal
    BY <1>1, ModifierStep DEF TypedInv, ModifierKey
  <2>2. CASE Takes(LSHIFT)
    <3>1. shift' = TRUE /\ caps' = caps
      BY <1>1, <2>2, CodesDiffer, Zenon DEF ModifierKey, Takes
    <3>2. Now' = Plain(Now, LSHIFT)
      <4>1. Plain(Now, LSHIFT) = At(Now.ed, TRUE, Now.caps)
        BY PlainIs
      <4>2. Now' = At(Ed, TRUE, caps)
        BY <2>1, <3>1, Zenon DEF Now
      <4> QED  BY <4>1, <4>2, NowParts, Zenon
    <3> QED  BY <2>1, <2>2, <3>2, TypedTake, CodesDiffer
  <2>3. CASE Takes(LSHIFT_UP)
    <3>1. shift' = FALSE /\ caps' = caps
      BY <1>1, <2>3, CodesDiffer, Zenon DEF ModifierKey, Takes
    <3>2. Now' = Plain(Now, LSHIFT_UP)
      <4>1. Plain(Now, LSHIFT_UP) = At(Now.ed, FALSE, Now.caps)
        BY PlainIs
      <4>2. Now' = At(Ed, FALSE, caps)
        BY <2>1, <3>1, Zenon DEF Now
      <4> QED  BY <4>1, <4>2, NowParts, Zenon
    <3> QED  BY <2>1, <2>3, <3>2, TypedTake, CodesDiffer
  <2>4. CASE Takes(CAPS)
    <3>1. shift' = shift /\ caps' = ~caps
      BY <1>1, <2>4, Zenon DEF ModifierKey, Takes
    <3>2. Now' = Plain(Now, CAPS)
      <4>1. Plain(Now, CAPS) = At(Now.ed, Now.shift, ~Now.caps)
        BY PlainIs
      <4>2. Now' = At(Ed, shift, ~caps)
        BY <2>1, <3>1, Zenon DEF Now
      <4> QED  BY <4>1, <4>2, NowParts, Zenon
    <3> QED  BY <2>1, <2>4, <3>2, TypedTake, CodesDiffer
  <2> QED  BY <1>1, <2>2, <2>3, <2>4 DEF ModifierKey
<1>2. CASE SilentKey
  <2>1. ConsInv' /\ Ed' = Ed /\ intact' = intact /\ ideal' = ideal /\ shift' = shift /\ caps' = caps
    BY <1>2, SilentStep DEF TypedInv, SilentKey, editVars
  <2>2. PICK sc \in {LETTER_UP, LEFT, RIGHT} : Takes(sc)
    BY <1>2 DEF SilentKey
  <2>3. Now' = Plain(Now, sc)
    <3>1. Plain(Now, sc) = At(Now.ed, Now.shift, Now.caps)
      BY PlainIs
    <3> QED  BY <2>1, <3>1, NowParts DEF Now
  <2> QED  BY <2>1, <2>2, <2>3, TypedTake, CodesDiffer
<1>3. CASE EnterKey
  <2>1. /\ ConsInv' /\ Ed' = Editor!Submit(Ed) /\ Takes(ENTER)
        /\ intact' = intact /\ ideal' = ideal /\ shift' = shift /\ caps' = caps
    BY <1>3, EnterStep DEF TypedInv, EnterKey
  <2>2. Now' = Plain(Now, ENTER)
    <3>1. Plain(Now, ENTER) = At(Editor!Submit(Now.ed), Now.shift, Now.caps)
      BY PlainIs
    <3> QED  BY <2>1, <3>1, NowParts DEF Now
  <2> QED  BY <2>1, <2>2, TypedTake, CodesDiffer
<1>4. CASE BackspaceKey
  <2>1. /\ ConsInv' /\ Ed' = Editor!Erase(Ed) /\ Takes(BACKSPACE)
        /\ intact' = intact /\ ideal' = ideal /\ shift' = shift /\ caps' = caps
    BY <1>4, BackspaceStep DEF TypedInv, BackspaceKey
  <2>2. Now' = Plain(Now, BACKSPACE)
    <3>1. Plain(Now, BACKSPACE) = At(Editor!Erase(Now.ed), Now.shift, Now.caps)
      BY PlainIs
    <3> QED  BY <2>1, <3>1, NowParts DEF Now
  <2> QED  BY <2>1, <2>2, TypedTake, CodesDiffer
<1>5. CASE CharacterKey
  <2>1. /\ ConsInv' /\ Ed' = Editor!Insert(Ed, CharOf(FrontKey, shift, caps))
        /\ intact' = intact /\ ideal' = ideal /\ shift' = shift /\ caps' = caps
    BY <1>5, CharacterStep DEF TypedInv, CharacterKey
  <2>2. PICK sc \in {LETTER, DIGIT} : Takes(sc) /\ FrontKey = sc
    BY <1>5 DEF CharacterKey, Takes
  <2>3. Now' = Plain(Now, sc)
    <3>1. Plain(Now, sc) = At(Editor!Insert(Now.ed, CharOf(sc, Now.shift, Now.caps)), Now.shift, Now.caps)
      BY PlainIs
    <3> QED  BY <2>1, <2>2, <3>1, NowParts DEF Now
  <2> QED  BY <2>1, <2>2, <2>3, TypedTake, CodesDiffer
<1> QED  BY <1>1, <1>2, <1>3, <1>4, <1>5

LEMMA TypedStep ==
  ASSUME TypedInv, [Next]_vars
  PROVE  TypedInv'
<1>1. CASE UNCHANGED vars
  <2>1. ConsInv' /\ Ed' = Ed
    <3>1. RingTypeOK'
      BY <1>1, LineFacts, RingSteps DEF TypedInv, vars
    <3> QED  BY <1>1, <3>1, LineFacts, LineUntouched DEF TypedInv, vars, editVars
  <2>2. Codes' = Codes /\ Now' = Now /\ intact' = intact /\ ideal' = ideal
    BY <1>1, <2>1, QueueSame DEF vars, editVars, Codes, Now, At
  <2> QED  BY <2>1, <2>2 DEF TypedInv, Bound
<1>2. CASE LoneExtended
  <2>1. ConsInv' /\ ~intact'
    BY <1>2, LoneExtendedStep DEF TypedInv, LoneExtended, Keep
  <2> QED  BY <2>1 DEF TypedInv, Bound
<1> QED  BY <1>1, <1>2, TypedPress, TypedInterrupt, TypedInputStart, TypedExtended, TypedTakes DEF Next, Tick

LEMMA TypedInvReads ==
  ASSUME TypedInv
  PROVE  TypedIsRead
<1> SUFFICES ASSUME intact, wire = <<>>, ~HasKey
             PROVE  ideal.shift = shift /\ ideal.caps = caps /\ ideal.ed = Ed
  BY DEF TypedIsRead, Ed
<1>1. CodesKnown
  BY DEF TypedInv, ConsInv, TypeOK, CodesKnown
<1>2. Held = 0
  BY <1>1, HeldBounds, KeyRingAssumption DEF CodesKnown
<1>3. Len(Codes) = 0
  <2>1. Len(Queue) = 0 /\ Len(wire) = 0
    BY <1>1, <1>2, QueueIsSeq DEF CodesKnown
  <2> QED  BY <1>1, <2>1, CodesAre
<1>4. Now = ideal
  BY <1>3, NothingLeads DEF TypedInv, Bound
<1> QED  BY <1>4, NowParts

(* While no code is refused, flushed or torn, an emptied ring leaves the     *)
(* line, the cursor and the shift state the keys typed: TypedIsRead.         *)
THEOREM TypedKeysAreRead == Spec => []TypedIsRead
<1>1. TypedInv /\ [Next]_vars => TypedInv'
  BY TypedStep
<1>2. TypedInv => TypedIsRead
  BY TypedInvReads
<1> QED  BY TypedInit, <1>1, <1>2, PTL DEF Spec

-----------------------------------------------------------------------------
(* The prompt as a user of the queue                                         *)

LEMMA ShorterIsRest ==
  ASSUME NEW S, NEW q \in Seq(S), NEW q2 \in Seq(S), NEW k \in Nat, k >= 1, Shorter(q, q2, k)
  PROVE  q2 = SubSeq(q, k + 1, Len(q))
<1>1. /\ Len(q) \in Nat /\ k <= Len(q) /\ Len(q2) = Len(q) - k
      /\ \A i \in 1 .. Len(q) - k : q2[i] = q[i + k]
  BY DEF Shorter
<1>2. SubSeq(q, k + 1, Len(q)) = [i \in 1 .. Len(q) - k |-> q[i + k]]
  BY <1>1
<1>3. q2 = [i \in 1 .. Len(q) - k |-> q2[i]]
  BY <1>1
<1> QED  BY <1>1, <1>2, <1>3

(* Both codes of an extended key leave the queue in one step. *)
LEMMA PairIsTake ==
  ASSUME RingTypeOK, RingTypeOK', ExtendedKey
  PROVE  Fifo!Take
<1>1. Shorter(Queue, Queue', 2) /\ key_tail' = (key_tail + 2) % (KEYBUF_SIZE - 1 + 1)
  BY PairTaken
<1>2. Queue \in Seq(Scancodes \cup {0})
  BY QueueIsSeq
<1>3. Queue' \in Seq(Scancodes \cup {0})
  <2>1. (Queue \in Seq(Scancodes \cup {0}))'
    BY QueueIsSeq, PTL
  <2> QED  BY <2>1
<1>4. 2 \in 1 .. Len(Queue)
  BY <1>1 DEF Shorter
<1>5. Queue' = SubSeq(Queue, 2 + 1, Len(Queue))
  BY <1>1, <1>2, <1>3, ShorterIsRest
<1> QED  BY <1>1, <1>4, <1>5 DEF Fifo!Take

LEMMA PromptFifoStep ==
  ASSUME ConsInv, ConsInv', [Next]_vars
  PROVE  Fifo!Next \/ UNCHANGED <<Queue, key_tail>>
<1>1. RingTypeOK /\ RingTypeOK' /\ wire \in Seq(Scancodes)
  BY DEF ConsInv, TypeOK
<1>2. CASE UNCHANGED ringVars
  BY <1>2, QueueSame DEF ringVars
<1>3. CASE KeyboardInterrupt
  <2>1. Head(wire) \in Scancodes
    BY <1>1, <1>3 DEF KeyboardInterrupt
  <2>2. CASE StoreKey(Head(wire))
    BY <1>1, <2>1, <2>2, StoreIsPut DEF Fifo!Next
  <2>3. CASE RefuseKey
    BY <1>2, <2>3 DEF RefuseKey
  <2> QED  BY <1>3, <2>2, <2>3 DEF KeyboardInterrupt
<1>4. CASE FlushKeys
  BY <1>1, <1>4, FlushIsTake DEF Fifo!Next
<1>5. CASE GetKey
  BY <1>1, <1>5, GetIsTake DEF Fifo!Next
<1>6. CASE ExtendedKey
  BY <1>1, <1>6, PairIsTake DEF Fifo!Next
<1>7. \/ UNCHANGED ringVars \/ KeyboardInterrupt \/ FlushKeys \/ GetKey \/ ExtendedKey
  BY DEF Next, vars, Tick, Press, InputStart, LoneExtended, ModifierKey, SilentKey, EnterKey,
         BackspaceKey, CharacterKey, Takes
<1> QED  BY <1>2, <1>3, <1>4, <1>5, <1>6, <1>7

(* What the keyboard interrupt and the prompt do with the ring are           *)
(* operations of the queue, an extended key taking two codes: IsFifo.        *)
THEOREM PromptUsesFifo == Spec => IsFifo
<1>1. Init => Fifo!Init
  BY KeyRingAssumption DEF Init, RingInit, Fifo!Init, Queue, Held, Places
<1>2. ConsInv /\ [Next]_vars => ConsInv'
  BY ConsStep
<1>3. ConsInv /\ ConsInv' /\ [Next]_vars => [Fifo!Next]_<<Queue, key_tail>>
  BY PromptFifoStep
<1> QED  BY InitInv, <1>1, <1>2, <1>3, PTL DEF Spec, IsFifo, Fifo!Spec
=============================================================================

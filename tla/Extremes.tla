------------------------------ MODULE Extremes ------------------------------
(***************************************************************************)
(* That a set of naturals has a least element, and a bounded one a         *)
(* greatest: what the loops of the kernel that look for the lowest free    *)
(* slot or the highest end find.  From that, that a function defined by    *)
(* recursion along two measures exists: what the recursive functions that  *)
(* walk the paths and the links of the file system compute.                *)
(***************************************************************************)
EXTENDS Integers, TLAPS, WellFoundedInduction

LEMMA NaturalsAreWellFounded ==
  IsWellFoundedOn({pair \in Nat \X Nat : pair[1] < pair[2]}, Nat)
BY NatLessThanWellFounded DEF OpToRel

LEMMA LeastExists ==
  ASSUME NEW S \in SUBSET Nat, S # {}
  PROVE  \E m \in S : \A k \in S : m <= k
<1> DEFINE Below == {pair \in Nat \X Nat : pair[1] < pair[2]}
<1>1. \A k, m \in Nat : <<k, m>> \in Below <=> k < m
  OBVIOUS
<1> HIDE DEF Below
<1>2. \E m \in S : \A k \in S : ~(<<k, m>> \in Below)
  BY NaturalsAreWellFounded, WFMin DEF Below
<1>3. PICK m \in S : \A k \in S : ~(<<k, m>> \in Below)
  BY <1>2
<1>4. ASSUME NEW k \in S  PROVE  m <= k
  <2>1. k \in Nat /\ m \in Nat
    OBVIOUS
  <2>2. ~(k < m)
    BY <2>1, <1>1, <1>3
  <2> QED  BY <2>1, <2>2
<1> QED  BY <1>4

LEMMA GreatestExists ==
  ASSUME NEW n \in Nat, NEW S \in SUBSET (0 .. n), S # {}
  PROVE  \E m \in S : \A k \in S : m >= k
<1> DEFINE Mirror == {n - k : k \in S}
<1>1. Mirror \in SUBSET Nat /\ Mirror # {}
  <2>1. \A k \in S : n - k \in Nat
    <3> TAKE k \in S
    <3>1. k \in 0 .. n
      OBVIOUS
    <3> QED  BY <3>1
  <2>2. PICK k \in S : TRUE
    OBVIOUS
  <2>3. n - k \in Mirror
    BY <2>2
  <2> QED  BY <2>1, <2>3
<1>2. PICK x \in Mirror : \A y \in Mirror : x <= y
  BY <1>1, LeastExists
<1>3. PICK m \in S : x = n - m
  BY <1>2
<1>4. \A k \in S : n - m <= n - k
  BY <1>2, <1>3
<1>5. ASSUME NEW k \in S  PROVE  m >= k
  <2>1. k \in 0 .. n /\ m \in 0 .. n /\ n - m <= n - k
    BY <1>4
  <2> QED  BY <2>1
<1> QED  BY <1>5

-----------------------------------------------------------------------------
(* Recursion along a major and, within it, a minor measure                  *)

Precedes(major, minor, y, x) ==
  major[y] < major[x] \/ (major[y] = major[x] /\ minor[y] < minor[x])

LEMMA PrecedesIsAnOrder ==
  ASSUME NEW Dom, NEW major \in [Dom -> Nat], NEW minor \in [Dom -> Nat],
         NEW x \in Dom, NEW y \in Dom, NEW z \in Dom
  PROVE  /\ ~Precedes(major, minor, x, x)
         /\ Precedes(major, minor, z, y) /\ Precedes(major, minor, y, x)
              => Precedes(major, minor, z, x)
<1>1. major[x] \in Nat /\ major[y] \in Nat /\ major[z] \in Nat
  OBVIOUS
<1>2. minor[x] \in Nat /\ minor[y] \in Nat /\ minor[z] \in Nat
  OBVIOUS
<1> QED  BY <1>1, <1>2 DEF Precedes

(* Every nonempty set holds an argument none of its arguments precedes. *)
LEMMA FirstExists ==
  ASSUME NEW Dom, NEW major \in [Dom -> Nat], NEW minor \in [Dom -> Nat],
         NEW S \in SUBSET Dom, S # {}
  PROVE  \E x \in S : \A y \in S : ~Precedes(major, minor, y, x)
<1> DEFINE Majors == {major[y] : y \in S}
<1>1. Majors \in SUBSET Nat /\ Majors # {}
  OBVIOUS
<1>2. PICK m \in Majors : \A k \in Majors : m <= k
  BY <1>1, LeastExists
<1> DEFINE Tied == {y \in S : major[y] = m}
           Minors == {minor[y] : y \in Tied}
<1>3. Minors \in SUBSET Nat /\ Minors # {}
  OBVIOUS
<1>4. PICK n \in Minors : \A k \in Minors : n <= k
  BY <1>3, LeastExists
<1>5. PICK x \in Tied : minor[x] = n
  OBVIOUS
<1>6. ASSUME NEW y \in S  PROVE  ~Precedes(major, minor, y, x)
  <2>1. /\ major[y] \in Nat /\ minor[y] \in Nat
        /\ major[x] \in Nat /\ minor[x] \in Nat
    OBVIOUS
  <2>2. major[x] <= major[y]
    BY <1>2, <1>5
  <2>3. major[y] = major[x] => minor[x] <= minor[y]
    BY <1>4, <1>5
  <2> QED  BY <2>1, <2>2, <2>3 DEF Precedes
<1> QED  BY <1>5, <1>6

(* A body that looks only at the values of preceding arguments. *)
Grounded(Dom, Val, major, minor, body) ==
  /\ major \in [Dom -> Nat] /\ minor \in [Dom -> Nat]
  /\ body \in [[Dom -> Val] -> [Dom -> Val]]
  /\ \A g, h \in [Dom -> Val] : \A x \in Dom :
       (\A y \in Dom : Precedes(major, minor, y, x) => g[y] = h[y])
         => body[g][x] = body[h][x]

(* Such a body has a fixed point: the recursive function it defines exists. *)
LEMMA RecursionExists ==
  ASSUME NEW Dom, NEW Val, Val # {}, NEW major, NEW minor, NEW body,
         Grounded(Dom, Val, major, minor, body)
  PROVE  \E f \in [Dom -> Val] : f = body[f]
<1> DEFINE Before(y, x) == Precedes(major, minor, y, x)
           UpTo(x) == {y \in Dom : y = x \/ Before(y, x)}
           Right(g, x) == \A y \in UpTo(x) : g[y] = body[g][y]
           Good(x) == {g \in [Dom -> Val] : Right(g, x)}
           v0 == CHOOSE v \in Val : TRUE
<1>0. major \in [Dom -> Nat] /\ minor \in [Dom -> Nat]
  BY DEF Grounded
<1>a. \A x \in Dom : ~Before(x, x)
  BY <1>0, PrecedesIsAnOrder
<1>b. \A x, y, z \in Dom : Before(z, y) /\ Before(y, x) => Before(z, x)
  BY <1>0, PrecedesIsAnOrder
<1>c. \A S \in SUBSET Dom : S # {} => \E x \in S : \A y \in S : ~Before(y, x)
  BY <1>0, FirstExists
<1>d. ASSUME NEW g \in [Dom -> Val], NEW h \in [Dom -> Val], NEW x \in Dom,
             \A y \in Dom : Before(y, x) => g[y] = h[y]
      PROVE  body[g][x] = body[h][x]
  BY <1>d DEF Grounded
<1>e. \A g \in [Dom -> Val] : body[g] \in [Dom -> Val]
  BY DEF Grounded
<1>f. v0 \in Val
  OBVIOUS
<1> HIDE DEF Before, v0
(* Two functions right up to x agree up to x. *)
<1>1. ASSUME NEW x \in Dom, NEW g \in Good(x), NEW u \in Dom, NEW h \in Good(u),
             NEW y \in UpTo(x) \cap UpTo(u)
      PROVE  g[y] = h[y]
  <2> DEFINE Differ == {z \in UpTo(x) \cap UpTo(u) : g[z] # h[z]}
  <2>1. SUFFICES ASSUME Differ # {}  PROVE FALSE
    OBVIOUS
  <2>2. PICK m \in Differ : \A z \in Differ : ~Before(z, m)
    <3>1. Differ \in SUBSET Dom
      OBVIOUS
    <3> QED  BY <2>1, <3>1, <1>c
  <2>3. \A z \in Dom : Before(z, m) => z \in UpTo(x) \cap UpTo(u)
    BY <1>b
  <2>4. \A z \in Dom : Before(z, m) => g[z] = h[z]
    BY <2>2, <2>3
  <2>5. body[g][m] = body[h][m]
    BY <2>4, <1>d
  <2> QED  BY <2>2, <2>5
(* For each x there is a function right up to x. *)
<1>2. \A x \in Dom : Good(x) # {}
  <2> DEFINE Bad == {x \in Dom : Good(x) = {}}
  <2>1. SUFFICES ASSUME Bad # {}  PROVE FALSE
    OBVIOUS
  <2>2. PICK x \in Bad : \A y \in Bad : ~Before(y, x)
    BY <2>1, <1>c
  <2> DEFINE Pick(y) == CHOOSE g \in Good(y) : TRUE
             low  == [y \in Dom |-> IF Before(y, x) THEN Pick(y)[y] ELSE v0]
             full == [low EXCEPT ![x] = body[low][x]]
  <2>3. \A y \in Dom : Before(y, x) => Pick(y) \in Good(y)
    BY <2>2
  <2>4. \A y \in Dom : Before(y, x) => Pick(y) \in [Dom -> Val]
    BY <2>3
  <2> HIDE DEF Pick
  <2>5. low \in [Dom -> Val]
    BY <2>4, <1>f
  <2>6. full \in [Dom -> Val]
    BY <2>5, <1>e
  <2>7. \A y \in Dom : Before(y, x) => full[y] = Pick(y)[y]
    BY <1>a
  <2>7a. full[x] = body[low][x]
    OBVIOUS
  <2>7b. \A z \in Dom : Before(z, x) => full[z] = low[z]
    BY <1>a
  <2> HIDE DEF full, low
  <2>8. ASSUME NEW y \in UpTo(x)  PROVE full[y] = body[full][y]
    <3>1. CASE Before(y, x)
      <4>1. ASSUME NEW z \in Dom, Before(z, y)  PROVE full[z] = Pick(y)[z]
        <5>1. Before(z, x)
          BY <1>b, <3>1, <4>1
        <5>2. z \in UpTo(z) \cap UpTo(y)
          BY <4>1
        <5>3. Pick(z) \in Good(z) /\ Pick(y) \in Good(y)
          BY <5>1, <3>1, <2>3
        <5>4. Pick(z)[z] = Pick(y)[z]
          <6>1. y \in Dom
            OBVIOUS
          <6> HIDE DEF Good, UpTo
          <6> QED  BY <6>1, <5>2, <5>3, <1>1
        <5> QED  BY <5>1, <5>4, <2>7
      <4>2. body[full][y] = body[Pick(y)][y]
        BY <4>1, <3>1, <2>4, <2>6, <1>d
      <4>3. Pick(y)[y] = body[Pick(y)][y]
        BY <3>1, <2>3
      <4> QED  BY <4>2, <4>3, <3>1, <2>7
    <3>2. CASE y = x
      <4>1. body[full][x] = body[low][x]
        BY <2>5, <2>6, <2>7b, <1>d
      <4> QED  BY <4>1, <3>2, <2>7a
    <3> QED  BY <3>1, <3>2
  <2>9. full \in Good(x)
    BY <2>6, <2>8
  <2> QED  BY <2>9
<1> DEFINE Pick(y) == CHOOSE g \in Good(y) : TRUE
           glued == [y \in Dom |-> Pick(y)[y]]
<1>3. \A y \in Dom : Pick(y) \in Good(y)
  BY <1>2
<1>4. \A y \in Dom : Pick(y) \in [Dom -> Val]
  BY <1>3
<1> HIDE DEF Pick
<1>5. glued \in [Dom -> Val]
  BY <1>4
<1>6. \A y \in Dom : glued[y] = Pick(y)[y]
  OBVIOUS
<1> HIDE DEF glued
<1>7. ASSUME NEW y \in Dom  PROVE glued[y] = body[glued][y]
  <2>1. ASSUME NEW z \in Dom, Before(z, y)  PROVE glued[z] = Pick(y)[z]
    <3>1. z \in UpTo(z) \cap UpTo(y)
      BY <2>1
    <3> QED  BY <3>1, <1>1, <1>3, <1>6
  <2>2. body[glued][y] = body[Pick(y)][y]
    BY <2>1, <1>4, <1>5, <1>d
  <2>3. Pick(y)[y] = body[Pick(y)][y]
    BY <1>3
  <2> QED  BY <2>2, <2>3, <1>6
<1>8. glued = body[glued]
  <2>1. body[glued] \in [Dom -> Val]
    BY <1>5, <1>e
  <2> QED  BY <2>1, <1>5, <1>7
<1> QED  BY <1>5, <1>8
=============================================================================

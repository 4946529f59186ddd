-------------------------- MODULE InodeCacheProofs --------------------------
(***************************************************************************)
(* Which fields of which inodes the copies of load_inode and save_inode,   *)
(* longer than an inode, can spoil, for any number of inodes and changes.  *)
(* What is proved of values supposes that the last inode, whose copy runs  *)
(* over the flags, is never used: LAST_USED < Last.                        *)
(***************************************************************************)
EXTENDS InodeCache, TLAPS

LEMMA Bounds ==
  /\ MAX_INODES \in Nat \ {0} /\ HEADS \in Nat \ {0} /\ TAILS \in Nat
  /\ FLAGS \in 0 .. MAX_INODES /\ DIR_SLOTS \in Nat \ {0}
  /\ 0 \in Inodes /\ Last \in Inodes /\ Inodes \subseteq Nat /\ 0 \in Slots
  /\ 0 \in Heads /\ 0 \in Tails /\ 0 .. FLAGS - 1 \subseteq Inodes
BY InodeCacheAssumption DEF Inodes, Last, Slots, Heads, Tails, MIXED

Copies  == [head : Heads, tail : Tails]
Sectors == [Inodes -> [own : Copies, next : Heads, flags : SUBSET Inodes]]
Meant   == [head : 0 .. HEADS, tail : 0 .. TAILS]
Nodes   == [type : {"FILE", "DIR", "SYMLINK", "HARDLINK"},
            dir : Inodes \cup {NONE}, slot : Slots, block : BOOLEAN, target_inode : Inodes]

LEMMA Typed ==
  ASSUME TypeOK
  PROVE  /\ inode_cache \in [Inodes -> Copies] /\ sector \in Sectors
         /\ meant \in [Inodes -> Meant] /\ node \in [Inodes -> Nodes]
         /\ inode_cache_loaded \subseteq Inodes /\ inode_bitmap \subseteq Inodes
         /\ inode_cache_dirty \subseteq Inodes
BY DEF TypeOK, Copies, Sectors, Meant, Nodes

(* A head, a tail of a cache changes: the change was allowed.                *)
LEMMA HeadChanges ==
  ASSUME NEW cache \in [Inodes -> Copies], NEW want \in [Inodes -> Meant], NEW i \in Inodes,
         want[i].head < HEADS
  PROVE  /\ [cache EXCEPT ![i].head = Changed(@, want[i].head)] \in [Inodes -> Copies]
         /\ [want EXCEPT ![i].head = @ + 1] \in [Inodes -> Meant]
<1>1. /\ cache[i].head \in Heads /\ want[i].head \in 0 .. HEADS
      /\ want[i].head + 1 \in 0 .. HEADS
  BY Bounds DEF Copies, Meant
<1>2. Changed(cache[i].head, want[i].head) \in Heads
  BY <1>1, Bounds DEF Changed, Heads, MIXED
<1> QED  BY <1>1, <1>2 DEF Copies, Meant

LEMMA TailChanges ==
  ASSUME NEW cache \in [Inodes -> Copies], NEW want \in [Inodes -> Meant], NEW i \in Inodes,
         want[i].tail < TAILS
  PROVE  /\ [cache EXCEPT ![i].tail = Changed(@, want[i].tail)] \in [Inodes -> Copies]
         /\ [want EXCEPT ![i].tail = @ + 1] \in [Inodes -> Meant]
<1>1. /\ cache[i].tail \in Tails /\ want[i].tail \in 0 .. TAILS
      /\ want[i].tail + 1 \in 0 .. TAILS
  BY Bounds DEF Copies, Meant
<1>2. Changed(cache[i].tail, want[i].tail) \in Tails
  BY <1>1, Bounds DEF Changed, Tails, MIXED
<1> QED  BY <1>1, <1>2 DEF Copies, Meant

LEMMA FilledTypes ==
  ASSUME TypeOK, NEW i \in Inodes, meant[i].head < HEADS, meant[i].tail < TAILS
  PROVE  Filled(i) \in Meant /\ Filled(i) \in Copies
<1>1. meant[i].head + 1 \in 0 .. HEADS /\ meant[i].tail + 1 \in 0 .. TAILS
  BY Typed, Bounds DEF Meant
<1>2. meant[i].head + 1 \in Heads /\ meant[i].tail + 1 \in Tails
  BY <1>1, Bounds DEF Heads, Tails, MIXED
<1> QED  BY <1>1, <1>2 DEF Filled, Meant, Copies

LEMMA SaveTypes ==
  ASSUME TypeOK, NEW i \in Inodes, NEW cache \in [Inodes -> Copies], NEW sec \in Sectors
  PROVE  Save(i, cache, sec) \in Sectors
<1> DEFINE out == [own   |-> cache[i],
                   next  |-> IF i = Last THEN 0 ELSE cache[i + 1].head,
                   flags |-> IF i = Last THEN inode_cache_loaded \cap (0 .. FLAGS - 1) ELSE {}]
<1>1. i # Last => i + 1 \in Inodes
  BY Bounds DEF Inodes, Last
<1>2. out \in [own : Copies, next : Heads, flags : SUBSET Inodes]
  BY <1>1, Bounds, Typed DEF Copies
<1> HIDE DEF out
<1>3. Save(i, cache, sec) = [sec EXCEPT ![i] = out]
  BY DEF Save, out
<1> QED  BY <1>2, <1>3 DEF Sectors

LEMMA CopyInTypes ==
  ASSUME TypeOK, NEW i \in Inodes, NEW cache \in [Inodes -> Copies]
  PROVE  CopyIn(i, cache) \in [Inodes -> Copies]
<1>1. \A j \in Inodes : CopyIn(i, cache)[j] \in Copies
  BY DEF CopyIn, TypeOK, Copies
<1>2. CopyIn(i, cache) = [j \in Inodes |-> CopyIn(i, cache)[j]]
  BY DEF CopyIn
<1> QED  BY <1>1, <1>2

LEMMA FlagsInTypes ==
  ASSUME TypeOK, NEW i \in Inodes, NEW loaded \in SUBSET Inodes
  PROVE  FlagsIn(i, loaded) \in SUBSET Inodes /\ i \in FlagsIn(i, loaded)
BY Typed DEF FlagsIn, Sectors

LEMMA AddChildTypes ==
  ASSUME TypeOK, NEW p \in Inodes, NEW i \in Inodes, NEW made \in Nodes,
         NEW cache \in [Inodes -> Copies], NEW sec \in Sectors, NEW want \in [Inodes -> Meant],
         AddChild(p, i, made, cache, sec, want)
  PROVE  /\ inode_cache' \in [Inodes -> Copies] /\ sector' \in Sectors
         /\ meant' \in [Inodes -> Meant] /\ node' \in [Inodes -> Nodes]
<1> DEFINE first == [cache EXCEPT ![p].head = Changed(@, want[p].head)]
<1>1. Save(p, cache, sec) \in Sectors
  BY SaveTypes
<1>2. ASSUME NEW s \in Slots
      PROVE  [node EXCEPT ![i] = [made EXCEPT !.dir = p, !.slot = s]] \in [Inodes -> Nodes]
  BY Typed DEF Nodes
<1>3. [node EXCEPT ![i] = [made EXCEPT !.dir = p], ![p].block = TRUE] \in [Inodes -> Nodes]
  <2>1. [made EXCEPT !.dir = p] \in Nodes
    BY DEF Nodes
  <2>2. [node EXCEPT ![i] = [made EXCEPT !.dir = p]] \in [Inodes -> Nodes]
    BY Typed, <2>1
  <2>3. ASSUME NEW n \in [Inodes -> Nodes]  PROVE [n EXCEPT ![p].block = TRUE] \in [Inodes -> Nodes]
    BY DEF Nodes
  <2> DEFINE n == [node EXCEPT ![i] = [made EXCEPT !.dir = p]]
  <2>4. [n EXCEPT ![p].block = TRUE] \in [Inodes -> Nodes]
    BY <2>2, <2>3
  <2>5. [n EXCEPT ![p].block = TRUE]
          = [node EXCEPT ![i] = [made EXCEPT !.dir = p], ![p].block = TRUE]
    BY Typed
  <2> QED  BY <2>4, <2>5
<1>4. [node EXCEPT ![i] = made] \in [Inodes -> Nodes]
  BY Typed
<1>5. want[p].head < HEADS => /\ first \in [Inodes -> Copies]
                              /\ [want EXCEPT ![p].head = @ + 1] \in [Inodes -> Meant]
  BY HeadChanges
<1>6. first \in [Inodes -> Copies] => Save(p, first, sec) \in Sectors
  BY SaveTypes
<1> HIDE DEF first
<1>7. \/ /\ \E s \in Slots : node' = [node EXCEPT ![i] = [made EXCEPT !.dir = p, !.slot = s]]
         /\ inode_cache' = cache /\ meant' = want /\ sector' = Save(p, cache, sec)
      \/ /\ want[p].head < HEADS
         /\ node' = [node EXCEPT ![i] = [made EXCEPT !.dir = p], ![p].block = TRUE]
         /\ inode_cache' = first /\ meant' = [want EXCEPT ![p].head = @ + 1]
         /\ sector' = Save(p, first, sec)
      \/ /\ node' = [node EXCEPT ![i] = made]
         /\ inode_cache' = cache /\ meant' = want /\ sector' = sec
  BY Zenon DEF AddChild, first
<1> QED  BY <1>1, <1>2, <1>3, <1>4, <1>5, <1>6, <1>7

LEMMA InitTypes == Init => TypeOK
BY Bounds DEF Init, TypeOK, Root, Zero, Unlisted, Heads, Tails, MIXED, NONE

LEMMA MakeTypes ==
  ASSUME TypeOK, NEW p \in Inodes, NEW i \in Inodes,
         \/ \E type \in {"FILE", "DIR", "SYMLINK"} : Create(p, i, type)
         \/ \E t \in Inodes : Hardlink(p, i, t)
  PROVE  TypeOK'
<1>1. /\ inode_bitmap' = inode_bitmap \cup {i} /\ overrun' = overrun \ {i}
      /\ lost' = lost \ {i} /\ UNCHANGED inode_cache_loaded
      /\ meant[i].head < HEADS /\ meant[i].tail < TAILS
      /\ inode_cache_dirty' \subseteq inode_cache_dirty
  BY Zenon DEF Create, Hardlink, Fresh
<1>2. Filled(i) \in Meant /\ Filled(i) \in Copies
  BY <1>1, FilledTypes
<1>3. /\ inode_cache' \in [Inodes -> Copies] /\ sector' \in Sectors
      /\ meant' \in [Inodes -> Meant] /\ node' \in [Inodes -> Nodes]
  <2>1. ASSUME NEW type \in {"FILE", "DIR", "SYMLINK"}, Create(p, i, type)
        PROVE  <1>3!:
    <3> DEFINE cache == [inode_cache EXCEPT ![i] = Filled(i)]
               want  == [meant EXCEPT ![i] = Filled(i)]
    <3>1. cache \in [Inodes -> Copies] /\ want \in [Inodes -> Meant]
      BY <1>2, Typed
    <3>2. Unlisted(type, 0) \in Nodes
      BY Bounds DEF Unlisted, Nodes
    <3>3. AddChild(p, i, Unlisted(type, 0), cache, Save(i, cache, sector), want)
      BY <2>1, Zenon DEF Create
    <3> HIDE DEF cache, want
    <3>4. Save(i, cache, sector) \in Sectors
      BY <3>1, SaveTypes, Typed
    <3> QED  BY <3>1, <3>2, <3>3, <3>4, AddChildTypes
  <2>2. ASSUME NEW t \in Inodes, Hardlink(p, i, t)
        PROVE  <1>3!:
    <3> DEFINE cache == [inode_cache EXCEPT ![i] = Filled(i),
                                            ![t].tail = Changed(@, meant[t].tail)]
               want  == [meant EXCEPT ![i] = Filled(i), ![t].tail = @ + 1]
               made  == Unlisted("HARDLINK", t)
    <3>1. meant[t].tail < TAILS /\ t \in inode_bitmap /\ i \notin inode_bitmap
      BY <2>2 DEF Hardlink, Found, Walked, Fresh
    <3>2. cache \in [Inodes -> Copies] /\ want \in [Inodes -> Meant]
      <4> DEFINE c == [inode_cache EXCEPT ![i] = Filled(i)]
                 w == [meant EXCEPT ![i] = Filled(i)]
      <4>1. c \in [Inodes -> Copies] /\ w \in [Inodes -> Meant] /\ w[t] = meant[t]
        BY <1>2, <3>1, Typed
      <4>2. cache = [c EXCEPT ![t].tail = Changed(@, w[t].tail)] /\ want = [w EXCEPT ![t].tail = @ + 1]
        BY <3>1, <4>1, Typed
      <4> HIDE DEF c, w, cache, want
      <4> QED  BY <3>1, <4>1, <4>2, TailChanges
    <3>3. made \in Nodes
      BY Bounds DEF Unlisted, Nodes
    <3>4. AddChild(p, i, made, cache, Save(i, cache, Save(t, cache, sector)), want)
      BY <2>2, Zenon DEF Hardlink
    <3> HIDE DEF cache, want, made
    <3>5. Save(i, cache, Save(t, cache, sector)) \in Sectors
      BY <3>2, SaveTypes, Typed
    <3> QED  BY <3>2, <3>3, <3>4, <3>5, AddChildTypes
  <2> QED  BY <2>1, <2>2
<1> QED  BY <1>1, <1>3, Typed DEF TypeOK, Copies, Sectors, Meant, Nodes

LEMMA WriteTypes ==
  ASSUME TypeOK, NEW i \in Inodes, Write(i) \/ WriteCut(i) \/ WriteOver(i) \/ RemoveDir(i)
  PROVE  TypeOK'
<1> DEFINE cache == [inode_cache EXCEPT ![i].head = Changed(@, meant[i].head)]
           want  == [meant EXCEPT ![i].head = @ + 1]
<1>1. meant[i].head < HEADS => cache \in [Inodes -> Copies] /\ want \in [Inodes -> Meant]
  BY HeadChanges, Typed
<1>2. [node EXCEPT ![i] = Unlisted("FILE", 0)] \in [Inodes -> Nodes]
  BY Bounds, Typed DEF Unlisted, Nodes
<1> HIDE DEF cache, want
<1>3. cache \in [Inodes -> Copies] => Save(i, cache, sector) \in Sectors
  BY SaveTypes, Typed
<1>4. Save(i, inode_cache, sector) \in Sectors
  BY SaveTypes, Typed
<1>5. CASE Write(i)
  <2>1. /\ meant[i].head < HEADS /\ inode_cache' = cache /\ meant' = want
        /\ sector' = Save(i, cache, sector) /\ inode_cache_dirty' = inode_cache_dirty \ {i}
        /\ UNCHANGED <<inode_cache_loaded, inode_bitmap, node, overrun, lost>>
    BY <1>5, Zenon DEF Write, cache, want
  <2> QED  BY <1>1, <1>3, <2>1, Typed DEF TypeOK, Copies, Sectors, Meant
<1>6. CASE WriteCut(i)
  <2>1. /\ meant[i].head < HEADS /\ inode_cache' = cache /\ meant' = want
        /\ inode_cache_dirty' = inode_cache_dirty \cup {i} /\ i \in inode_cache_loaded
        /\ UNCHANGED <<inode_cache_loaded, sector, inode_bitmap, node, overrun, lost>>
    BY <1>6, Zenon DEF WriteCut, Opened, cache, want
  <2> QED  BY <1>1, <2>1, Typed DEF TypeOK, Copies, Sectors, Meant
<1>7. CASE WriteOver(i)
  BY <1>4, <1>7, Typed DEF WriteOver, TypeOK, Copies, Sectors
<1>8. CASE RemoveDir(i)
  <2>1. /\ meant[i].head < HEADS /\ inode_cache' = cache /\ meant' = want
        /\ sector' = Save(i, cache, sector) /\ inode_cache_dirty' = inode_cache_dirty \ {i}
        /\ node' = [node EXCEPT ![i] = Unlisted("FILE", 0)]
        /\ UNCHANGED <<inode_cache_loaded, inode_bitmap, overrun, lost>>
    BY <1>8, Zenon DEF RemoveDir, cache, want
  <2> QED  BY <1>1, <1>2, <1>3, <2>1, Typed DEF TypeOK, Copies, Sectors, Meant, Nodes
<1> QED  BY <1>5, <1>6, <1>7, <1>8

LEMMA SaveTailTypes ==
  ASSUME TypeOK, NEW i \in Inodes, SaveTail(i)
  PROVE  /\ inode_cache' \in [Inodes -> Copies] /\ sector' \in Sectors
         /\ meant' \in [Inodes -> Meant]
         /\ inode_cache_dirty' = inode_cache_dirty \ {i}
<1> DEFINE cache == [inode_cache EXCEPT ![i].tail = Changed(@, meant[i].tail)]
<1>1. /\ meant[i].tail < TAILS /\ inode_cache' = cache /\ sector' = Save(i, cache, sector)
      /\ meant' = [meant EXCEPT ![i].tail = @ + 1]
      /\ inode_cache_dirty' = inode_cache_dirty \ {i}
  BY Zenon DEF SaveTail
<1>2. cache \in [Inodes -> Copies] /\ meant' \in [Inodes -> Meant]
  BY <1>1, TailChanges, Typed
<1> HIDE DEF cache
<1> QED  BY <1>1, <1>2, SaveTypes, Typed

LEMMA RemoveTypes ==
  ASSUME TypeOK, NEW i \in Inodes, Remove(i) \/ RemoveSymlink(i) \/ Unlink(i)
  PROVE  TypeOK'
<1>1. [node EXCEPT ![i] = Unlisted("FILE", 0)] \in [Inodes -> Nodes]
  BY Bounds, Typed DEF Unlisted, Nodes
<1>2. CASE Remove(i)
  <2>1. [node EXCEPT ![i].dir = NONE, ![i].slot = 0] \in [Inodes -> Nodes]
    <3>1. [node EXCEPT ![i].dir = NONE] \in [Inodes -> Nodes]
      BY Typed DEF Nodes
    <3>2. ASSUME NEW n \in [Inodes -> Nodes]  PROVE [n EXCEPT ![i].slot = 0] \in [Inodes -> Nodes]
      BY Bounds DEF Nodes
    <3> DEFINE n == [node EXCEPT ![i].dir = NONE]
    <3>3. [n EXCEPT ![i].slot = 0] \in [Inodes -> Nodes]
      BY <3>1, <3>2
    <3>4. [n EXCEPT ![i].slot = 0] = [node EXCEPT ![i].dir = NONE, ![i].slot = 0]
      BY Typed
    <3> QED  BY <3>3, <3>4
  <2>2. /\ SaveTail(i) /\ node' = [node EXCEPT ![i].dir = NONE, ![i].slot = 0]
        /\ UNCHANGED <<inode_cache_loaded, inode_bitmap, overrun, lost>>
    BY <1>2, Zenon DEF Remove
  <2> QED  BY <2>1, <2>2, SaveTailTypes, Typed DEF TypeOK, Copies, Sectors, Meant, Nodes
<1>3. CASE RemoveSymlink(i)
  <2>1. /\ node' = [node EXCEPT ![i] = Unlisted("FILE", 0)] /\ inode_bitmap' = inode_bitmap \ {i}
        /\ UNCHANGED <<inode_cache, inode_cache_loaded, inode_cache_dirty, sector, meant,
                       overrun, lost>>
    BY <1>3, Zenon DEF RemoveSymlink
  <2> QED  BY <1>1, <2>1, Typed DEF TypeOK, Copies, Sectors, Meant, Nodes
<1>4. CASE Unlink(i)
  <2>1. /\ SaveTail(node[i].target_inode) /\ node' = [node EXCEPT ![i] = Unlisted("FILE", 0)]
        /\ inode_bitmap' \subseteq inode_bitmap
        /\ UNCHANGED <<inode_cache_loaded, overrun, lost>>
    BY <1>4 DEF Unlink
  <2>2. node[i].target_inode \in Inodes
    BY Typed DEF Nodes
  <2> QED  BY <1>1, <2>1, <2>2, SaveTailTypes, Typed DEF TypeOK, Copies, Sectors, Meant, Nodes
<1> QED  BY <1>2, <1>3, <1>4

LEMMA StepTypes == TypeOK /\ [Next]_vars => TypeOK'
<1> SUFFICES ASSUME TypeOK, [Next]_vars  PROVE TypeOK'
  OBVIOUS
<1>1. ASSUME NEW i \in Inodes, Look(i)  PROVE TypeOK'
  <2>1. CopyIn(i, inode_cache) \in [Inodes -> Copies]
    BY CopyInTypes, Typed
  <2>2. FlagsIn(i, inode_cache_loaded) \in SUBSET Inodes
    BY FlagsInTypes, Typed
  <2> QED  BY <1>1, <2>1, <2>2, Typed DEF Look, TypeOK, Copies
<1>2. CASE Mount
  <2>1. [i \in Inodes |-> Zero] \in [Inodes -> Copies]
    BY Bounds DEF Zero, Copies
  <2>2. CopyIn(0, [i \in Inodes |-> Zero]) \in [Inodes -> Copies]
    BY <2>1, Bounds, CopyInTypes
  <2>3. FlagsIn(0, {}) \in SUBSET Inodes
    BY Bounds, FlagsInTypes
  <2> QED  BY <1>2, <2>2, <2>3, Typed DEF Mount, TypeOK, Copies
<1>3. CASE UNCHANGED vars
  BY <1>3 DEF vars, TypeOK
<1> QED  BY <1>1, <1>2, <1>3, MakeTypes, WriteTypes, RemoveTypes DEF Next

(* The cache, the sectors, the flags and the entries stay well typed, the    *)
(* copy of the last inode over the flags included.                           *)
THEOREM CacheTypeCorrect == Spec => []TypeOK
BY InitTypes, StepTypes, PTL DEF Spec

-----------------------------------------------------------------------------
(* Values                                                                    *)

(* The last inode is never loaded, so that no copy runs over the flags.      *)
OnlyUsed ==
  /\ inode_bitmap \cup inode_cache_loaded \subseteq 0 .. LAST_USED
  /\ inode_cache_dirty \subseteq inode_cache_loaded

(* The inodes whose heads nothing has spoiled.                               *)
Sound == inode_bitmap \ (overrun \cup lost)

(* In the course of a call: the cache and the sectors hold what is wanted,   *)
(* the tails of all inodes and the heads of the sound ones; the sectors may  *)
(* be behind with the heads in H and the tails in T.                         *)
Right(cache, loaded, sec, want, sound, H, T) ==
  \A j \in Inodes :
    /\ j \notin T => sec[j].own.tail = want[j].tail
    /\ j \in loaded => cache[j].tail = want[j].tail
    /\ j \in sound /\ j \notin H => sec[j].own.head = want[j].head
    /\ j \in sound /\ j \in loaded => cache[j].head = want[j].head

VInv ==
  /\ TypeOK /\ OnlyUsed
  /\ Right(inode_cache, inode_cache_loaded, sector, meant, Sound, inode_cache_dirty, {})

LEMMA SaveRight ==
  ASSUME NEW cache, NEW loaded, NEW sec \in Sectors, NEW want, NEW sound, NEW H, NEW T,
         NEW i \in Inodes, Right(cache, loaded, sec, want, sound, H, T),
         i \in loaded \/ cache[i] = want[i]
  PROVE  Right(cache, loaded, Save(i, cache, sec), want, sound, H \ {i}, T \ {i})
<1>1. \A j \in Inodes : Save(i, cache, sec)[j].own = IF j = i THEN cache[i] ELSE sec[j].own
  BY DEF Save, Sectors
<1> QED  BY <1>1 DEF Right

LEMMA BehindRight ==
  ASSUME NEW cache, NEW loaded, NEW sec, NEW want, NEW sound, NEW H, NEW G, NEW T,
         Right(cache, loaded, sec, want, sound, H, T), H \subseteq G
  PROVE  Right(cache, loaded, sec, want, sound, G, T)
BY DEF Right

LEMMA HeadRight ==
  ASSUME NEW cache \in [Inodes -> Copies], NEW loaded, NEW sec, NEW want \in [Inodes -> Meant],
         NEW sound, NEW H, NEW T,
         NEW i \in Inodes, Right(cache, loaded, sec, want, sound, H, T), i \in loaded
  PROVE  Right([cache EXCEPT ![i].head = Changed(@, want[i].head)], loaded, sec,
               [want EXCEPT ![i].head = @ + 1], sound, H \cup {i}, T)
<1> DEFINE c == [cache EXCEPT ![i].head = Changed(@, want[i].head)]
           w == [want EXCEPT ![i].head = @ + 1]
<1>1. /\ c[i].tail = cache[i].tail /\ c[i].head = Changed(cache[i].head, want[i].head)
      /\ w[i].tail = want[i].tail /\ w[i].head = want[i].head + 1
      /\ \A j \in Inodes \ {i} : c[j] = cache[j] /\ w[j] = want[j]
  BY DEF Copies, Meant
<1> HIDE DEF c, w
<1>2. Right(c, loaded, sec, w, sound, H \cup {i}, T)
  BY <1>1 DEF Right, Changed
<1> QED  BY <1>2 DEF c, w

LEMMA TailRight ==
  ASSUME NEW cache \in [Inodes -> Copies], NEW loaded, NEW sec, NEW want \in [Inodes -> Meant],
         NEW sound, NEW H, NEW T,
         NEW i \in Inodes, Right(cache, loaded, sec, want, sound, H, T), i \in loaded
  PROVE  Right([cache EXCEPT ![i].tail = Changed(@, want[i].tail)], loaded, sec,
               [want EXCEPT ![i].tail = @ + 1], sound, H, T \cup {i})
<1> DEFINE c == [cache EXCEPT ![i].tail = Changed(@, want[i].tail)]
           w == [want EXCEPT ![i].tail = @ + 1]
<1>1. /\ c[i].head = cache[i].head /\ c[i].tail = Changed(cache[i].tail, want[i].tail)
      /\ w[i].head = want[i].head /\ w[i].tail = want[i].tail + 1
      /\ \A j \in Inodes \ {i} : c[j] = cache[j] /\ w[j] = want[j]
  BY DEF Copies, Meant
<1> HIDE DEF c, w
<1>2. Right(c, loaded, sec, w, sound, H, T \cup {i})
  BY <1>1 DEF Right, Changed
<1> QED  BY <1>2 DEF c, w

LEMMA FillRight ==
  ASSUME NEW cache \in [Inodes -> Copies], NEW loaded, NEW sec, NEW want \in [Inodes -> Meant],
         NEW sound, NEW H, NEW T, NEW i \in Inodes, NEW filled,
         Right(cache, loaded, sec, want, sound, H, T)
  PROVE  Right([cache EXCEPT ![i] = filled], loaded, sec, [want EXCEPT ![i] = filled],
               sound \cup {i}, H \cup {i}, T \cup {i})
BY DEF Right

LEMMA AddChildRight ==
  ASSUME TypeOK, NEW p \in Inodes, NEW i, NEW made, NEW cache \in [Inodes -> Copies],
         NEW sec \in Sectors, NEW want \in [Inodes -> Meant], NEW sound, NEW H,
         Right(cache, inode_cache_loaded, sec, want, sound, H, {}), p \in inode_cache_loaded,
         AddChild(p, i, made, cache, sec, want)
  PROVE  Right(inode_cache', inode_cache_loaded, sector', meant', sound, H, {})
<1> DEFINE first == [cache EXCEPT ![p].head = Changed(@, want[p].head)]
           grown == [want EXCEPT ![p].head = @ + 1]
<1>1. Right(cache, inode_cache_loaded, Save(p, cache, sec), want, sound, H \ {p}, {} \ {p})
  BY SaveRight
<1>2. Right(first, inode_cache_loaded, sec, grown, sound, H \cup {p}, {})
  BY HeadRight
<1> HIDE DEF first, grown
<1>3. Right(first, inode_cache_loaded, Save(p, first, sec), grown, sound,
            (H \cup {p}) \ {p}, {} \ {p})
  BY <1>2, SaveRight
<1>4. /\ Right(cache, inode_cache_loaded, Save(p, cache, sec), want, sound, H, {})
      /\ Right(first, inode_cache_loaded, Save(p, first, sec), grown, sound, H, {})
  <2>1. H \ {p} \subseteq H /\ (H \cup {p}) \ {p} \subseteq H /\ {} \ {p} = {}
    OBVIOUS
  <2> QED  BY <1>1, <1>3, <2>1, BehindRight
<1>5. \/ inode_cache' = cache /\ meant' = want /\ sector' = Save(p, cache, sec)
      \/ inode_cache' = first /\ meant' = grown /\ sector' = Save(p, first, sec)
      \/ inode_cache' = cache /\ meant' = want /\ sector' = sec
  BY Zenon DEF AddChild, first, grown
<1> QED  BY <1>4, <1>5

LEMMA MakeValues ==
  ASSUME VInv, NEW p \in Inodes, NEW i \in Inodes,
         \/ \E type \in {"FILE", "DIR", "SYMLINK"} : Create(p, i, type)
         \/ \E t \in Inodes : Hardlink(p, i, t)
  PROVE  VInv'
<1>1. /\ inode_bitmap' = inode_bitmap \cup {i} /\ overrun' = overrun \ {i}
      /\ lost' = lost \ {i} /\ inode_cache_loaded' = inode_cache_loaded
      /\ i <= LAST_USED /\ i \notin inode_bitmap
      /\ meant[i].head < HEADS /\ meant[i].tail < TAILS
      /\ p \in inode_cache_loaded
  BY Zenon DEF Create, Hardlink, Fresh, Found
<1>2. Sound' = Sound \cup {i}
  BY <1>1 DEF Sound
<1>3. TypeOK /\ TypeOK'
  BY MakeTypes DEF VInv
<1>4. Filled(i) \in Meant /\ Filled(i) \in Copies
  BY <1>1, <1>3, FilledTypes
<1> DEFINE c == [inode_cache EXCEPT ![i] = Filled(i)]
           w == [meant EXCEPT ![i] = Filled(i)]
<1>5. /\ c \in [Inodes -> Copies] /\ w \in [Inodes -> Meant]
      /\ c[i] = Filled(i) /\ w[i] = Filled(i)
      /\ Right(c, inode_cache_loaded, sector, w, Sound \cup {i},
               inode_cache_dirty \cup {i}, {} \cup {i})
  BY <1>3, <1>4, Typed, FillRight DEF VInv
<1>6. /\ inode_cache_dirty' \subseteq inode_cache_dirty
      /\ Right(inode_cache', inode_cache_loaded, sector', meant', Sound \cup {i},
               inode_cache_dirty', {})
  <2>1. ASSUME NEW type \in {"FILE", "DIR", "SYMLINK"}, Create(p, i, type)
        PROVE  <1>6!:
    <3>1. /\ inode_cache_dirty' = inode_cache_dirty \ {i}
          /\ AddChild(p, i, Unlisted(type, 0), c, Save(i, c, sector), w)
      BY <2>1, Zenon DEF Create
    <3> HIDE DEF c, w
    <3>2. Save(i, c, sector) \in Sectors
      BY <1>3, <1>5, SaveTypes, Typed
    <3>3. Right(c, inode_cache_loaded, Save(i, c, sector), w, Sound \cup {i},
                (inode_cache_dirty \cup {i}) \ {i}, ({} \cup {i}) \ {i})
      <4>1. c[i] = w[i] /\ sector \in Sectors
        BY <1>3, <1>5, Typed
      <4> QED  BY <1>5, <4>1, SaveRight
    <3>4. (inode_cache_dirty \cup {i}) \ {i} = inode_cache_dirty' /\ ({} \cup {i}) \ {i} = {}
      BY <3>1
    <3>5. Right(c, inode_cache_loaded, Save(i, c, sector), w, Sound \cup {i},
                inode_cache_dirty', {})
      BY <3>3, <3>4
    <3> QED  BY <1>1, <1>3, <1>5, <3>1, <3>2, <3>5, AddChildRight
  <2>2. ASSUME NEW t \in Inodes, Hardlink(p, i, t)
        PROVE  <1>6!:
    <3> DEFINE d == [inode_cache EXCEPT ![i] = Filled(i),
                                        ![t].tail = Changed(@, meant[t].tail)]
               v == [meant EXCEPT ![i] = Filled(i), ![t].tail = @ + 1]
    <3>1. /\ inode_cache_dirty' = inode_cache_dirty \ {i, t}
          /\ AddChild(p, i, Unlisted("HARDLINK", t), d, Save(i, d, Save(t, d, sector)), v)
          /\ t \in inode_cache_loaded /\ t \in inode_bitmap /\ meant[t].tail < TAILS
      BY <2>2, Zenon DEF Hardlink, Found, Walked
    <3>2. t # i /\ w[t] = meant[t]
      BY <1>1, <1>3, <3>1, Typed
    <3>3. d = [c EXCEPT ![t].tail = Changed(@, w[t].tail)] /\ v = [w EXCEPT ![t].tail = @ + 1]
      BY <1>3, <3>2, Typed
    <3> HIDE DEF c, w, d, v
    <3>4. d \in [Inodes -> Copies] /\ v \in [Inodes -> Meant]
      BY <1>5, <3>1, <3>2, <3>3, TailChanges
    <3>5. d[i] = v[i]
      BY <1>5, <3>2, <3>3
    <3>6. Right(d, inode_cache_loaded, sector, v, Sound \cup {i},
                inode_cache_dirty \cup {i}, ({} \cup {i}) \cup {t})
      BY <1>5, <3>1, <3>3, TailRight
    <3>7. sector \in Sectors /\ Save(t, d, sector) \in Sectors
          /\ Save(i, d, Save(t, d, sector)) \in Sectors
      BY <1>3, <3>4, SaveTypes, Typed
    <3>8. Right(d, inode_cache_loaded, Save(t, d, sector), v, Sound \cup {i},
                (inode_cache_dirty \cup {i}) \ {t}, (({} \cup {i}) \cup {t}) \ {t})
      BY <3>1, <3>6, <3>7, SaveRight
    <3>9. Right(d, inode_cache_loaded, Save(i, d, Save(t, d, sector)), v, Sound \cup {i},
                ((inode_cache_dirty \cup {i}) \ {t}) \ {i}, ((({} \cup {i}) \cup {t}) \ {t}) \ {i})
      BY <3>5, <3>7, <3>8, SaveRight
    <3>10. /\ ((inode_cache_dirty \cup {i}) \ {t}) \ {i} = inode_cache_dirty'
           /\ ((({} \cup {i}) \cup {t}) \ {t}) \ {i} = {}
      BY <3>1
    <3>11. Right(d, inode_cache_loaded, Save(i, d, Save(t, d, sector)), v, Sound \cup {i},
                 inode_cache_dirty', {})
      BY <3>9, <3>10
    <3> QED  BY <1>1, <1>3, <3>1, <3>4, <3>7, <3>11, AddChildRight
  <2> QED  BY <2>1, <2>2
<1>7. i \in 0 .. LAST_USED
  BY <1>1, Bounds, InodeCacheAssumption DEF Inodes
<1>8. OnlyUsed'
  BY <1>1, <1>6, <1>7 DEF OnlyUsed, VInv
<1> QED  BY <1>1, <1>2, <1>3, <1>6, <1>8 DEF VInv

LEMMA WriteValues ==
  ASSUME VInv, NEW i \in Inodes, Write(i) \/ WriteCut(i) \/ WriteOver(i) \/ RemoveDir(i)
  PROVE  VInv'
<1> DEFINE c == [inode_cache EXCEPT ![i].head = Changed(@, meant[i].head)]
           w == [meant EXCEPT ![i].head = @ + 1]
<1>1. /\ i \in inode_cache_loaded
      /\ UNCHANGED <<inode_cache_loaded, inode_bitmap, overrun, lost>>
  BY Zenon DEF Write, WriteCut, WriteOver, RemoveDir, Opened, Found
<1>2. TypeOK /\ TypeOK' /\ Sound' = Sound /\ {} \ {i} = {}
  BY <1>1, WriteTypes DEF VInv, Sound
<1>3. Right(c, inode_cache_loaded, sector, w, Sound, inode_cache_dirty \cup {i}, {})
  BY <1>1, <1>2, Typed, HeadRight DEF VInv
<1> HIDE DEF c, w
<1>4. Right(c, inode_cache_loaded, Save(i, c, sector), w, Sound,
            (inode_cache_dirty \cup {i}) \ {i}, {} \ {i})
  BY <1>1, <1>2, <1>3, Typed, SaveRight
<1>5. Right(c, inode_cache_loaded, Save(i, c, sector), w, Sound, inode_cache_dirty \ {i}, {})
  <2>1. (inode_cache_dirty \cup {i}) \ {i} = inode_cache_dirty \ {i}
    OBVIOUS
  <2> QED  BY <1>2, <1>4, <2>1
<1>6. Right(inode_cache, inode_cache_loaded, Save(i, inode_cache, sector), meant, Sound,
            inode_cache_dirty \ {i}, {} \ {i})
  BY <1>1, <1>2, Typed, SaveRight DEF VInv
<1>7. CASE Write(i) \/ RemoveDir(i)
  <2>1. /\ inode_cache' = c /\ meant' = w /\ sector' = Save(i, c, sector)
        /\ inode_cache_dirty' = inode_cache_dirty \ {i}
    BY <1>7, Zenon DEF Write, RemoveDir, c, w
  <2>2. OnlyUsed'
    BY <1>1, <2>1 DEF VInv, OnlyUsed
  <2> QED  BY <1>1, <1>2, <1>5, <2>1, <2>2 DEF VInv
<1>8. CASE WriteCut(i)
  <2>1. /\ inode_cache' = c /\ meant' = w /\ sector' = sector
        /\ inode_cache_dirty' = inode_cache_dirty \cup {i}
    BY <1>8, Zenon DEF WriteCut, c, w
  <2>2. OnlyUsed'
    BY <1>1, <2>1 DEF VInv, OnlyUsed
  <2> QED  BY <1>1, <1>2, <1>3, <2>1, <2>2 DEF VInv
<1>9. CASE WriteOver(i)
  <2>1. /\ inode_cache' = inode_cache /\ meant' = meant /\ sector' = Save(i, inode_cache, sector)
        /\ inode_cache_dirty' = inode_cache_dirty \ {i}
    BY <1>9, Zenon DEF WriteOver
  <2>2. OnlyUsed'
    BY <1>1, <2>1 DEF VInv, OnlyUsed
  <2> QED  BY <1>1, <1>2, <1>6, <2>1, <2>2 DEF VInv
<1> QED  BY <1>7, <1>8, <1>9

LEMMA SoundLess ==
  ASSUME NEW cache, NEW loaded, NEW sec, NEW want, NEW sound, NEW less, NEW H, NEW T,
         Right(cache, loaded, sec, want, sound, H, T), less \subseteq sound
  PROVE  Right(cache, loaded, sec, want, less, H, T)
BY DEF Right

LEMMA RemoveValues ==
  ASSUME VInv, NEW i \in Inodes, Remove(i) \/ RemoveSymlink(i) \/ Unlink(i)
  PROVE  VInv'
<1>1. TypeOK /\ TypeOK'
  BY RemoveTypes DEF VInv
<1>2. /\ UNCHANGED <<inode_cache_loaded, overrun, lost>> /\ inode_bitmap' \subseteq inode_bitmap
  BY DEF Remove, RemoveSymlink, Unlink
<1>3. Sound' \subseteq Sound
  BY <1>2 DEF Sound
<1>4. ASSUME NEW t \in Inodes, t \in inode_cache_loaded, SaveTail(t)
      PROVE  /\ Right(inode_cache', inode_cache_loaded, sector', meant', Sound,
                      inode_cache_dirty', {})
             /\ inode_cache_dirty' \subseteq inode_cache_dirty
  <2> DEFINE c == [inode_cache EXCEPT ![t].tail = Changed(@, meant[t].tail)]
             w == [meant EXCEPT ![t].tail = @ + 1]
  <2>1. Right(c, inode_cache_loaded, sector, w, Sound, inode_cache_dirty, {} \cup {t})
    BY <1>1, <1>4, Typed, TailRight DEF VInv
  <2>2. /\ inode_cache' = c /\ meant' = w /\ sector' = Save(t, c, sector)
        /\ inode_cache_dirty' = inode_cache_dirty \ {t}
    BY <1>4, Zenon DEF SaveTail
  <2> HIDE DEF c, w
  <2>3. Right(c, inode_cache_loaded, Save(t, c, sector), w, Sound, inode_cache_dirty \ {t},
              ({} \cup {t}) \ {t})
    BY <1>1, <1>4, <2>1, Typed, SaveRight
  <2>4. ({} \cup {t}) \ {t} = {}
    OBVIOUS
  <2> QED  BY <2>2, <2>3, <2>4
<1>5. /\ Right(inode_cache', inode_cache_loaded, sector', meant', Sound, inode_cache_dirty', {})
      /\ inode_cache_dirty' \subseteq inode_cache_dirty
  <2>1. CASE Remove(i)
    BY <1>4, <2>1 DEF Remove, Found
  <2>2. CASE RemoveSymlink(i)
    BY <2>2 DEF RemoveSymlink, VInv
  <2>3. CASE Unlink(i)
    <3>1. node[i].target_inode \in Inodes
      BY <1>1, Typed DEF Nodes
    <3> QED  BY <1>4, <2>3, <3>1 DEF Unlink
  <2> QED  BY <2>1, <2>2, <2>3
<1>6. Right(inode_cache', inode_cache_loaded, sector', meant', Sound', inode_cache_dirty', {})
  BY <1>3, <1>5, SoundLess
<1>7. OnlyUsed'
  BY <1>2, <1>5 DEF VInv, OnlyUsed
<1> QED  BY <1>1, <1>2, <1>6, <1>7 DEF VInv

LEMMA NotLast ==
  ASSUME LAST_USED < Last, NEW i \in 0 .. LAST_USED
  PROVE  i \in Inodes /\ i # Last
BY Bounds, InodeCacheAssumption DEF Inodes, Last

(* The copy of inode i: its own value is the sector's, of the others only    *)
(* the head of the next one changes.                                         *)
LEMMA CopyInValues ==
  ASSUME TypeOK, NEW i \in Inodes, NEW cache \in [Inodes -> Copies], NEW j \in Inodes
  PROVE  /\ j = i => CopyIn(i, cache)[j] = sector[i].own
         /\ j # i => CopyIn(i, cache)[j].tail = cache[j].tail
         /\ j \notin {i, i + 1} => CopyIn(i, cache)[j] = cache[j]
<1>1. i # i + 1
  BY Bounds
<1>2. CASE j = i
  BY <1>1, <1>2 DEF CopyIn
<1>3. CASE j = i + 1
  BY <1>1, <1>3 DEF CopyIn, Copies
<1>4. CASE j \notin {i, i + 1}
  BY <1>4 DEF CopyIn
<1> QED  BY <1>1, <1>2, <1>3, <1>4

LEMMA LookValues ==
  ASSUME LAST_USED < Last, VInv, NEW i \in Inodes, Look(i), TypeOK'
  PROVE  VInv'
<1>1. /\ i \in inode_bitmap /\ i \notin inode_cache_loaded
      /\ inode_cache' = CopyIn(i, inode_cache)
      /\ inode_cache_loaded' = FlagsIn(i, inode_cache_loaded)
      /\ inode_cache_dirty' = inode_cache_dirty \ {i}
      /\ overrun' = overrun \cup ({i + 1} \cap inode_cache_loaded)
      /\ UNCHANGED <<sector, inode_bitmap, node, meant, lost>>
  BY Zenon DEF Look, Reach, Walked
<1>2. i \in 0 .. LAST_USED
  BY <1>1 DEF VInv, OnlyUsed
<1>3. inode_cache_loaded' = inode_cache_loaded \cup {i}
  BY <1>1, <1>2, NotLast DEF FlagsIn
<1>4. inode_cache_dirty' = inode_cache_dirty /\ i \notin inode_cache_dirty
  BY <1>1 DEF VInv, OnlyUsed
<1>5. OnlyUsed'
  BY <1>1, <1>2, <1>3, <1>4 DEF VInv, OnlyUsed
<1>6. inode_cache \in [Inodes -> Copies] /\ TypeOK
  BY Typed DEF VInv
<1>7. ASSUME NEW j \in Inodes
      PROVE  /\ sector'[j].own.tail = meant'[j].tail
             /\ j \in inode_cache_loaded' => inode_cache'[j].tail = meant'[j].tail
             /\ j \in Sound' /\ j \notin inode_cache_dirty' => sector'[j].own.head = meant'[j].head
             /\ j \in Sound' /\ j \in inode_cache_loaded' => inode_cache'[j].head = meant'[j].head
  <2>1. /\ sector[j].own.tail = meant[j].tail
        /\ j \in inode_cache_loaded => inode_cache[j].tail = meant[j].tail
        /\ j \in Sound /\ j \notin inode_cache_dirty => sector[j].own.head = meant[j].head
        /\ j \in Sound /\ j \in inode_cache_loaded => inode_cache[j].head = meant[j].head
    BY DEF VInv, Right
  <2>2. Sound' \subseteq Sound
    BY <1>1 DEF Sound
  <2>3. CASE j = i
    BY <1>1, <1>3, <1>4, <1>6, <2>1, <2>2, <2>3, CopyInValues
  <2>4. CASE j # i
    <3>1. /\ inode_cache'[j].tail = inode_cache[j].tail
          /\ j # i + 1 => inode_cache'[j] = inode_cache[j]
      BY <1>1, <1>6, <2>4, CopyInValues
    <3>2. j = i + 1 /\ j \in inode_cache_loaded => j \notin Sound'
      BY <1>1 DEF Sound
    <3> QED  BY <1>1, <1>3, <1>4, <2>1, <2>2, <2>4, <3>1, <3>2
  <2> QED  BY <2>3, <2>4
<1>8. Right(inode_cache, inode_cache_loaded, sector, meant, Sound, inode_cache_dirty, {})'
  BY <1>7 DEF Right
<1> QED  BY <1>5, <1>8 DEF VInv

LEMMA MountValues ==
  ASSUME LAST_USED < Last, VInv, Mount, TypeOK'
  PROVE  VInv'
<1>1. 0 \in 0 .. LAST_USED /\ 0 # Last /\ 0 \in Inodes
  BY InodeCacheAssumption, Bounds DEF Inodes
<1>2. /\ inode_cache_loaded' = {0} /\ inode_cache'[0] = sector[0].own
      /\ inode_cache_dirty' = {} /\ lost' = lost \cup inode_cache_dirty
      /\ UNCHANGED <<sector, inode_bitmap, node, meant, overrun>>
  BY <1>1 DEF Mount, FlagsIn, CopyIn
<1>3. OnlyUsed'
  BY <1>1, <1>2 DEF VInv, OnlyUsed
<1>4. Sound' = Sound \ inode_cache_dirty
  BY <1>2 DEF Sound
<1>5. Right(inode_cache', inode_cache_loaded', sector', meant', Sound', inode_cache_dirty', {})
  BY <1>1, <1>2, <1>4 DEF VInv, Right
<1> QED  BY <1>3, <1>5 DEF VInv

LEMMA StepValues ==
  ASSUME LAST_USED < Last
  PROVE  VInv /\ [Next]_vars => VInv'
<1> SUFFICES ASSUME VInv, [Next]_vars  PROVE VInv'
  OBVIOUS
<1>1. TypeOK'
  BY StepTypes DEF VInv
<1>2. CASE UNCHANGED vars
  BY <1>1, <1>2 DEF vars, VInv, OnlyUsed, Sound
<1> QED  BY <1>1, <1>2, LookValues, MountValues, MakeValues, WriteValues, RemoveValues DEF Next

LEMMA InitValues ==
  ASSUME Init
  PROVE  VInv
<1>1. 0 \in 0 .. LAST_USED
  BY InodeCacheAssumption, Bounds DEF Inodes
<1>2. OnlyUsed
  BY <1>1 DEF Init, OnlyUsed
<1>3. Right(inode_cache, inode_cache_loaded, sector, meant, Sound, inode_cache_dirty, {})
  BY DEF Init, Right, Root, Zero
<1> QED  BY <1>2, <1>3, InitTypes DEF VInv

(* The link count and the target of an inode in use are right in the cache   *)
(* and on the disk, whatever was loaded, saved, freed, cut short and         *)
(* mounted, as long as the last inode stays unused.                          *)
THEOREM TailsStayCoherent ==
  ASSUME LAST_USED < Last
  PROVE  Spec => []TailsCoherent
<1>1. VInv => TailsCoherent
  BY Typed DEF VInv, Right, TailsCoherent
<1> QED  BY InitValues, StepValues, <1>1, PTL DEF Spec

(* Name, type, size and blocks of an inode are what was last assigned, on    *)
(* the disk too once no write cut short is left unsaved, until the inode     *)
(* below is loaded after it in one mount, or a mount finds it dirty.         *)
THEOREM HeadsStayCoherent ==
  ASSUME LAST_USED < Last
  PROVE  Spec => []HeadsCoherent
<1>1. VInv => HeadsCoherent
  BY Typed DEF VInv, Right, HeadsCoherent, Sound
<1> QED  BY InitValues, StepValues, <1>1, PTL DEF Spec

(* A head changes behind the calls only when its inode or the one below is   *)
(* loaded for the first time, the last inode and its flags included.         *)
THEOREM SpillsAtFirstLoad == Spec => OnlyFirstLoadSpills
<1>1. TypeOK /\ [Next]_vars =>
        [~Mount => \A i \in Inodes :
           inode_cache'[i].head # inode_cache[i].head /\ meant'[i] = meant[i] =>
             {i - 1, i} \cap (inode_cache_loaded' \ inode_cache_loaded) # {}]_vars
  <2> SUFFICES ASSUME TypeOK, Next, ~Mount, NEW j \in Inodes,
                      inode_cache'[j].head # inode_cache[j].head, meant'[j] = meant[j]
               PROVE  {j - 1, j} \cap (inode_cache_loaded' \ inode_cache_loaded) # {}
    BY Zenon
  <2>1. inode_cache \in [Inodes -> Copies] /\ meant \in [Inodes -> Meant]
    BY Typed
  <2>2. meant[j].head \in Nat /\ meant[j].tail \in Nat
    BY <2>1 DEF Meant
  <2>3. ASSUME NEW i \in Inodes, Look(i)
        PROVE  {j - 1, j} \cap (inode_cache_loaded' \ inode_cache_loaded) # {}
    <3>1. /\ i \notin inode_cache_loaded /\ inode_cache' = CopyIn(i, inode_cache)
          /\ i \in inode_cache_loaded'
      BY <2>3 DEF Look, FlagsIn
    <3>2. j \in {i, i + 1}
      BY <2>1, <3>1, CopyInValues
    <3>3. i \in Int /\ j \in Int
      BY Bounds
    <3> QED  BY <3>1, <3>2, <3>3
  (* The other calls change a head only as they give it a new value. *)
  <2>4. ASSUME NEW cache \in [Inodes -> Copies], NEW want \in [Inodes -> Meant], NEW p \in Inodes,
               NEW i, NEW made, NEW sec, AddChild(p, i, made, cache, sec, want),
               cache[j].head = inode_cache[j].head, want[j].head = meant[j].head
        PROVE  FALSE
    <3>1. \/ inode_cache'[j].head = inode_cache[j].head
          \/ /\ j = p /\ meant'[j].head = meant[j].head + 1
      <4>1. \/ inode_cache' = cache
            \/ /\ inode_cache' = [cache EXCEPT ![p].head = Changed(@, want[p].head)]
               /\ meant' = [want EXCEPT ![p].head = @ + 1]
        BY <2>4, Zenon DEF AddChild
      <4>2. ASSUME inode_cache' = [cache EXCEPT ![p].head = Changed(@, want[p].head)],
                   meant' = [want EXCEPT ![p].head = @ + 1]
            PROVE  <3>1!:
        BY <2>4, <4>2 DEF Copies, Meant
      <4> QED  BY <2>4, <4>1, <4>2
    <3> QED  BY <2>2, <3>1
  <2>5. ASSUME NEW p \in Inodes, NEW i \in Inodes,
               \/ \E type \in {"FILE", "DIR", "SYMLINK"} : Create(p, i, type)
               \/ \E t \in Inodes : Hardlink(p, i, t)
        PROVE  FALSE
    <3>1. /\ meant[i].head < HEADS /\ meant[i].tail < TAILS
          /\ i \notin inode_bitmap /\ p \in inode_bitmap
      BY <2>5, Zenon DEF Create, Hardlink, Fresh, Found, Walked
    <3>2. Filled(i) \in Meant /\ Filled(i) \in Copies /\ Filled(i).head = meant[i].head + 1
      BY <3>1, FilledTypes DEF Filled
    <3> DEFINE c == [inode_cache EXCEPT ![i] = Filled(i)]
               w == [meant EXCEPT ![i] = Filled(i)]
    <3>3. /\ c \in [Inodes -> Copies] /\ w \in [Inodes -> Meant]
          /\ w[i].head = meant[i].head + 1
          /\ j # i => c[j] = inode_cache[j] /\ w[j] = meant[j]
      BY <2>1, <3>2
    <3>4. ASSUME NEW cache \in [Inodes -> Copies], NEW want \in [Inodes -> Meant],
                 NEW made, NEW sec, AddChild(p, i, made, cache, sec, want),
                 want[i].head = meant[i].head + 1,
                 j # i => cache[j].head = inode_cache[j].head /\ want[j].head = meant[j].head
          PROVE  FALSE
      <4>1. j = i
        BY <2>4, <3>4
      <4>2. p # i
        BY <3>1
      <4>3. meant' = want \/ meant' = [want EXCEPT ![p].head = @ + 1]
        BY <3>4, Zenon DEF AddChild
      <4>4. meant'[i].head = meant[i].head + 1
        BY <3>4, <4>2, <4>3
      <4> QED  BY <2>2, <4>1, <4>4
    <3>5. ASSUME NEW type \in {"FILE", "DIR", "SYMLINK"}, Create(p, i, type)
          PROVE  FALSE
      <4>1. AddChild(p, i, Unlisted(type, 0), c, Save(i, c, sector), w)
        BY <3>5, Zenon DEF Create
      <4> HIDE DEF c, w
      <4> QED  BY <3>3, <3>4, <4>1
    <3>6. ASSUME NEW t \in Inodes, Hardlink(p, i, t)
          PROVE  FALSE
      <4> DEFINE d == [inode_cache EXCEPT ![i] = Filled(i),
                                          ![t].tail = Changed(@, meant[t].tail)]
                 v == [meant EXCEPT ![i] = Filled(i), ![t].tail = @ + 1]
      <4>1. /\ AddChild(p, i, Unlisted("HARDLINK", t), d, Save(i, d, Save(t, d, sector)), v)
            /\ t \in inode_bitmap /\ meant[t].tail < TAILS
        BY <3>6, Zenon DEF Hardlink, Found, Walked
      <4>2. t # i /\ w[t] = meant[t]
        BY <3>1, <4>1, <2>1
      <4>3. d = [c EXCEPT ![t].tail = Changed(@, w[t].tail)] /\ v = [w EXCEPT ![t].tail = @ + 1]
        BY <2>1, <4>2
      <4> HIDE DEF c, w, d, v
      <4>4. d \in [Inodes -> Copies] /\ v \in [Inodes -> Meant]
        BY <3>3, <4>1, <4>2, <4>3, TailChanges
      <4>5. v[i] = w[i] /\ d[j].head = c[j].head /\ v[j].head = w[j].head
        BY <3>3, <4>2, <4>3 DEF Copies, Meant
      <4> QED  BY <3>3, <3>4, <4>1, <4>4, <4>5
    <3> QED  BY <2>5, <3>5, <3>6
  <2>6. ASSUME NEW i \in Inodes,
               Write(i) \/ WriteCut(i) \/ WriteOver(i) \/ RemoveDir(i)
        PROVE  FALSE
    <3>1. inode_cache' # inode_cache
      BY <2>6
    <3>2. /\ inode_cache' = [inode_cache EXCEPT ![i].head = Changed(@, meant[i].head)]
          /\ meant' = [meant EXCEPT ![i].head = @ + 1]
      BY <2>6, <3>1 DEF Write, WriteCut, WriteOver, RemoveDir
    <3> QED  BY <2>1, <2>2, <3>2 DEF Copies, Meant
  <2>7. ASSUME NEW t \in Inodes, SaveTail(t)
        PROVE  FALSE
    BY <2>1, <2>7 DEF SaveTail, Copies
  <2>8. ASSUME NEW i \in Inodes, Remove(i) \/ RemoveSymlink(i) \/ Unlink(i)
        PROVE  FALSE
    <3>1. node[i].target_inode \in Inodes
      BY Typed DEF Nodes
    <3> QED  BY <2>7, <2>8, <3>1 DEF Remove, RemoveSymlink, Unlink
  <2> QED  BY <2>3, <2>5, <2>6, <2>8 DEF Next
<1> QED  BY InitTypes, StepTypes, <1>1, PTL DEF Spec, OnlyFirstLoadSpills
=============================================================================

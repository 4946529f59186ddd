--------------------------- MODULE MfsCrashProofs ---------------------------
(***************************************************************************)
(* That a power cut leaves the disk a file system that a restart can read, *)
(* for every size of the instance, every set of names and paths and any    *)
(* number of power cuts that the link counts have room for.                *)
(*                                                                         *)
(* Memory and disk are images.  Sound and Counts say what an image must    *)
(* have, Agrees that the disk has what memory has but for inodes left      *)
(* dirty, and Trail that a list of writes leads the disk from one image to *)
(* another through images of a set.  The invariant CrashInv says that the  *)
(* writes still to come are such a trail, to an image that agrees with     *)
(* memory, through images that are sound and count their links: so the     *)
(* power may go before any of them.  One lemma for each call shows that    *)
(* the writes it makes are one (Leads).                                    *)
(*                                                                         *)
(* mv is several calls in a row.  SlimInv bounds what an inode owns on the *)
(* disk and in memory, and MoveInv says at each step of an mv which file   *)
(* the disk has whole: the source, until the destination has all its text. *)
(***************************************************************************)
EXTENDS Transfer, MfsProofs, SequenceTheorems

-----------------------------------------------------------------------------
(* Images: an instance as memory or the disk may have it                    *)

Image ==
  [inode : [Inodes -> InodeRec], dirent : [Blocks -> [Slots -> Inodes \cup {NONE}]],
   inode_bitmap : SUBSET Inodes, block_bitmap : SUBSET Blocks]

Memory == [inode |-> inode, dirent |-> dirent,
           inode_bitmap |-> inode_bitmap, block_bitmap |-> block_bitmap]

(* The hard links to i that a directory lists. *)
NamedLinks(ino, ent, i) ==
  {h \in Inodes : HasName(ino, ent, h) /\ ino[h].type = "HARDLINK" /\ ino[h].target_inode = i}

(* An inode that a path may lead to. *)
Reached(m, i) == HasName(m.inode, m.dirent, i) \/ NamedLinks(m.inode, m.dirent, i) # {}

(* And one that may hold entries. *)
Live(m, i) == Reached(m, i) \/ m.inode[i].type = "DIR"

LinksLead(m) ==
  \A h \in Inodes :
    HasName(m.inode, m.dirent, h) /\ m.inode[h].type = "HARDLINK" =>
      m.inode[h].target_inode \in m.inode_bitmap /\ m.inode[m.inode[h].target_inode].type = "FILE"

BlocksApart(m) ==
  \A i \in Inodes :
    Live(m, i) =>
      /\ OwnedIn(m.inode, i) \subseteq m.block_bitmap
      /\ \A j \in Inodes : i # j /\ Live(m, j) => OwnedIn(m.inode, i) \cap OwnedIn(m.inode, j) = {}

DirsMarked(m) == \A i \in Inodes : m.inode[i].type = "DIR" => i \in m.inode_bitmap \cup {0}

(* What holds of an instance at every moment, in the middle of an unlink too. *)
Sound(m) ==
  /\ NamesAgree(m.inode, m.dirent, m.inode_bitmap, 0)
  /\ LinksLead(m)
  /\ BlocksApart(m)
  /\ DirsMarked(m)

One(m, i) == IF HasName(m.inode, m.dirent, i) THEN 1 ELSE 0

LinkTo(m, i) == Cardinality(Links(m.inode, m.inode_bitmap, i))

(* What an unlink disturbs.  A power cut may leave a count too high by one:  *)
(* after r of them by r.                                                     *)
Counts(m, r) ==
  \A i \in Inodes :
    Reached(m, i) /\ m.inode[i].type = "FILE" =>
      /\ m.inode[i].link_count >= Cardinality(NamedLinks(m.inode, m.dirent, i)) + One(m, i)
      /\ m.inode[i].link_count <= LinkTo(m, i) + 1 + r

(* The image x has what m has: the same entries and the same inodes behind   *)
(* them, with blocks of theirs only, and what else is a directory in x holds *)
(* nothing.                                                                  *)
SameTree(x, m) ==
  /\ \A d \in Inodes, s \in Slots, c \in Inodes :
       Holds(x.inode, x.dirent, d, s, c) <=> Holds(m.inode, m.dirent, d, s, c)
  /\ 0 \notin x.inode_bitmap
  /\ \A i \in Inodes : Reached(m, i) =>
       /\ i \in x.inode_bitmap \cup {0}
       /\ x.inode[i].name = m.inode[i].name /\ x.inode[i].type = m.inode[i].type
       /\ x.inode[i].parent = m.inode[i].parent
       /\ x.inode[i].target_inode = m.inode[i].target_inode
  /\ DirsMarked(x)

OwnsLess(x, m) ==
  \A i \in Inodes :
    /\ Reached(m, i) => OwnedIn(x.inode, i) \subseteq OwnedIn(m.inode, i) \cap x.block_bitmap
    /\ x.inode[i].type = "DIR" =>
         \/ OwnedIn(x.inode, i) = {}
         \/ m.inode[i].type = "DIR" /\ OwnedIn(x.inode, i) \subseteq OwnedIn(m.inode, i) \cap x.block_bitmap

(* The counts of x are those of m, but for new links and n more. *)
CountsNear(x, m, n) ==
  \A i \in Inodes : Reached(m, i) /\ m.inode[i].type = "FILE" =>
    /\ x.inode[i].link_count >= m.inode[i].link_count
    /\ x.inode[i].link_count + LinkTo(m, i) <= m.inode[i].link_count + LinkTo(x, i) + n

LEMMA ImageFacts ==
  ASSUME NEW m \in Image
  PROVE  /\ m.inode \in [Inodes -> InodeRec] /\ m.dirent \in [Blocks -> [Slots -> Inodes \cup {NONE}]]
         /\ m.inode_bitmap \in SUBSET Inodes /\ m.block_bitmap \in SUBSET Blocks
         /\ \A i \in Inodes : /\ m.inode[i] \in InodeRec /\ m.inode[i].link_count \in Nat
                              /\ m.inode[i].target_inode \in Inodes
                              /\ m.inode[i].first_child_block \in Blocks \cup {NONE}
         /\ 0 \in Inodes
<1>1. /\ m.inode \in [Inodes -> InodeRec] /\ m.dirent \in [Blocks -> [Slots -> Inodes \cup {NONE}]]
      /\ m.inode_bitmap \in SUBSET Inodes /\ m.block_bitmap \in SUBSET Blocks
  BY DEF Image
<1>2. ASSUME NEW i \in Inodes
      PROVE  /\ m.inode[i] \in InodeRec /\ m.inode[i].link_count \in Nat
             /\ m.inode[i].target_inode \in Inodes
             /\ m.inode[i].first_child_block \in Blocks \cup {NONE}
  <2>1. m.inode[i] \in InodeRec
    BY <1>1
  <2>2. m.inode[i].link_count \in 0 .. LINK_MOD - 1 /\ m.inode[i].target_inode \in Inodes
        /\ m.inode[i].first_child_block \in Blocks \cup {NONE}
    BY <2>1 DEF InodeRec
  <2> QED  BY <2>1, <2>2, MfsAssumption DEF MfsAssumption
<1>3. 0 \in Inodes
  BY MfsAssumption DEF Inodes, MfsAssumption
<1> QED  BY <1>1, <1>2, <1>3

LEMMA MemoryIsImage ==
  /\ TypeOK => Memory \in Image
  /\ TypeOK' => Memory' \in Image
  BY DEF TypeOK, Memory, Image

(* Numbers that Counts compares. *)
LEMMA NumbersType ==
  ASSUME NEW m \in Image, NEW i \in Inodes
  PROVE  /\ Cardinality(NamedLinks(m.inode, m.dirent, i)) \in Nat
         /\ IsFiniteSet(NamedLinks(m.inode, m.dirent, i))
         /\ LinkTo(m, i) \in Nat /\ LinkTo(m, i) <= MAX_INODES
         /\ IsFiniteSet(Links(m.inode, m.inode_bitmap, i))
         /\ One(m, i) \in Nat /\ m.inode[i].link_count \in Nat
<1>1. NamedLinks(m.inode, m.dirent, i) \in SUBSET Inodes
  BY DEF NamedLinks
<1>2. Links(m.inode, m.inode_bitmap, i) \in SUBSET Inodes
  BY ImageFacts DEF Links
<1>3. One(m, i) \in Nat
  BY DEF One
<1> QED  BY <1>1, <1>2, <1>3, InodesFinite, ImageFacts DEF LinkTo

(* Who is live is marked. *)
LEMMA LiveIsUsed ==
  ASSUME NEW m \in Image, Sound(m), NEW i \in Inodes, Live(m, i)
  PROVE  i \in m.inode_bitmap \cup {0}
<1>1. HasName(m.inode, m.dirent, i) => i \in m.inode_bitmap \cup {0}
  BY DEF Sound, NamesAgree, HasName
<1>2. NamedLinks(m.inode, m.dirent, i) # {} => i \in m.inode_bitmap
  BY DEF Sound, LinksLead, NamedLinks
<1> QED  BY <1>1, <1>2 DEF Sound, Live, Reached, DirsMarked

(* A hard link leads to a file. *)
LEMMA LinkedIsFile ==
  ASSUME NEW m, LinksLead(m), NEW i \in Inodes, NamedLinks(m.inode, m.dirent, i) # {}
  PROVE  m.inode[i].type = "FILE" /\ i \in m.inode_bitmap
  BY DEF LinksLead, NamedLinks

LEMMA SameTreeReached ==
  ASSUME NEW x \in Image, NEW m \in Image, SameTree(x, m), NEW i \in Inodes
  PROVE  /\ HasName(x.inode, x.dirent, i) <=> HasName(m.inode, m.dirent, i)
         /\ NamedLinks(x.inode, x.dirent, i) = NamedLinks(m.inode, m.dirent, i)
         /\ Reached(x, i) <=> Reached(m, i)
         /\ One(x, i) = One(m, i)
<1>1. \A h \in Inodes : HasName(x.inode, x.dirent, h) <=> HasName(m.inode, m.dirent, h)
  BY DEF SameTree, HasName
<1>2. \A h \in Inodes : HasName(m.inode, m.dirent, h) =>
        x.inode[h].type = m.inode[h].type /\ x.inode[h].target_inode = m.inode[h].target_inode
  BY DEF SameTree, Reached
<1>3. \A h \in Inodes : h \in NamedLinks(x.inode, x.dirent, i) <=> h \in NamedLinks(m.inode, m.dirent, i)
  BY <1>1, <1>2 DEF NamedLinks
<1>4. NamedLinks(x.inode, x.dirent, i) \subseteq Inodes /\ NamedLinks(m.inode, m.dirent, i) \subseteq Inodes
  BY DEF NamedLinks
<1>5. NamedLinks(x.inode, x.dirent, i) = NamedLinks(m.inode, m.dirent, i)
  BY <1>3, <1>4
<1>6. One(x, i) = One(m, i)
  BY <1>1 DEF One
<1> QED  BY <1>1, <1>5, <1>6 DEF Reached

LEMMA SameTreeNames ==
  ASSUME NEW x \in Image, NEW m \in Image, SameTree(x, m), NEW cwd \in Inodes,
         NamesAgree(m.inode, m.dirent, m.inode_bitmap, cwd)
  PROVE  NamesAgree(x.inode, x.dirent, x.inode_bitmap, cwd)
<1> DEFINE ino == m.inode  ent == m.dirent  ino2 == x.inode  ent2 == x.dirent
<1>1. /\ \A d \in Inodes, s \in Slots, c \in Inodes : Holds(ino2, ent2, d, s, c) <=> Holds(ino, ent, d, s, c)
      /\ 0 \notin x.inode_bitmap
      /\ \A i \in Inodes : HasName(ino, ent, i) =>
            /\ i \in x.inode_bitmap \cup {0}
            /\ ino2[i].name = ino[i].name /\ ino2[i].type = ino[i].type /\ ino2[i].parent = ino[i].parent
  BY DEF SameTree, Reached
<1>2. NamesAgree(ino, ent, m.inode_bitmap, cwd)
  OBVIOUS
<1>3. \A i \in Inodes : HasName(ino2, ent2, i) <=> HasName(ino, ent, i)
  BY SameTreeReached
<1>4. Ranked(ino2, ent2)
  BY <1>1, <1>2, LessIsRanked DEF NamesAgree
<1>a. 0 \in Inodes
  BY ImageFacts
<1> HIDE DEF ino, ent, ino2, ent2
<1>b. \A d \in Inodes, s \in Slots, c \in Inodes : Holds(ino, ent, d, s, c) => HasName(ino, ent, c) /\ c # 0
  BY <1>2 DEF NamesAgree, HasName
<1>5. /\ ino2[0].type = "DIR" /\ ino2[0].parent = 0 /\ HasName(ino2, ent2, 0)
      /\ ino2[cwd].type = "DIR" /\ HasName(ino2, ent2, cwd)
  BY <1>1, <1>2, <1>3, <1>a DEF NamesAgree, HasName
<1>6. ASSUME NEW d \in Inodes, NEW s \in Slots, NEW c \in Inodes, Holds(ino2, ent2, d, s, c)
      PROVE  /\ c \in x.inode_bitmap
             /\ ino2[c].parent = d
             /\ HasName(ino2, ent2, d)
             /\ \A k \in Slots : Holds(ino2, ent2, d, k, c) => k = s
             /\ \A k \in Slots \ {s}, y \in Inodes :
                  Holds(ino2, ent2, d, k, y) /\ ino2[c].name = ino2[y].name
                    => "HARDLINK" \in {ino2[c].type, ino2[y].type}
  <2>1. Holds(ino, ent, d, s, c)
    BY <1>1, <1>6
  <2>2. /\ ino[c].parent = d /\ HasName(ino, ent, d)
        /\ \A k \in Slots : Holds(ino, ent, d, k, c) => k = s
        /\ \A k \in Slots \ {s}, y \in Inodes :
             Holds(ino, ent, d, k, y) /\ ino[c].name = ino[y].name
               => "HARDLINK" \in {ino[c].type, ino[y].type}
    BY <1>2, <2>1 DEF NamesAgree
  <2>3. ASSUME NEW k \in Slots \ {s}, NEW y \in Inodes, Holds(ino2, ent2, d, k, y), ino2[c].name = ino2[y].name
        PROVE  "HARDLINK" \in {ino2[c].type, ino2[y].type}
    <3>1. Holds(ino, ent, d, k, y)
      BY <1>1, <2>3
    <3>2. HasName(ino, ent, y) /\ HasName(ino, ent, c)
      BY <1>b, <3>1, <2>1
    <3>3. ino2[c].name = ino[c].name /\ ino2[y].name = ino[y].name
          /\ ino2[c].type = ino[c].type /\ ino2[y].type = ino[y].type
      BY <1>1, <3>2
    <3> QED  BY <2>2, <2>3, <3>1, <3>3
  <2>4. c \in x.inode_bitmap /\ ino2[c].parent = ino[c].parent
    BY <1>1, <1>b, <2>1
  <2> QED  BY <1>1, <1>3, <2>2, <2>3, <2>4
<1>7. NamesAgree(ino2, ent2, x.inode_bitmap, cwd)
  BY <1>1, <1>4, <1>5, <1>6 DEF NamesAgree
<1> QED  BY <1>7 DEF ino2, ent2

LEMMA SameTreeLinks ==
  ASSUME NEW x \in Image, NEW m \in Image, SameTree(x, m), LinksLead(m), 0 \notin m.inode_bitmap
  PROVE  LinksLead(x)
<1>1. SUFFICES ASSUME NEW h \in Inodes, HasName(x.inode, x.dirent, h), x.inode[h].type = "HARDLINK"
               PROVE  /\ x.inode[h].target_inode \in x.inode_bitmap
                      /\ x.inode[x.inode[h].target_inode].type = "FILE"
  BY DEF LinksLead
<1> DEFINE t == x.inode[h].target_inode
<1>2. t \in Inodes
  BY ImageFacts
<1>3. h \in NamedLinks(x.inode, x.dirent, t)
  BY <1>1 DEF NamedLinks
<1>4. NamedLinks(m.inode, m.dirent, t) # {}
  BY <1>2, <1>3, SameTreeReached
<1>5. m.inode[t].type = "FILE" /\ t \in m.inode_bitmap
  BY <1>2, <1>4, LinkedIsFile
<1>6. t \in x.inode_bitmap \cup {0} /\ x.inode[t].type = "FILE"
  BY <1>2, <1>4, <1>5 DEF SameTree, Reached
<1>7. t # 0
  BY <1>5
<1> QED  BY <1>6, <1>7

LEMMA SameTreeBlocks ==
  ASSUME NEW x \in Image, NEW m \in Image, SameTree(x, m), OwnsLess(x, m), BlocksApart(m)
  PROVE  BlocksApart(x)
<1>1. ASSUME NEW i \in Inodes, Live(x, i)
      PROVE  \/ Live(m, i) /\ OwnedIn(x.inode, i) \subseteq OwnedIn(m.inode, i) \cap x.block_bitmap
             \/ OwnedIn(x.inode, i) = {}
  <2>1. Reached(x, i) <=> Reached(m, i)
    BY SameTreeReached
  <2> QED  BY <1>1, <2>1 DEF Live, OwnsLess
<1>2. SUFFICES ASSUME NEW i \in Inodes, Live(x, i)
               PROVE  /\ OwnedIn(x.inode, i) \subseteq x.block_bitmap
                      /\ \A j \in Inodes : i # j /\ Live(x, j) =>
                           OwnedIn(x.inode, i) \cap OwnedIn(x.inode, j) = {}
  BY DEF BlocksApart
<1>3. OwnedIn(x.inode, i) \subseteq x.block_bitmap
  BY <1>1, <1>2
<1>4. ASSUME NEW j \in Inodes, i # j, Live(x, j)
      PROVE  OwnedIn(x.inode, i) \cap OwnedIn(x.inode, j) = {}
  <2>1. \/ Live(m, j) /\ OwnedIn(x.inode, j) \subseteq OwnedIn(m.inode, j)
        \/ OwnedIn(x.inode, j) = {}
    BY <1>1, <1>4
  <2>2. Live(m, i) /\ Live(m, j) => OwnedIn(m.inode, i) \cap OwnedIn(m.inode, j) = {}
    BY <1>4 DEF BlocksApart
  <2> QED  BY <1>1, <1>2, <2>1, <2>2
<1> QED  BY <1>3, <1>4

(* An image that has what a sound one has is sound. *)
LEMMA SameTreeSound ==
  ASSUME NEW x \in Image, NEW m \in Image, SameTree(x, m), OwnsLess(x, m), Sound(m)
  PROVE  Sound(x)
<1>1. NamesAgree(m.inode, m.dirent, m.inode_bitmap, 0) /\ 0 \notin m.inode_bitmap /\ 0 \in Inodes
  BY ImageFacts DEF Sound, NamesAgree
<1> QED  BY <1>1, SameTreeNames, SameTreeLinks, SameTreeBlocks DEF Sound, SameTree

LEMMA SameTreeCounts ==
  ASSUME NEW x \in Image, NEW m \in Image, SameTree(x, m), NEW n \in Nat, CountsNear(x, m, n),
         NEW r \in Nat, Counts(m, r)
  PROVE  Counts(x, r + n)
<1>1. SUFFICES ASSUME NEW i \in Inodes, Reached(x, i), x.inode[i].type = "FILE"
               PROVE  /\ x.inode[i].link_count >= Cardinality(NamedLinks(x.inode, x.dirent, i)) + One(x, i)
                      /\ x.inode[i].link_count <= LinkTo(x, i) + 1 + (r + n)
  BY DEF Counts
<1>2. /\ Reached(m, i) /\ One(x, i) = One(m, i)
      /\ NamedLinks(x.inode, x.dirent, i) = NamedLinks(m.inode, m.dirent, i)
  BY <1>1, SameTreeReached
<1>3. m.inode[i].type = "FILE"
  BY <1>1, <1>2 DEF SameTree
<1> DEFINE named == Cardinality(NamedLinks(m.inode, m.dirent, i))
           one == One(m, i)  a == LinkTo(m, i)  b == LinkTo(x, i)
           k == m.inode[i].link_count  l == x.inode[i].link_count
<1>4. k >= named + one /\ k <= a + 1 + r
  BY <1>2, <1>3 DEF Counts
<1>5. l >= k /\ l + a <= k + b + n
  BY <1>2, <1>3 DEF CountsNear
<1>6. named \in Nat /\ one \in Nat /\ a \in Nat /\ b \in Nat /\ k \in Nat /\ l \in Nat
  BY NumbersType
<1>7. Cardinality(NamedLinks(x.inode, x.dirent, i)) + One(x, i) = named + one
  BY <1>2
<1> HIDE DEF named, one, a, b, k, l
<1>8. l >= named + one /\ l <= b + 1 + (r + n)
  BY <1>4, <1>5, <1>6
<1> QED  BY <1>7, <1>8 DEF b, l

LEMMA CountsGrow ==
  ASSUME NEW m \in Image, NEW r \in Nat, NEW n \in Nat, r <= n, Counts(m, r)
  PROVE  Counts(m, n)
<1>1. \A i \in Inodes : LinkTo(m, i) \in Nat /\ m.inode[i].link_count \in Nat
  BY NumbersType
<1> QED  BY <1>1 DEF Counts

(* The images that a power cut may leave, and those that a restart may find. *)
Safe(r) == {m \in Image : Sound(m) /\ Counts(m, r)}

LEMMA SameTreeSafe ==
  ASSUME NEW x \in Image, NEW m \in Image, NEW r \in Nat, NEW n \in Nat,
         Sound(m), Counts(m, r), SameTree(x, m), OwnsLess(x, m), CountsNear(x, m, n)
  PROVE  x \in Safe(r + n)
  BY SameTreeSound, SameTreeCounts DEF Safe

-----------------------------------------------------------------------------
(* Agreement of the disk with memory                                        *)

(* The inodes in D may lack on the disk what was written to them. *)
SavedAs(q, p) ==
  /\ q.name = p.name /\ q.type = p.type /\ q.parent = p.parent
  /\ q.first_child_block = p.first_child_block
  /\ q.link_count = p.link_count /\ q.target_inode = p.target_inode
  /\ q.blocks \subseteq p.blocks /\ q.far \subseteq p.far

Agrees(e, m, D) ==
  /\ e.dirent = m.dirent /\ e.inode_bitmap = m.inode_bitmap /\ e.block_bitmap = m.block_bitmap
  /\ \A i \in m.inode_bitmap \cup {0} :
       SavedAs(e.inode[i], m.inode[i]) /\ (i \notin D => e.inode[i] = m.inode[i])
  /\ DirsMarked(e)

LEMMA AgreesIsAlike ==
  ASSUME NEW e \in Image, NEW m \in Image, Sound(m), NEW D, Agrees(e, m, D)
  PROVE  SameTree(e, m) /\ OwnsLess(e, m) /\ CountsNear(e, m, 0)
<1>1. \A i \in m.inode_bitmap \cup {0} : SavedAs(e.inode[i], m.inode[i])
  BY DEF Agrees
<1>2. DirsMarked(e) /\ DirsMarked(m) /\ e.inode_bitmap = m.inode_bitmap /\ e.dirent = m.dirent
      /\ e.block_bitmap = m.block_bitmap /\ 0 \notin m.inode_bitmap
  BY DEF Agrees, Sound, NamesAgree
<1>3. \A i \in Inodes : Live(m, i) => i \in m.inode_bitmap \cup {0}
  BY LiveIsUsed
<1>4. \A i \in m.inode_bitmap \cup {0} : OwnedIn(e.inode, i) \subseteq OwnedIn(m.inode, i)
  BY <1>1 DEF SavedAs, OwnedIn
<1>5. ASSUME NEW d \in Inodes, NEW s \in Slots, NEW c \in Inodes
      PROVE  Holds(e.inode, e.dirent, d, s, c) <=> Holds(m.inode, m.dirent, d, s, c)
  <2>1. CASE d \in m.inode_bitmap \cup {0}
    BY <1>1, <1>2, <2>1 DEF Holds, SavedAs
  <2>2. CASE d \notin m.inode_bitmap \cup {0}
    BY <1>2, <2>2 DEF Holds, DirsMarked
  <2> QED  BY <2>1, <2>2
<1>6. \A i \in Inodes : Reached(m, i) =>
        /\ i \in e.inode_bitmap \cup {0}
        /\ e.inode[i].name = m.inode[i].name /\ e.inode[i].type = m.inode[i].type
        /\ e.inode[i].parent = m.inode[i].parent
        /\ e.inode[i].target_inode = m.inode[i].target_inode
  BY <1>1, <1>2, <1>3 DEF Live, SavedAs
<1>7. SameTree(e, m)
  BY <1>2, <1>5, <1>6 DEF SameTree
<1>8. OwnsLess(e, m)
  <2>1. \A i \in Inodes : Live(m, i) => OwnedIn(m.inode, i) \subseteq m.block_bitmap
    BY DEF Sound, BlocksApart
  <2>2. \A i \in Inodes : Live(m, i) => OwnedIn(e.inode, i) \subseteq OwnedIn(m.inode, i) \cap e.block_bitmap
    BY <1>2, <1>3, <1>4, <2>1
  <2>3. \A i \in Inodes : e.inode[i].type = "DIR" => m.inode[i].type = "DIR"
    BY <1>1, <1>2 DEF DirsMarked, SavedAs
  <2> QED  BY <2>2, <2>3 DEF OwnsLess, Live
<1>9. CountsNear(e, m, 0)
  <2>1. ASSUME NEW i \in Inodes, Reached(m, i)
        PROVE  e.inode[i].link_count = m.inode[i].link_count
    BY <1>1, <1>3, <2>1 DEF Live, SavedAs
  <2>2. \A i \in Inodes : Links(e.inode, e.inode_bitmap, i) = Links(m.inode, m.inode_bitmap, i)
    BY <1>1, <1>2 DEF Links, SavedAs
  <2>3. \A i \in Inodes : LinkTo(e, i) = LinkTo(m, i)
    BY <2>2 DEF LinkTo
  <2>4. \A i \in Inodes : LinkTo(m, i) \in Nat /\ m.inode[i].link_count \in Nat
    BY NumbersType
  <2> QED  BY <2>1, <2>3, <2>4 DEF CountsNear
<1> QED  BY <1>7, <1>8, <1>9

-----------------------------------------------------------------------------
(* Trails: the images the disk goes through while sectors are written       *)

Applied(d, w) ==
  CASE w.of = "inode"        -> [d EXCEPT !.inode[w.at] = w.record]
    [] w.of = "dirent"       -> [d EXCEPT !.dirent[w.at] = w.entries]
    [] w.of = "inode_bitmap" -> [d EXCEPT !.inode_bitmap = w.inodes]
    [] w.of = "block_bitmap" -> [d EXCEPT !.block_bitmap = w.blocks]

(* Sectors, with inodes of J only. *)
Sectors(J) ==
  [of : {"inode"}, at : J, record : InodeRec]
    \cup [of : {"dirent"}, at : Blocks, entries : [Slots -> Inodes \cup {NONE}]]
    \cup [of : {"inode_bitmap"}, inodes : SUBSET Inodes]
    \cup [of : {"block_bitmap"}, blocks : SUBSET Blocks]

(* The writes ws, of inodes of J only, lead from d to e within S. *)
Trail(S, J, d, ws, e) ==
  /\ ws \in Seq(Sectors(J))
  /\ \E st \in [0 .. Len(ws) -> S] :
       /\ st[0] = d /\ st[Len(ws)] = e
       /\ \A k \in 1 .. Len(ws) : st[k] = Applied(st[k - 1], ws[k])

LEMMA TrailNone ==
  ASSUME NEW S, NEW J, NEW d \in S
  PROVE  Trail(S, J, d, <<>>, d)
<1> DEFINE st == [k \in 0 .. 0 |-> d]
<1>1. st \in [0 .. 0 -> S] /\ st[0] = d
  OBVIOUS
<1>2. Len(<<>>) = 0 /\ <<>> \in Seq(Sectors(J)) /\ 1 .. 0 = {}
  OBVIOUS
<1> HIDE DEF st
<1> QED  BY <1>1, <1>2 DEF Trail

LEMMA TrailOne ==
  ASSUME NEW S, NEW J, NEW d \in S, NEW w \in Sectors(J), Applied(d, w) \in S
  PROVE  Trail(S, J, d, <<w>>, Applied(d, w))
<1> DEFINE e == Applied(d, w)
<1> HIDE DEF e
<1> DEFINE st == [k \in 0 .. 1 |-> IF k = 0 THEN d ELSE e]
<1>1. e \in S
  BY DEF e
<1>2. st \in [0 .. 1 -> S] /\ st[0] = d /\ st[1] = e
  BY <1>1
<1>3. <<w>> \in Seq(Sectors(J)) /\ Len(<<w>>) = 1 /\ <<w>>[1] = w
  OBVIOUS
<1>4. \A k \in 1 .. 1 : st[k] = Applied(st[k - 1], <<w>>[k])
  BY <1>2, <1>3 DEF e
<1> HIDE DEF st
<1>5. Trail(S, J, d, <<w>>, e)
  BY <1>2, <1>3, <1>4 DEF Trail
<1> QED  BY <1>5 DEF e

LEMMA SectorsGrow ==
  ASSUME NEW J, NEW K, J \subseteq K, NEW ws \in Seq(Sectors(J))
  PROVE  ws \in Seq(Sectors(K))
<1>1. Sectors(J) \subseteq Sectors(K)
  BY DEF Sectors
<1> QED  BY <1>1

LEMMA TrailJoin ==
  ASSUME NEW S, NEW J, NEW K, NEW d, NEW e, NEW f, NEW ws, NEW us,
         Trail(S, J, d, ws, e), Trail(S, K, e, us, f)
  PROVE  Trail(S, J \cup K, d, ws \o us, f)
<1> DEFINE n == Len(ws)  l == Len(us)
<1>1. PICK st \in [0 .. n -> S] :
        /\ st[0] = d /\ st[n] = e
        /\ \A k \in 1 .. n : st[k] = Applied(st[k - 1], ws[k])
  BY DEF Trail
<1>2. PICK su \in [0 .. l -> S] :
        /\ su[0] = e /\ su[l] = f
        /\ \A k \in 1 .. l : su[k] = Applied(su[k - 1], us[k])
  BY DEF Trail
<1> DEFINE X == Sectors(J \cup K)
<1>3. ws \in Seq(X) /\ us \in Seq(X)
  BY SectorsGrow DEF Trail
<1> HIDE DEF X
<1>4. n \in Nat /\ l \in Nat
  BY <1>3
<1>5. /\ ws \o us \in Seq(X) /\ Len(ws \o us) = n + l
      /\ \A k \in 1 .. n + l : (ws \o us)[k] = IF k <= n THEN ws[k] ELSE us[k - n]
  BY <1>3
<1> HIDE DEF n, l
<1> DEFINE so == [k \in 0 .. n + l |-> IF k <= n THEN st[k] ELSE su[k - n]]
<1>6. so \in [0 .. n + l -> S] /\ so[0] = d
  BY <1>1, <1>2, <1>4
<1>7. so[n + l] = f
  <2>1. CASE l = 0
    BY <1>1, <1>2, <1>4, <2>1
  <2>2. CASE l # 0
    BY <1>2, <1>4, <2>2
  <2> QED  BY <2>1, <2>2
<1>8. ASSUME NEW k \in 1 .. n + l
      PROVE  so[k] = Applied(so[k - 1], (ws \o us)[k])
  <2>1. CASE k <= n
    <3>1. k \in 1 .. n /\ so[k] = st[k] /\ so[k - 1] = st[k - 1]
      BY <1>4, <2>1
    <3> QED  BY <1>1, <1>5, <2>1, <3>1
  <2>2. CASE k = n + 1
    <3>1. so[k - 1] = su[0] /\ so[k] = su[1] /\ k - n = 1 /\ 1 \in 1 .. l /\ 1 - 1 = 0 /\ ~(k <= n)
      BY <1>1, <1>2, <1>4, <2>2
    <3>2. su[1] = Applied(su[0], us[1])
      BY <1>2, <3>1
    <3>3. (ws \o us)[k] = us[1]
      BY <1>5, <3>1
    <3> QED  BY <3>1, <3>2, <3>3
  <2>3. CASE k > n + 1
    <3>1. /\ k - n \in 1 .. l /\ so[k] = su[k - n] /\ so[k - 1] = su[(k - n) - 1]
          /\ (k - 1) - n = (k - n) - 1 /\ ~(k <= n)
      BY <1>4, <2>3
    <3> QED  BY <1>2, <1>5, <3>1
  <2>4. k <= n \/ k = n + 1 \/ k > n + 1
    BY <1>4
  <2> HIDE DEF so
  <2> QED  BY <2>1, <2>2, <2>3, <2>4
<1> HIDE DEF so
<1>9. Trail(S, J \cup K, d, ws \o us, f)
  <2>1. ws \o us \in Seq(Sectors(J \cup K))
    BY <1>5 DEF X
  <2> QED  BY <1>5, <1>6, <1>7, <1>8, <2>1 DEF Trail
<1> QED  BY <1>9

LEMMA TrailThen ==
  ASSUME NEW S, NEW J, NEW d, NEW e, NEW f, NEW ws, NEW us,
         Trail(S, J, d, ws, e), Trail(S, J, e, us, f)
  PROVE  Trail(S, J, d, ws \o us, f)
<1>1. J \cup J = J
  OBVIOUS
<1> QED  BY <1>1, TrailJoin

LEMMA TwoWrites ==
  ASSUME NEW v, NEW w
  PROVE  <<v, w>> = <<v>> \o <<w>>
<1> DEFINE X == {v, w}
<1>1. v \in X /\ w \in X
  OBVIOUS
<1> HIDE DEF X
<1>2. <<v>> \in Seq(X) /\ <<w>> \in Seq(X) /\ <<v, w>> \in Seq(X)
  BY <1>1
<1> DEFINE u == <<v>> \o <<w>>
<1>3. u \in Seq(X) /\ Len(u) = 2 /\ u[1] = v /\ u[2] = w
  <2>1. Len(<<v>>) = 1 /\ Len(<<w>>) = 1 /\ <<v>>[1] = v /\ <<w>>[1] = w
    OBVIOUS
  <2> QED  BY <1>2, <2>1, ConcatProperties
<1> HIDE DEF u
<1>4. Len(<<v, w>>) = 2 /\ <<v, w>>[1] = v /\ <<v, w>>[2] = w
  OBVIOUS
<1>5. \A k \in 1 .. 2 : <<v, w>>[k] = u[k]
  <2>1. \A k \in 1 .. 2 : k = 1 \/ k = 2
    OBVIOUS
  <2> QED  BY <1>3, <1>4, <2>1
<1>6. <<v, w>> = u
  BY <1>2, <1>3, <1>4, <1>5, SeqEqual
<1> QED  BY <1>6 DEF u

LEMMA TrailTwo ==
  ASSUME NEW S, NEW J, NEW d, NEW e, NEW f, NEW v, NEW w,
         Trail(S, J, d, <<v>>, e), Trail(S, J, e, <<w>>, f)
  PROVE  Trail(S, J, d, <<v, w>>, f)
  BY TrailThen, TwoWrites

(* dev_write of the first sector of a trail. *)
LEMMA TrailStep ==
  ASSUME NEW S, NEW J, NEW d, NEW e, NEW ws, ws # <<>>, Trail(S, J, d, ws, e)
  PROVE  Trail(S, J, Applied(d, Head(ws)), Tail(ws), e)
<1> DEFINE n == Len(ws)
<1>1. PICK st \in [0 .. n -> S] :
        /\ st[0] = d /\ st[n] = e
        /\ \A k \in 1 .. n : st[k] = Applied(st[k - 1], ws[k])
  BY DEF Trail
<1> DEFINE X == Sectors(J)
<1>2. ws \in Seq(X)
  BY DEF Trail
<1> HIDE DEF X
<1>3. n \in Nat \ {0} /\ Head(ws) = ws[1]
  BY <1>2
<1>4. /\ Tail(ws) \in Seq(X) /\ Len(Tail(ws)) = n - 1
      /\ \A k \in 1 .. n - 1 : Tail(ws)[k] = ws[k + 1]
  BY <1>2, <1>3
<1> HIDE DEF n
<1> DEFINE su == [k \in 0 .. n - 1 |-> st[k + 1]]
<1>5. su \in [0 .. n - 1 -> S] /\ su[n - 1] = e
  BY <1>1, <1>3
<1>6. su[0] = Applied(d, Head(ws))
  <2>1. su[0] = st[1] /\ 1 \in 1 .. n /\ 1 - 1 = 0
    BY <1>3
  <2>2. st[1] = Applied(st[0], ws[1])
    BY <1>1, <2>1
  <2> QED  BY <1>1, <1>3, <2>1, <2>2
<1>7. ASSUME NEW k \in 1 .. n - 1
      PROVE  su[k] = Applied(su[k - 1], Tail(ws)[k])
  <2>1. su[k] = st[k + 1] /\ su[k - 1] = st[k] /\ k + 1 \in 1 .. n /\ (k + 1) - 1 = k
    BY <1>3
  <2>2. st[k + 1] = Applied(st[k], ws[k + 1])
    BY <1>1, <2>1
  <2> QED  BY <1>4, <2>1, <2>2
<1> HIDE DEF su
<1> QED  BY <1>4, <1>5, <1>6, <1>7 DEF Trail, X

LEMMA TrailEnds ==
  ASSUME NEW S, NEW J, NEW d, NEW e, NEW ws, Trail(S, J, d, ws, e)
  PROVE  /\ d \in S /\ e \in S /\ ws \in Seq(Sectors(J))
         /\ ws = <<>> => d = e
<1>1. ws \in Seq(Sectors(J))
  BY DEF Trail
<1>2. Len(ws) \in Nat /\ (ws = <<>> => Len(ws) = 0)
  BY <1>1
<1> QED  BY <1>1, <1>2 DEF Trail

LEMMA TrailWidens ==
  ASSUME NEW S, NEW T, S \subseteq T, NEW J, NEW K, J \subseteq K, NEW d, NEW e, NEW ws, Trail(S, J, d, ws, e)
  PROVE  Trail(T, K, d, ws, e)
<1>1. ws \in Seq(Sectors(K))
  BY SectorsGrow DEF Trail
<1>2. [0 .. Len(ws) -> S] \subseteq [0 .. Len(ws) -> T]
  OBVIOUS
<1> QED  BY <1>1, <1>2 DEF Trail

(* Writes of the block bitmap, one for each block taken or freed. *)
LEMMA TrailMarks ==
  ASSUME NEW S \in SUBSET Image, NEW J, NEW d \in S, NEW n \in Nat, NEW A \in [1 .. n -> SUBSET Blocks],
         \A k \in 1 .. n : [d EXCEPT !.block_bitmap = A[k]] \in S
  PROVE  Trail(S, J, d, [k \in 1 .. n |-> BlockBitmap(A[k])],
               IF n = 0 THEN d ELSE [d EXCEPT !.block_bitmap = A[n]])
<1> DEFINE ws == [k \in 1 .. n |-> BlockBitmap(A[k])]
           M(k) == [d EXCEPT !.block_bitmap = A[k]]
           st == [k \in 0 .. n |-> IF k = 0 THEN d ELSE M(k)]
<1>1. ws \in Seq(Sectors(J)) /\ Len(ws) = n
  <2>1. \A k \in 1 .. n : BlockBitmap(A[k]) \in Sectors(J)
    BY DEF BlockBitmap, Sectors
  <2> QED  BY <2>1
<1>2. st \in [0 .. n -> S]
  BY DEF M
<1>3. st[0] = d /\ st[n] = (IF n = 0 THEN d ELSE M(n))
  OBVIOUS
<1>4. ASSUME NEW k \in 1 .. n
      PROVE  st[k] = Applied(st[k - 1], ws[k])
  <2>1. st[k] = M(k) /\ ws[k] = BlockBitmap(A[k])
    OBVIOUS
  <2>2. st[k - 1] = d \/ \E j \in 1 .. n : st[k - 1] = M(j)
    <3>1. CASE k = 1
      BY <3>1
    <3>2. CASE k # 1
      <4>1. k - 1 \in 1 .. n /\ k - 1 # 0 /\ k - 1 \in 0 .. n
        BY <3>2
      <4>2. st[k - 1] = M(k - 1)
        BY <4>1
      <4> HIDE DEF st, M
      <4> QED  BY <4>1, <4>2
    <3> QED  BY <3>1, <3>2
  <2>3. \A y \in Image : Applied(y, BlockBitmap(A[k])) = [y EXCEPT !.block_bitmap = A[k]]
    BY DEF Applied, BlockBitmap
  <2>4. d \in Image /\ \A j \in 1 .. n : M(j) \in Image
    OBVIOUS
  <2>5. ASSUME NEW j \in 1 .. n
        PROVE  [M(j) EXCEPT !.block_bitmap = A[k]] = M(k)
    BY <2>4 DEF Image
  <2>6. [d EXCEPT !.block_bitmap = A[k]] = M(k)
    OBVIOUS
  <2> HIDE DEF M, st, ws
  <2>7. Applied(st[k - 1], BlockBitmap(A[k])) = M(k)
    <3>1. CASE st[k - 1] = d
      BY <2>3, <2>4, <2>6, <3>1
    <3>2. CASE \E j \in 1 .. n : st[k - 1] = M(j)
      BY <2>3, <2>4, <2>5, <3>2
    <3> QED  BY <2>2, <3>1, <3>2
  <2> QED  BY <2>1, <2>7
<1> HIDE DEF ws, st
<1>5. Trail(S, J, d, ws, IF n = 0 THEN d ELSE M(n))
  BY <1>1, <1>2, <1>3, <1>4 DEF Trail
<1> QED  BY <1>5 DEF ws

(* The lowest k of S, one more for each k. *)
LEMMA LowestCounts ==
  ASSUME NEW S \in SUBSET Blocks
  PROVE  /\ IsFiniteSet(S) /\ Cardinality(S) \in Nat
         /\ \A k : Lowest(k, S) \subseteq S
         /\ Lowest(Cardinality(S), S) = S
<1>1. IsFiniteSet(Blocks)
  BY FS_Interval, MfsAssumption DEF Blocks, MfsAssumption
<1>2. IsFiniteSet(S) /\ Cardinality(S) \in Nat
  BY <1>1, FS_Subset, FS_CardinalityType
<1>3. ASSUME NEW m \in S
      PROVE  Cardinality({k \in S : k < m}) < Cardinality(S)
  <2> DEFINE T == {k \in S : k < m}
  <2>1. T \subseteq S /\ m \notin T
    BY MfsAssumption DEF Blocks, MfsAssumption
  <2>2. T # S
    BY <2>1
  <2> HIDE DEF T
  <2>3. IsFiniteSet(T) /\ Cardinality(T) <= Cardinality(S) /\ (Cardinality(T) = Cardinality(S) => T = S)
    BY <1>2, <2>1, FS_Subset
  <2>4. Cardinality(T) \in Nat
    BY <2>3, FS_CardinalityType
  <2>5. Cardinality(T) < Cardinality(S)
    BY <1>2, <2>2, <2>3, <2>4
  <2> QED  BY <2>5 DEF T
<1> QED  BY <1>2, <1>3 DEF Lowest

LEMMA TakingTrail ==
  ASSUME NEW S \in SUBSET Image, NEW J, NEW d \in S, d.block_bitmap = block_bitmap, block_bitmap \subseteq Blocks,
         NEW taken \in SUBSET Blocks,
         \A B \in SUBSET Blocks : block_bitmap \subseteq B => [d EXCEPT !.block_bitmap = B] \in S
  PROVE  Trail(S, J, d, Allocations(taken), [d EXCEPT !.block_bitmap = block_bitmap \cup taken])
<1> DEFINE n == Cardinality(taken)
           A == [k \in 1 .. n |-> block_bitmap \cup Lowest(k, taken)]
           e == [d EXCEPT !.block_bitmap = block_bitmap \cup taken]
<1>1. n \in Nat /\ Lowest(n, taken) = taken /\ \A k : Lowest(k, taken) \subseteq taken
  BY LowestCounts
<1>2. n = 0 => taken = {}
  BY LowestCounts, FS_EmptySet
<1> HIDE DEF n
<1>3. A \in [1 .. n -> SUBSET Blocks] /\ \A k \in 1 .. n : block_bitmap \subseteq A[k]
  BY <1>1
<1>4. \A k \in 1 .. n : [d EXCEPT !.block_bitmap = A[k]] \in S
  BY <1>3
<1>5. Allocations(taken) = [k \in 1 .. n |-> BlockBitmap(A[k])]
  BY DEF Allocations, n
<1>6. (IF n = 0 THEN d ELSE [d EXCEPT !.block_bitmap = A[n]]) = e
  <2>1. CASE n = 0
    BY <1>2, <2>1 DEF Image
  <2>2. CASE n # 0
    <3>1. A[n] = block_bitmap \cup taken
      BY <1>1, <2>2
    <3> QED  BY <2>2, <3>1
  <2> QED  BY <2>1, <2>2
<1> HIDE DEF A
<1>7. Trail(S, J, d, [k \in 1 .. n |-> BlockBitmap(A[k])],
            IF n = 0 THEN d ELSE [d EXCEPT !.block_bitmap = A[n]])
  BY <1>1, <1>3, <1>4, TrailMarks
<1> QED  BY <1>5, <1>6, <1>7

LEMMA FreeingTrail ==
  ASSUME NEW S \in SUBSET Image, NEW J, NEW d \in S, d.block_bitmap = block_bitmap, block_bitmap \subseteq Blocks,
         NEW freed \in SUBSET Blocks,
         \A B \in SUBSET Blocks : block_bitmap \ freed \subseteq B => [d EXCEPT !.block_bitmap = B] \in S
  PROVE  Trail(S, J, d, Releases(freed), [d EXCEPT !.block_bitmap = block_bitmap \ freed])
<1> DEFINE n == Cardinality(freed)
           A == [k \in 1 .. n |-> block_bitmap \ Lowest(k, freed)]
           e == [d EXCEPT !.block_bitmap = block_bitmap \ freed]
<1>1. n \in Nat /\ Lowest(n, freed) = freed /\ \A k : Lowest(k, freed) \subseteq freed
  BY LowestCounts
<1>2. n = 0 => freed = {}
  BY LowestCounts, FS_EmptySet
<1> HIDE DEF n
<1>3. A \in [1 .. n -> SUBSET Blocks] /\ \A k \in 1 .. n : block_bitmap \ freed \subseteq A[k]
  BY <1>1
<1>4. \A k \in 1 .. n : [d EXCEPT !.block_bitmap = A[k]] \in S
  BY <1>3
<1>5. Releases(freed) = [k \in 1 .. n |-> BlockBitmap(A[k])]
  BY DEF Releases, n
<1>6. (IF n = 0 THEN d ELSE [d EXCEPT !.block_bitmap = A[n]]) = e
  <2>1. CASE n = 0
    BY <1>2, <2>1 DEF Image
  <2>2. CASE n # 0
    <3>1. A[n] = block_bitmap \ freed
      BY <1>1, <2>2
    <3> QED  BY <2>2, <3>1
  <2> QED  BY <2>1, <2>2
<1> HIDE DEF A
<1>7. Trail(S, J, d, [k \in 1 .. n |-> BlockBitmap(A[k])],
            IF n = 0 THEN d ELSE [d EXCEPT !.block_bitmap = A[n]])
  BY <1>1, <1>3, <1>4, TrailMarks
<1> QED  BY <1>5, <1>6, <1>7

LEMMA SavedWithin ==
  ASSUME NEW J, NEW ws \in Seq(Sectors(J))
  PROVE  Saved(ws) \subseteq J
<1>1. \A k \in DOMAIN ws : ws[k] \in Sectors(J)
  OBVIOUS
<1>2. \A w \in Sectors(J) : w.of = "inode" => w.at \in J
  BY DEF Sectors
<1> QED  BY <1>1, <1>2 DEF Saved

-----------------------------------------------------------------------------
(* What the calls do to memory                                              *)

(* Memory after r power cuts. *)
Kept(r) ==
  /\ TypeOK /\ NamesAgree(inode, dirent, inode_bitmap, current_dir)
  /\ Sound(Memory) /\ Counts(Memory, r)

LEMMA MemoryFields ==
  /\ Memory.inode = inode /\ Memory.dirent = dirent
  /\ Memory.inode_bitmap = inode_bitmap /\ Memory.block_bitmap = block_bitmap
  BY DEF Memory

LEMMA MemoryFieldsNext ==
  /\ Memory'.inode = inode' /\ Memory'.dirent = dirent'
  /\ Memory'.inode_bitmap = inode_bitmap' /\ Memory'.block_bitmap = block_bitmap'
  BY DEF Memory

LEMMA NamesAgreeRoot ==
  ASSUME NEW ino, NEW ent, NEW used, NEW cwd, NamesAgree(ino, ent, used, cwd)
  PROVE  NamesAgree(ino, ent, used, 0)
  BY DEF NamesAgree, HasName

(* The entry blocks of live inodes. *)
LEMMA SoundApart ==
  ASSUME NEW m \in Image, Sound(m), NEW d \in Inodes, Live(m, d)
  PROVE  EntryBlocksApart(m.inode, m.block_bitmap, d)
<1>1. SUFFICES ASSUME NEW e \in Inodes, m.inode[e].type = "DIR", m.inode[e].first_child_block # NONE
               PROVE  /\ m.inode[e].first_child_block \in m.block_bitmap
                      /\ e # d => m.inode[e].first_child_block # m.inode[d].first_child_block
  BY DEF EntryBlocksApart
<1>2. Live(m, e)
  BY <1>1 DEF Live
<1>3. m.inode[e].first_child_block \in OwnedIn(m.inode, e)
  BY <1>1 DEF OwnedIn
<1>4. OwnedIn(m.inode, e) \subseteq m.block_bitmap
  BY <1>2 DEF Sound, BlocksApart
<1>5. ASSUME e # d, m.inode[e].first_child_block = m.inode[d].first_child_block
      PROVE  FALSE
  <2>1. m.inode[e].first_child_block \in OwnedIn(m.inode, d)
    BY <1>1, <1>5 DEF OwnedIn
  <2>2. OwnedIn(m.inode, e) \cap OwnedIn(m.inode, d) = {}
    BY <1>2, <1>5 DEF Sound, BlocksApart
  <2> QED  BY <1>3, <2>1, <2>2
<1> QED  BY <1>3, <1>4, <1>5

Linked(ino, id, i) == ino[id].type = "HARDLINK" /\ ino[id].target_inode = i

(* The table a call has filled in a new inode in, before its entry is made. *)
NewNode(ino, id, dir) ==
  /\ ino \in [Inodes -> InodeRec]
  /\ \A i \in Inodes \ {id} :
       /\ ino[i].type = inode[i].type /\ ino[i].name = inode[i].name
       /\ ino[i].parent = inode[i].parent /\ ino[i].target_inode = inode[i].target_inode
       /\ ino[i].first_child_block = inode[i].first_child_block
       /\ ino[i].blocks = inode[i].blocks /\ ino[i].far = inode[i].far
       /\ ino[i].link_count = inode[i].link_count + (IF Linked(ino, id, i) THEN 1 ELSE 0)
  /\ ino[id].parent = dir /\ ino[id].first_child_block = NONE
  /\ ino[id].blocks = {} /\ ino[id].far = {}
  /\ ino[id].type = "HARDLINK" =>
       HasName(inode, dirent, ino[id].target_inode) /\ inode[ino[id].target_inode].type = "FILE"
  /\ ino[id].type = "FILE" => ino[id].link_count = 1
  /\ ino[id].type = "HARDLINK" \/ Lookup(dir, ino[id].name) = NONE

Mid(ino, id) ==
  [inode |-> ino, dirent |-> dirent, inode_bitmap |-> inode_bitmap \cup {id},
   block_bitmap |-> block_bitmap]

LEMMA FreshIsUnreached ==
  ASSUME NEW r \in Nat, Kept(r), NEW id \in FreeInodes
  PROVE  /\ id \in Inodes /\ id # 0 /\ id \notin inode_bitmap /\ ~Live(Memory, id)
         /\ inode_bitmap \in SUBSET Inodes /\ 0 \notin inode_bitmap
<1>1. id \in Inodes /\ id # 0 /\ id \notin inode_bitmap
  BY DEF FreeInodes
<1>2. Memory \in Image
  BY MemoryIsImage DEF Kept
<1>3. Live(Memory, id) => id \in Memory.inode_bitmap \cup {0}
  BY <1>1, <1>2, LiveIsUsed DEF Kept
<1> QED  BY <1>1, <1>3, MemoryFields DEF Kept, TypeOK, NamesAgree

(* A new hard link is one more link to its target. *)
LEMMA OneMoreLink ==
  ASSUME NEW r \in Nat, Kept(r), NEW id \in FreeInodes, NEW dir, NEW ino, NewNode(ino, id, dir),
         NEW i \in Inodes
  PROVE  LinkTo(Mid(ino, id), i) = LinkTo(Memory, i) + (IF Linked(ino, id, i) THEN 1 ELSE 0)
<1> DEFINE old == Links(inode, inode_bitmap, i)
           new == Links(ino, inode_bitmap \cup {id}, i)
<1>1. id \in Inodes /\ id \notin inode_bitmap /\ inode_bitmap \in SUBSET Inodes
  BY FreshIsUnreached
<1>2. \A h \in inode_bitmap : ino[h].type = inode[h].type /\ ino[h].target_inode = inode[h].target_inode
  BY <1>1 DEF NewNode
<1>3. new = IF Linked(ino, id, i) THEN old \cup {id} ELSE old
  BY <1>1, <1>2 DEF Links, Linked
<1>4. IsFiniteSet(old) /\ Cardinality(old) \in Nat /\ id \notin old
  <2>1. id \notin old
    BY <1>1 DEF Links
  <2> QED  BY <1>1, <2>1, LinksFinite
<1>5. LinkTo(Mid(ino, id), i) = Cardinality(new) /\ LinkTo(Memory, i) = Cardinality(old)
  BY DEF LinkTo, Mid, Memory
<1> HIDE DEF old, new
<1>6. Cardinality(old \cup {id}) = Cardinality(old) + 1
  BY <1>4, FS_AddElement
<1> QED  BY <1>3, <1>4, <1>5, <1>6

LEMMA EnterMid ==
  ASSUME NEW r \in Nat, Kept(r), NEW id \in FreeInodes, NEW dir \in Named, NEW ino, NewNode(ino, id, dir)
  PROVE  LET mid == Mid(ino, id)
         IN  /\ mid \in Image /\ SameTree(mid, Memory) /\ OwnsLess(mid, Memory)
             /\ CountsNear(mid, Memory, 0) /\ Sound(mid) /\ Counts(mid, r)
<1> DEFINE mid == Mid(ino, id)
<1>1. /\ id \in Inodes /\ id # 0 /\ id \notin inode_bitmap /\ ~Live(Memory, id)
      /\ inode_bitmap \in SUBSET Inodes /\ 0 \notin inode_bitmap
  BY FreshIsUnreached
<1>2. Memory \in Image /\ Sound(Memory) /\ Counts(Memory, r)
  BY MemoryIsImage DEF Kept
<1>3. mid \in Image
  BY <1>1 DEF Mid, Image, NewNode, Kept, TypeOK
<1>4. /\ mid.inode = ino /\ mid.dirent = dirent /\ mid.inode_bitmap = inode_bitmap \cup {id}
      /\ mid.block_bitmap = block_bitmap
  BY DEF Mid
<1> HIDE DEF mid
<1>5. \A i \in Inodes \ {id} :
        /\ ino[i].type = inode[i].type /\ ino[i].name = inode[i].name
        /\ ino[i].parent = inode[i].parent /\ ino[i].target_inode = inode[i].target_inode
        /\ ino[i].first_child_block = inode[i].first_child_block
        /\ ino[i].blocks = inode[i].blocks /\ ino[i].far = inode[i].far
  BY DEF NewNode
<1>6. ino[id].first_child_block = NONE /\ OwnedIn(ino, id) = {}
  BY DEF NewNode, OwnedIn
<1>7. inode[id].type # "DIR"
  BY <1>1, MemoryFields DEF Live
<1>8. ASSUME NEW d \in Inodes, NEW s \in Slots, NEW c \in Inodes
      PROVE  Holds(ino, dirent, d, s, c) <=> Holds(inode, dirent, d, s, c)
  BY <1>5, <1>6, <1>7 DEF Holds
<1>9. \A i \in Inodes : Live(Memory, i) => i # id /\ i \in inode_bitmap \cup {0}
  BY <1>1, <1>2, LiveIsUsed, MemoryFields
<1>10. DirsMarked(mid)
  BY <1>1, <1>2, <1>4, <1>5, MemoryFields DEF Sound, DirsMarked
<1>11. SameTree(mid, Memory)
  BY <1>1, <1>4, <1>5, <1>8, <1>9, <1>10, MemoryFields DEF SameTree, Live
<1>12. \A i \in Inodes \ {id} : OwnedIn(ino, i) = OwnedIn(inode, i)
  BY <1>5 DEF OwnedIn
<1>13. OwnsLess(mid, Memory)
  <2>1. \A i \in Inodes : Live(Memory, i) => OwnedIn(inode, i) \subseteq block_bitmap
    BY <1>2, MemoryFields DEF Sound, BlocksApart
  <2>2. \A i \in Inodes : i = id \/ (ino[i].type = "DIR" => inode[i].type = "DIR")
    BY <1>5
  <2> QED  BY <1>4, <1>6, <1>9, <1>12, <2>1, <2>2, MemoryFields DEF OwnsLess, Live
<1>14. CountsNear(mid, Memory, 0)
  <2>1. SUFFICES ASSUME NEW i \in Inodes, Reached(Memory, i)
                 PROVE  /\ ino[i].link_count >= inode[i].link_count
                        /\ ino[i].link_count + LinkTo(Memory, i) <= inode[i].link_count + LinkTo(mid, i) + 0
    BY <1>4, MemoryFields DEF CountsNear
  <2>2. i # id
    BY <1>9, <2>1 DEF Live
  <2> DEFINE bit == IF Linked(ino, id, i) THEN 1 ELSE 0
  <2>3. ino[i].link_count = inode[i].link_count + bit
    BY <2>2 DEF NewNode
  <2>4. LinkTo(mid, i) = LinkTo(Memory, i) + bit
    BY OneMoreLink DEF mid
  <2>5. LinkTo(Memory, i) \in Nat /\ inode[i].link_count \in Nat
    BY <1>2, NumbersType, MemoryFields
  <2>6. bit \in {0, 1}
    OBVIOUS
  <2> HIDE DEF bit
  <2> QED  BY <2>3, <2>4, <2>5, <2>6
<1>15. Sound(mid)
  BY <1>2, <1>3, <1>11, <1>13, SameTreeSound
<1>16. Counts(mid, r)
  <2>1. Counts(mid, r + 0)
    BY <1>2, <1>3, <1>11, <1>14, SameTreeCounts
  <2> QED  BY <2>1
<1> QED  BY <1>3, <1>11, <1>13, <1>14, <1>15, <1>16 DEF mid

LEMMA EnterLast ==
  ASSUME NEW r \in Nat, Kept(r), NEW id \in FreeInodes, NEW dir \in Named, NEW ino, NewNode(ino, id, dir),
         AddChild(ino, dir, id), inode_bitmap' = inode_bitmap \cup {id}, current_dir' = current_dir, TypeOK'
  PROVE  Kept(r)'
<1> DEFINE mid == Mid(ino, id)  new == Memory'
<1>1. /\ id \in Inodes /\ id # 0 /\ id \notin inode_bitmap /\ ~Live(Memory, id)
      /\ inode_bitmap \in SUBSET Inodes /\ 0 \notin inode_bitmap
  BY FreshIsUnreached
<1>2. Memory \in Image /\ Sound(Memory) /\ Counts(Memory, r) /\ new \in Image
  BY MemoryIsImage DEF Kept
<1>3. mid \in Image /\ Sound(mid) /\ Counts(mid, r) /\ SameTree(mid, Memory)
  BY EnterMid
<1>4. TreeInv /\ dir \in Inodes /\ HasName(inode, dirent, dir) /\ Reached(Memory, dir)
  <2>1. TreeInv /\ TypeOK
    BY DEF TreeInv, Kept
  <2>2. dir \in Inodes /\ HasName(inode, dirent, dir)
    BY <2>1, NamedType, NamedHasName
  <2> QED  BY <2>1, <2>2, MemoryFields DEF Reached
<1>5. EntryBlocksApart(ino, block_bitmap, dir)
  <2>1. Live(mid, dir)
    BY <1>2, <1>3, <1>4, SameTreeReached DEF Live
  <2>2. EntryBlocksApart(mid.inode, mid.block_bitmap, dir)
    BY <1>3, <1>4, <2>1, SoundApart
  <2> QED  BY <2>2 DEF Mid
<1>6. /\ NamesAgree(inode', dirent', inode_bitmap', current_dir')
      /\ Enters(inode, dirent, inode', dirent', dir, id)
      /\ \A i \in inode_bitmap : HasName(inode', dirent', i) <=> HasName(inode, dirent, i)
      /\ \A i \in Inodes :
           /\ inode'[i].type = ino[i].type /\ inode'[i].link_count = ino[i].link_count
           /\ inode'[i].target_inode = ino[i].target_inode
           /\ inode'[i].name = ino[i].name /\ inode'[i].parent = ino[i].parent
           /\ inode'[i].blocks = ino[i].blocks /\ inode'[i].far = ino[i].far
  <2>1. /\ ino \in [Inodes -> InodeRec]
        /\ \A i \in Inodes \ {id} :
             /\ ino[i].type = inode[i].type /\ ino[i].name = inode[i].name
             /\ ino[i].parent = inode[i].parent
             /\ ino[i].first_child_block = inode[i].first_child_block
        /\ ino[id].parent = dir /\ ino[id].first_child_block = NONE
        /\ ino[id].type = "HARDLINK" \/ Lookup(dir, ino[id].name) = NONE
    BY DEF NewNode
  <2> QED  BY <1>4, <1>5, <2>1, EnterNames
<1>7. /\ mid.inode = ino /\ mid.dirent = dirent /\ mid.inode_bitmap = inode_bitmap'
      /\ mid.block_bitmap = block_bitmap
      /\ new.inode = inode' /\ new.dirent = dirent' /\ new.inode_bitmap = inode_bitmap'
      /\ new.block_bitmap = block_bitmap'
  BY MemoryFieldsNext DEF Mid
<1> HIDE DEF mid, new
<1>8. \A i \in Inodes \ {id} : HasName(inode', dirent', i) <=> HasName(inode, dirent, i)
  <2>1. \A i \in Inodes : HasName(inode', dirent', i) => i \in inode_bitmap' \cup {0}
    BY <1>6 DEF NamesAgree, HasName
  <2>2. \A i \in Inodes : HasName(inode, dirent, i) => i \in inode_bitmap \cup {0}
    BY <1>4 DEF TreeInv, NamesAgree, HasName
  <2>3. HasName(inode, dirent, 0) /\ HasName(inode', dirent', 0)
    BY DEF HasName
  <2> QED  BY <1>6, <2>1, <2>2, <2>3
<1>9. \A i \in Inodes \ {id} : ino[i].type = inode[i].type /\ ino[i].target_inode = inode[i].target_inode
  BY DEF NewNode
<1>10. ASSUME NEW i \in Inodes
       PROVE  /\ NamedLinks(inode', dirent', i) \subseteq
                   NamedLinks(inode, dirent, i) \cup (IF Linked(ino, id, i) THEN {id} ELSE {})
              /\ NamedLinks(inode, dirent, i) \subseteq NamedLinks(inode', dirent', i)
  BY <1>1, <1>6, <1>8, <1>9, MemoryFields DEF NamedLinks, Linked, Live, Reached
<1>11. ASSUME NEW i \in Inodes, Linked(ino, id, i)
       PROVE  HasName(inode, dirent, i) /\ inode[i].type = "FILE" /\ i \in inode_bitmap /\ i # id
  <2>1. HasName(inode, dirent, i) /\ inode[i].type = "FILE"
    BY <1>11 DEF NewNode, Linked
  <2>2. i \in inode_bitmap \cup {0}
    BY <1>2, <2>1, LiveIsUsed, MemoryFields DEF Live, Reached
  <2>3. inode[0].type = "DIR"
    BY <1>4 DEF TreeInv, NamesAgree
  <2> QED  BY <1>1, <2>1, <2>2, <2>3
<1>12. ASSUME NEW i \in Inodes \ {id}
       PROVE  Reached(new, i) <=> Reached(Memory, i)
  BY <1>7, <1>8, <1>10, <1>11, MemoryFields DEF Reached
<1>13. NamedLinks(inode', dirent', id) = {}
  <2>1. ~Linked(ino, id, id)
    BY <1>1, <1>11
  <2>2. NamedLinks(inode, dirent, id) = {}
    BY <1>1, MemoryFields DEF Live, Reached
  <2> QED  BY <1>1, <1>10, <2>1, <2>2
<1>14. LinksLead(new)
  <2>1. SUFFICES ASSUME NEW h \in Inodes, HasName(inode', dirent', h), inode'[h].type = "HARDLINK"
                 PROVE  /\ inode'[h].target_inode \in inode_bitmap'
                        /\ inode'[inode'[h].target_inode].type = "FILE"
    BY <1>7 DEF LinksLead
  <2> DEFINE t == inode'[h].target_inode
  <2>2. t \in Inodes
    BY <1>2, <1>7, ImageFacts
  <2>3. CASE h = id
    <3>1. Linked(ino, id, t)
      BY <1>6, <2>1, <2>3 DEF Linked
    <3>2. inode[t].type = "FILE" /\ t \in inode_bitmap /\ t # id
      BY <1>11, <2>2, <3>1
    <3> QED  BY <1>6, <1>9, <2>2, <3>2
  <2>4. CASE h # id
    <3>1. HasName(inode, dirent, h) /\ inode[h].type = "HARDLINK" /\ inode[h].target_inode = t
      BY <1>6, <1>8, <1>9, <2>1, <2>4
    <3>2. t \in inode_bitmap /\ inode[t].type = "FILE"
      BY <1>2, <3>1, MemoryFields DEF Sound, LinksLead
    <3> QED  BY <1>1, <1>6, <1>9, <2>2, <3>2
  <2> QED  BY <2>3, <2>4
<1>15. DirsMarked(new)
  BY <1>3, <1>6, <1>7 DEF Sound, DirsMarked
<1>16. Counts(new, r)
  <2>1. SUFFICES ASSUME NEW i \in Inodes, Reached(new, i), inode'[i].type = "FILE"
                 PROVE  /\ inode'[i].link_count >= Cardinality(NamedLinks(inode', dirent', i)) + One(new, i)
                        /\ inode'[i].link_count <= LinkTo(new, i) + 1 + r
    BY <1>7 DEF Counts
  <2>2. LinkTo(new, i) = LinkTo(mid, i)
    <3>1. Links(inode', inode_bitmap', i) = Links(ino, inode_bitmap', i)
      BY <1>1, <1>6 DEF Links
    <3> QED  BY <1>7, <3>1 DEF LinkTo
  <2>3. inode'[i].link_count = ino[i].link_count /\ ino[i].type = "FILE"
    BY <1>6, <2>1
  <2>4. /\ Cardinality(NamedLinks(inode', dirent', i)) \in Nat /\ One(new, i) \in {0, 1}
        /\ LinkTo(mid, i) \in Nat /\ LinkTo(Memory, i) \in Nat
        /\ Cardinality(NamedLinks(inode, dirent, i)) \in Nat
        /\ IsFiniteSet(NamedLinks(inode, dirent, i)) /\ inode[i].link_count \in Nat
    BY <1>2, <1>3, <1>7, NumbersType, MemoryFields DEF One
  <2>5. CASE i = id
    <3>1. ino[i].link_count = 1
      BY <2>3, <2>5 DEF NewNode
    <3>2. Cardinality(NamedLinks(inode', dirent', i)) = 0
      BY <1>13, <2>5, FS_EmptySet
    <3> QED  BY <2>2, <2>3, <2>4, <3>1, <3>2
  <2>6. CASE i # id
    <3> DEFINE bit == IF Linked(ino, id, i) THEN 1 ELSE 0
               named == Cardinality(NamedLinks(inode, dirent, i))
               named2 == Cardinality(NamedLinks(inode', dirent', i))
               k == inode[i].link_count
    <3>1. Reached(Memory, i) /\ inode[i].type = "FILE"
      BY <1>9, <1>12, <2>1, <2>3, <2>6
    <3>2. k >= named + One(Memory, i) /\ k <= LinkTo(Memory, i) + 1 + r
      BY <1>2, <3>1, MemoryFields DEF Counts
    <3>3. One(new, i) = One(Memory, i)
      BY <1>7, <1>8, <2>6, MemoryFields DEF One
    <3>4. ino[i].link_count = k + bit
      BY <2>6 DEF NewNode
    <3>5. LinkTo(mid, i) = LinkTo(Memory, i) + bit
      BY OneMoreLink DEF mid
    <3>6. named2 <= named + bit
      <4> DEFINE S == NamedLinks(inode, dirent, i)  T == NamedLinks(inode', dirent', i)
      <4>1. IsFiniteSet(S) /\ T \subseteq S \cup (IF Linked(ino, id, i) THEN {id} ELSE {})
        BY <1>10, <2>4
      <4>2. id \notin S
        BY <1>1, MemoryFields DEF Live, Reached, NamedLinks
      <4> HIDE DEF S, T
      <4>3. CASE Linked(ino, id, i)
        <5>1. IsFiniteSet(S \cup {id}) /\ Cardinality(S \cup {id}) = Cardinality(S) + 1
          BY <4>1, <4>2, FS_AddElement
        <5>2. T \subseteq S \cup {id}
          BY <4>1, <4>3
        <5>3. Cardinality(T) <= Cardinality(S) + 1
          BY <5>1, <5>2, FS_Subset
        <5> QED  BY <4>3, <5>3 DEF S, T
      <4>4. CASE ~Linked(ino, id, i)
        <5>1. T \subseteq S
          BY <4>1, <4>4
        <5>2. Cardinality(T) <= Cardinality(S)
          BY <4>1, <5>1, FS_Subset
        <5> QED  BY <2>4, <4>4, <5>2 DEF S, T
      <4> QED  BY <4>3, <4>4
    <3>7. bit \in {0, 1}
      OBVIOUS
    <3> HIDE DEF bit
    <3>8. named \in Nat /\ named2 \in Nat /\ k \in Nat /\ One(Memory, i) \in {0, 1}
      BY <2>4, <3>3
    <3>9. inode'[i].link_count = k + bit /\ LinkTo(new, i) = LinkTo(Memory, i) + bit
      BY <2>2, <2>3, <3>4, <3>5
    <3> HIDE DEF named, named2, k
    <3>10. k + bit >= named2 + One(Memory, i) /\ k + bit <= (LinkTo(Memory, i) + bit) + 1 + r
      BY <2>4, <3>2, <3>6, <3>7, <3>8
    <3> QED  BY <3>3, <3>9, <3>10 DEF named2
  <2> QED  BY <2>5, <2>6
<1>17. BlocksApart(new)
  <2>1. ASSUME NEW i \in Inodes, Live(new, i)
        PROVE  Live(mid, i) \/ OwnedIn(inode', i) = {}
    <3>1. CASE i = id
      <4>1. inode'[id] = ino[id]
        <5>1. id # dir
          BY <1>1, <1>4 DEF Live
        <5> QED  BY <1>1, <1>4, <5>1 DEF AddChild, NewNode
      <4> QED  BY <3>1, <4>1 DEF NewNode, OwnedIn
    <3>2. CASE i # id
      <4>1. Reached(Memory, i) <=> Reached(mid, i)
        BY <1>2, <1>3, SameTreeReached
      <4> QED  BY <1>6, <1>7, <1>12, <2>1, <3>2, <4>1 DEF Live
    <3> QED  BY <3>1, <3>2
  <2>2. Live(mid, dir)
    BY <1>2, <1>3, <1>4, SameTreeReached DEF Live
  <2>3. BlocksApart(mid) /\ block_bitmap \subseteq block_bitmap'
    BY <1>3 DEF Sound, AddChild
  <2>4. \/ \A i \in Inodes : OwnedIn(inode', i) = OwnedIn(ino, i)
        \/ \E b : /\ b \in block_bitmap' /\ b \notin block_bitmap
                  /\ \A i \in Inodes : OwnedIn(inode', i) =
                       IF i = dir THEN OwnedIn(ino, i) \cup {b} ELSE OwnedIn(ino, i)
    <3>1. CASE inode' = ino
      BY <3>1
    <3>2. CASE \E b \in FreeBlocks :
                 /\ ino[dir].first_child_block = NONE
                 /\ inode' = [ino EXCEPT ![dir].first_child_block = b]
                 /\ block_bitmap' = block_bitmap \cup {b}
      <4>1. PICK b \in FreeBlocks :
                 /\ ino[dir].first_child_block = NONE
                 /\ inode' = [ino EXCEPT ![dir].first_child_block = b]
                 /\ block_bitmap' = block_bitmap \cup {b}
        BY <3>2
      <4>2. b \in block_bitmap' /\ b \notin block_bitmap /\ b # NONE
        BY <4>1 DEF FreeBlocks, Blocks, NONE
      <4>3. ASSUME NEW i \in Inodes
            PROVE  OwnedIn(inode', i) = IF i = dir THEN OwnedIn(ino, i) \cup {b} ELSE OwnedIn(ino, i)
        <5>1. ino \in [Inodes -> InodeRec]
          BY DEF NewNode
        <5>2. ino[i] \in InodeRec
          BY <5>1
        <5>3. /\ inode'[i].blocks = ino[i].blocks /\ inode'[i].far = ino[i].far
              /\ inode'[i].first_child_block = IF i = dir THEN b ELSE ino[i].first_child_block
          BY <1>4, <4>1, <5>1, <5>2 DEF InodeRec
        <5> QED  BY <4>1, <4>2, <5>3 DEF OwnedIn
      <4> QED  BY <4>2, <4>3
    <3> QED  BY <3>1, <3>2 DEF AddChild
  <2>5. SUFFICES ASSUME NEW i \in Inodes, Live(new, i)
                 PROVE  /\ OwnedIn(inode', i) \subseteq block_bitmap'
                        /\ \A j \in Inodes : i # j /\ Live(new, j) =>
                             OwnedIn(inode', i) \cap OwnedIn(inode', j) = {}
    BY <1>7 DEF BlocksApart
  <2>6. \A j \in Inodes : Live(mid, j) => OwnedIn(ino, j) \subseteq block_bitmap
    BY <1>7, <2>3 DEF BlocksApart
  <2>7. \A j, k \in Inodes : Live(mid, j) /\ Live(mid, k) /\ j # k => OwnedIn(ino, j) \cap OwnedIn(ino, k) = {}
    BY <1>7, <2>3 DEF BlocksApart
  <2>8. OwnedIn(inode', i) \subseteq block_bitmap'
    BY <2>1, <2>3, <2>4, <2>5, <2>6
  <2>9. ASSUME NEW j \in Inodes, i # j, Live(new, j)
        PROVE  OwnedIn(inode', i) \cap OwnedIn(inode', j) = {}
    <3>1. CASE OwnedIn(inode', i) = {} \/ OwnedIn(inode', j) = {}
      BY <3>1
    <3>2. CASE Live(mid, i) /\ Live(mid, j)
      <4>1. /\ OwnedIn(ino, i) \cap OwnedIn(ino, j) = {}
            /\ OwnedIn(ino, i) \subseteq block_bitmap /\ OwnedIn(ino, j) \subseteq block_bitmap
        BY <2>6, <2>7, <2>9, <3>2
      <4> QED  BY <2>4, <2>9, <4>1
    <3> QED  BY <2>1, <2>5, <2>9, <3>1, <3>2
  <2> QED  BY <2>8, <2>9
<1>18. Sound(new)
  <2>1. NamesAgree(inode', dirent', inode_bitmap', 0)
    BY <1>6, NamesAgreeRoot
  <2> QED  BY <1>7, <1>14, <1>15, <1>17, <2>1 DEF Sound
<1> QED  BY <1>6, <1>16, <1>18 DEF Kept, new

-----------------------------------------------------------------------------
(* Sectors that change nothing a path leads to                              *)

Like(x, m, n) == x \in Image /\ SameTree(x, m) /\ OwnsLess(x, m) /\ CountsNear(x, m, n)

LEMMA LikeIsSafe ==
  ASSUME NEW m \in Image, NEW r \in Nat, Sound(m), Counts(m, r), NEW x, NEW n \in {0, 1}, Like(x, m, n)
  PROVE  x \in Safe(r + 1)
<1>1. x \in Safe(r + n)
  BY SameTreeSafe DEF Like
<1>2. r + n \in Nat /\ r + 1 \in Nat /\ r + n <= r + 1
  OBVIOUS
<1> QED  BY <1>1, <1>2, CountsGrow DEF Safe

LEMMA LikeItself ==
  ASSUME NEW m \in Image, Sound(m)
  PROVE  Like(m, m, 0)
<1>1. Agrees(m, m, {})
  BY DEF Agrees, SavedAs, Sound
<1> QED  BY <1>1, AgreesIsAlike DEF Like

LEMMA AgreesIsLike ==
  ASSUME NEW m \in Image, Sound(m), NEW e \in Image, NEW D, Agrees(e, m, D)
  PROVE  Like(e, m, 0)
  BY AgreesIsAlike DEF Like

LEMMA LikeMarks ==
  ASSUME NEW m, NEW n, NEW x, Like(x, m, n), NEW B \in SUBSET Blocks, x.block_bitmap \subseteq B
  PROVE  Like([x EXCEPT !.block_bitmap = B], m, n)
<1> DEFINE y == [x EXCEPT !.block_bitmap = B]
<1>1. x \in Image
  BY DEF Like
<1>2. /\ y \in Image /\ y.inode = x.inode /\ y.dirent = x.dirent /\ y.inode_bitmap = x.inode_bitmap
      /\ y.block_bitmap = B
  BY <1>1 DEF Image
<1> HIDE DEF y
<1>3. SameTree(y, m)
  BY <1>2 DEF Like, SameTree, DirsMarked
<1>4. OwnsLess(y, m)
  BY <1>2 DEF Like, OwnsLess
<1>5. CountsNear(y, m, n)
  BY <1>2 DEF Like, CountsNear, LinkTo
<1>6. Like(y, m, n)
  BY <1>2, <1>3, <1>4, <1>5 DEF Like
<1> QED  BY <1>6 DEF y

(* One more inode marked. *)
LEMMA LikeInodeMarked ==
  ASSUME NEW m \in Image, Sound(m), NEW x \in Image, NEW D, Agrees(x, m, D), NEW id \in Inodes \ {0}
  PROVE  Like([x EXCEPT !.inode_bitmap = m.inode_bitmap \cup {id}], m, 0)
<1> DEFINE y == [x EXCEPT !.inode_bitmap = m.inode_bitmap \cup {id}]
<1>1. SameTree(x, m) /\ OwnsLess(x, m) /\ CountsNear(x, m, 0) /\ x.inode_bitmap = m.inode_bitmap
  BY AgreesIsAlike DEF Agrees
<1>2. /\ y \in Image /\ y.inode = x.inode /\ y.dirent = x.dirent /\ y.inode_bitmap = m.inode_bitmap \cup {id}
      /\ y.block_bitmap = x.block_bitmap
  BY ImageFacts DEF Image
<1> HIDE DEF y
<1>3. SameTree(y, m)
  BY <1>1, <1>2 DEF SameTree, DirsMarked
<1>4. OwnsLess(y, m)
  BY <1>1, <1>2 DEF OwnsLess
<1>5. CountsNear(y, m, 0)
  <2>1. SUFFICES ASSUME NEW i \in Inodes, Reached(m, i), m.inode[i].type = "FILE"
                 PROVE  /\ y.inode[i].link_count >= m.inode[i].link_count
                        /\ y.inode[i].link_count + LinkTo(m, i) <= m.inode[i].link_count + LinkTo(y, i) + 0
    BY DEF CountsNear
  <2>2. /\ x.inode[i].link_count >= m.inode[i].link_count
        /\ x.inode[i].link_count + LinkTo(m, i) <= m.inode[i].link_count + LinkTo(x, i) + 0
    BY <1>1, <2>1 DEF CountsNear
  <2>3. LinkTo(x, i) <= LinkTo(y, i)
    <3>1. Links(x.inode, x.inode_bitmap, i) \subseteq Links(y.inode, y.inode_bitmap, i)
      BY <1>1, <1>2 DEF Links
    <3>2. IsFiniteSet(Links(y.inode, y.inode_bitmap, i))
      BY <1>2, NumbersType
    <3> QED  BY <3>1, <3>2, FS_Subset DEF LinkTo
  <2>4. /\ LinkTo(x, i) \in Nat /\ LinkTo(y, i) \in Nat /\ LinkTo(m, i) \in Nat
        /\ x.inode[i].link_count \in Nat /\ m.inode[i].link_count \in Nat
    BY <1>2, NumbersType
  <2> QED  BY <1>2, <2>2, <2>3, <2>4
<1>6. Like(y, m, 0)
  BY <1>2, <1>3, <1>4, <1>5 DEF Like
<1> QED  BY <1>6 DEF y

(* The sector of a block that no directory has. *)
LEMMA LikeQuietBlock ==
  ASSUME NEW m, NEW n, NEW x, Like(x, m, n), NEW b \in Blocks, NEW f \in [Slots -> Inodes \cup {NONE}],
         \A d \in Inodes : x.inode[d].type = "DIR" => x.inode[d].first_child_block # b
  PROVE  Like([x EXCEPT !.dirent[b] = f], m, n)
<1> DEFINE y == [x EXCEPT !.dirent[b] = f]
<1>1. x \in Image
  BY DEF Like
<1>2. /\ y \in Image /\ y.inode = x.inode /\ y.inode_bitmap = x.inode_bitmap
      /\ y.block_bitmap = x.block_bitmap /\ y.dirent = [x.dirent EXCEPT ![b] = f]
  BY <1>1 DEF Image
<1> HIDE DEF y
<1>3. ASSUME NEW d \in Inodes, NEW s \in Slots, NEW c \in Inodes
      PROVE  Holds(y.inode, y.dirent, d, s, c) <=> Holds(x.inode, x.dirent, d, s, c)
  <2>1. x.inode[d].first_child_block \in Blocks \cup {NONE} /\ x.dirent \in [Blocks -> [Slots -> Inodes \cup {NONE}]]
    BY <1>1, ImageFacts
  <2> QED  BY <1>2, <2>1 DEF Holds
<1>4. SameTree(y, m)
  BY <1>2, <1>3 DEF Like, SameTree, DirsMarked
<1>5. OwnsLess(y, m)
  BY <1>2 DEF Like, OwnsLess
<1>6. CountsNear(y, m, n)
  BY <1>2 DEF Like, CountsNear, LinkTo
<1>7. Like(y, m, n)
  BY <1>2, <1>4, <1>5, <1>6 DEF Like
<1> QED  BY <1>7 DEF y

-----------------------------------------------------------------------------
(* The writes of dir_add_child, from a disk that agrees with m, the memory   *)
(* before it.                                                                *)

LEMMA SectorTypes ==
  ASSUME NEW J
  PROVE  /\ \A i \in J, q \in InodeRec : InodeSector(i, q) \in Sectors(J)
         /\ \A B \in SUBSET Inodes : InodeBitmap(B) \in Sectors(J)
         /\ \A B \in SUBSET Blocks : BlockBitmap(B) \in Sectors(J)
         /\ TypeOK' => \A b \in Blocks : DirSector(b) \in Sectors(J)
  BY DEF InodeSector, InodeBitmap, BlockBitmap, DirSector, Sectors, TypeOK

LEMMA AppliedSectors ==
  ASSUME NEW x
  PROVE  /\ \A i, q : Applied(x, InodeSector(i, q)) = [x EXCEPT !.inode[i] = q]
         /\ \A B : Applied(x, InodeBitmap(B)) = [x EXCEPT !.inode_bitmap = B]
         /\ \A B : Applied(x, BlockBitmap(B)) = [x EXCEPT !.block_bitmap = B]
         /\ \A b : Applied(x, DirSector(b)) = [x EXCEPT !.dirent[b] = dirent'[b]]
  BY DEF InodeSector, InodeBitmap, BlockBitmap, DirSector, Applied

(* Saving an inode as memory has it. *)
LEMMA AgreesSaved ==
  ASSUME NEW m \in Image, DirsMarked(m), NEW x \in Image, NEW i \in Inodes, NEW D,
         x.dirent = m.dirent, x.inode_bitmap = m.inode_bitmap, x.block_bitmap = m.block_bitmap,
         \A j \in Inodes \ {i} : x.inode[j].type = "DIR" => j \in m.inode_bitmap \cup {0},
         \A j \in (m.inode_bitmap \cup {0}) \ {i} :
           SavedAs(x.inode[j], m.inode[j]) /\ (j \notin D => x.inode[j] = m.inode[j])
  PROVE  LET y == [x EXCEPT !.inode[i] = m.inode[i]]
         IN  y \in Image /\ Agrees(y, m, D \ {i})
<1> DEFINE y == [x EXCEPT !.inode[i] = m.inode[i]]
<1>1. /\ y \in Image /\ y.inode = [x.inode EXCEPT ![i] = m.inode[i]]
      /\ y.dirent = x.dirent /\ y.inode_bitmap = x.inode_bitmap /\ y.block_bitmap = x.block_bitmap
  BY ImageFacts DEF Image
<1>2. y.inode[i] = m.inode[i] /\ \A j \in Inodes \ {i} : y.inode[j] = x.inode[j]
  BY <1>1, ImageFacts
<1> HIDE DEF y
<1>3. m.inode_bitmap \cup {0} \subseteq Inodes
  BY ImageFacts
<1>4. ASSUME NEW j \in m.inode_bitmap \cup {0}
      PROVE  SavedAs(y.inode[j], m.inode[j]) /\ (j \notin D \ {i} => y.inode[j] = m.inode[j])
  <2>1. CASE j = i
    BY <1>2, <2>1 DEF SavedAs
  <2>2. CASE j # i
    BY <1>2, <1>3, <2>2
  <2> QED  BY <2>1, <2>2
<1>5. DirsMarked(y)
  BY <1>1, <1>2 DEF DirsMarked
<1> QED  BY <1>1, <1>4, <1>5 DEF Agrees, y

LEMMA EntryTrail ==
  ASSUME NEW r \in Nat, TypeOK, TypeOK', NEW m \in Image, Sound(m), Counts(m, r),
         Sound(Memory)', Counts(Memory, r)',
         NEW dir \in Inodes, NEW id \in Inodes, AddChild(m.inode, dir, id),
         m.dirent = dirent, m.block_bitmap = block_bitmap, m.inode_bitmap = inode_bitmap',
         NEW x \in Image, NEW D, Agrees(x, m, D)
  PROVE  \E e \in Image, J \in SUBSET Inodes :
           Trail(Safe(r + 1), J, x, EntryAdded(dir), e) /\ Agrees(e, Memory', D \ J)
<1> DEFINE S == Safe(r + 1)  new == Memory'
<1>1. new \in Image /\ Sound(new) /\ Counts(new, r)
  BY MemoryIsImage
<1>2. /\ new.inode = inode' /\ new.dirent = dirent' /\ new.inode_bitmap = inode_bitmap'
      /\ new.block_bitmap = block_bitmap'
  BY MemoryFieldsNext
<1>3. S \in SUBSET Image
  BY DEF Safe
<1>4. Like(x, m, 0) /\ x \in S
  BY AgreesIsLike, LikeIsSafe
<1>5. ASSUME NEW y \in Image, NEW E, Agrees(y, new, E)
      PROVE  y \in S
  BY <1>1, <1>5, AgreesIsLike, LikeIsSafe
<1>6. /\ x.dirent = dirent /\ x.inode_bitmap = inode_bitmap' /\ x.block_bitmap = block_bitmap
      /\ DirsMarked(x)
      /\ \A j \in inode_bitmap' \cup {0} :
           SavedAs(x.inode[j], m.inode[j]) /\ (j \notin D => x.inode[j] = m.inode[j])
  BY DEF Agrees
<1>a. block_bitmap \subseteq Blocks /\ dirent \in [Blocks -> [Slots -> Inodes \cup {NONE}]]
  BY DEF TypeOK
<1>b. m.inode \in [Inodes -> InodeRec]
  BY ImageFacts
<1> HIDE DEF S, new
<1>7. CASE /\ m.inode[dir].first_child_block = NONE
           /\ \E b \in FreeBlocks :
                /\ inode' = [m.inode EXCEPT ![dir].first_child_block = b]
                /\ dirent' = [dirent EXCEPT ![b] = [s \in Slots |-> IF s = 0 THEN id ELSE NONE]]
                /\ block_bitmap' = block_bitmap \cup {b}
  <2>1. PICK b \in FreeBlocks :
                /\ inode' = [m.inode EXCEPT ![dir].first_child_block = b]
                /\ dirent' = [dirent EXCEPT ![b] = [s \in Slots |-> IF s = 0 THEN id ELSE NONE]]
                /\ block_bitmap' = block_bitmap \cup {b}
    BY <1>7
  <2>2. b \in Blocks /\ b \notin block_bitmap /\ b # NONE
    BY DEF FreeBlocks, Blocks, NONE
  <2>3. block_bitmap' \ block_bitmap = {b} /\ block_bitmap' # block_bitmap /\ inode'[dir].first_child_block = b
    BY <1>b, <2>1, <2>2
  <2>4. EntryAdded(dir) = Allocations({b}) \o <<DirSector(b), InodeSector(dir, inode'[dir])>>
    BY <2>3 DEF EntryAdded
  <2> DEFINE x1 == [x EXCEPT !.block_bitmap = block_bitmap \cup {b}]
             x2 == [x1 EXCEPT !.dirent[b] = dirent'[b]]
             x3 == [x2 EXCEPT !.inode[dir] = new.inode[dir]]
  <2>5. Like(x1, m, 0) /\ Trail(S, {dir}, x, Allocations({b}), x1)
    <3>1. ASSUME NEW B \in SUBSET Blocks, block_bitmap \subseteq B
          PROVE  Like([x EXCEPT !.block_bitmap = B], m, 0) /\ [x EXCEPT !.block_bitmap = B] \in S
      BY <1>4, <1>6, <3>1, LikeMarks, LikeIsSafe DEF S
    <3>2. block_bitmap \cup {b} \in SUBSET Blocks
      BY <1>a, <2>2
    <3> QED  BY <1>3, <1>4, <1>6, <1>a, <2>2, <3>1, <3>2, TakingTrail
  <2>6. /\ x1 \in Image /\ x1.inode = x.inode /\ x1.dirent = dirent /\ x1.inode_bitmap = inode_bitmap'
        /\ x1.block_bitmap = block_bitmap'
    BY <1>6, <2>1, <2>5 DEF Image, Like
  <2> HIDE DEF x1
  <2>7. \A d \in Inodes : x1.inode[d].type = "DIR" => x1.inode[d].first_child_block # b
    <3>1. SUFFICES ASSUME NEW d \in Inodes, x.inode[d].type = "DIR"
                   PROVE  x.inode[d].first_child_block # b
      BY <2>6
    <3>2. d \in inode_bitmap' \cup {0}
      BY <1>6, <3>1 DEF DirsMarked
    <3>3. Live(m, d) /\ x.inode[d].first_child_block = m.inode[d].first_child_block
      BY <1>6, <3>1, <3>2 DEF Live, SavedAs
    <3>4. OwnedIn(m.inode, d) \subseteq block_bitmap
      BY <3>3 DEF Sound, BlocksApart
    <3> QED  BY <2>2, <3>3, <3>4 DEF OwnedIn
  <2>8. dirent'[b] \in [Slots -> Inodes \cup {NONE}]
    BY <2>2 DEF TypeOK
  <2>9. Like(x2, m, 0) /\ x2 \in S
    BY <2>2, <2>5, <2>7, <2>8, LikeQuietBlock, LikeIsSafe DEF S
  <2>10. /\ x2 \in Image /\ x2.inode = x.inode /\ x2.dirent = dirent' /\ x2.inode_bitmap = inode_bitmap'
         /\ x2.block_bitmap = block_bitmap'
    <3>1. [dirent EXCEPT ![b] = dirent'[b]] = dirent'
      BY <1>a, <2>1, <2>2
    <3> QED  BY <2>6, <2>9, <3>1 DEF Image, Like
  <2> HIDE DEF x2
  <2>11. \A j \in Inodes \ {dir} : inode'[j] = m.inode[j]
    BY <1>b, <2>1
  <2>12. x3 \in Image /\ Agrees(x3, new, D \ {dir})
    <3>1. \A j \in Inodes \ {dir} : x2.inode[j].type = "DIR" => j \in new.inode_bitmap \cup {0}
      BY <1>2, <1>6, <2>10 DEF DirsMarked
    <3>2. \A j \in (new.inode_bitmap \cup {0}) \ {dir} :
            SavedAs(x2.inode[j], new.inode[j]) /\ (j \notin D => x2.inode[j] = new.inode[j])
      <4>1. new.inode_bitmap \cup {0} \subseteq Inodes
        BY <1>1, ImageFacts
      <4> QED  BY <1>2, <1>6, <2>10, <2>11, <4>1
    <3>3. DirsMarked(new)
      BY <1>1 DEF Sound
    <3> QED  BY <1>1, <1>2, <2>10, <3>1, <3>2, <3>3, AgreesSaved
  <2>13. Trail(S, {dir}, x1, <<DirSector(b)>>, x2)
    <3>1. Applied(x1, DirSector(b)) = x2
      BY AppliedSectors DEF x2
    <3>2. x1 \in S
      BY <2>5, LikeIsSafe DEF S
    <3> QED  BY <2>2, <2>9, <3>1, <3>2, TrailOne, SectorTypes
  <2>14. Trail(S, {dir}, x2, <<InodeSector(dir, inode'[dir])>>, x3)
    <3>1. Applied(x2, InodeSector(dir, inode'[dir])) = x3
      <4>1. new.inode[dir] = inode'[dir]
        BY <1>2
      <4>2. Applied(x2, InodeSector(dir, inode'[dir])) = [x2 EXCEPT !.inode[dir] = inode'[dir]]
        BY SMTT(30), AppliedSectors
      <4> QED  BY <4>1, <4>2
    <3>2. x3 \in S
      BY <1>5, <2>12
    <3>3. InodeSector(dir, inode'[dir]) \in Sectors({dir})
      BY SectorTypes DEF TypeOK
    <3> QED  BY <2>9, <3>1, <3>2, <3>3, TrailOne
  <2> HIDE DEF x3
  <2>15. Trail(S, {dir}, x1, <<DirSector(b), InodeSector(dir, inode'[dir])>>, x3)
    BY <2>13, <2>14, TrailTwo
  <2>16. Trail(S, {dir}, x, EntryAdded(dir), x3)
    BY <2>4, <2>5, <2>15, TrailThen
  <2>17. {dir} \in SUBSET Inodes
    OBVIOUS
  <2> QED  BY <2>12, <2>16, <2>17 DEF S, new
<1>8. CASE /\ m.inode[dir].first_child_block # NONE
           /\ \E s \in Slots \ Used(m.inode, dir) :
                dirent' = [dirent EXCEPT ![m.inode[dir].first_child_block][s] = id]
           /\ inode' = m.inode
           /\ UNCHANGED block_bitmap
  <2> DEFINE b == m.inode[dir].first_child_block
  <2>1. PICK s \in Slots \ Used(m.inode, dir) : dirent' = [dirent EXCEPT ![b][s] = id]
    BY <1>8
  <2>2. b \in Blocks /\ inode'[dir].first_child_block = b /\ block_bitmap' = block_bitmap
    BY <1>8, ImageFacts
  <2>3. dirent' # dirent
    <3>1. dirent[b][s] = NONE
      BY <1>8, <2>1 DEF Used
    <3>2. dirent'[b][s] = id
      BY <1>a, <2>1, <2>2
    <3> QED  BY <3>1, <3>2 DEF Inodes, NONE
  <2>4. EntryAdded(dir) = Allocations({}) \o <<DirSector(b), InodeSector(dir, inode'[dir])>>
    BY <2>2, <2>3 DEF EntryAdded
  <2> HIDE DEF b
  <2> DEFINE x2 == [x EXCEPT !.dirent[b] = dirent'[b]]
             x3 == [x2 EXCEPT !.inode[dir] = new.inode[dir]]
  <2>5. Trail(S, {dir}, x, Allocations({}), x)
    <3>1. ASSUME NEW B \in SUBSET Blocks, block_bitmap \subseteq B
          PROVE  [x EXCEPT !.block_bitmap = B] \in S
      BY <1>4, <1>6, <3>1, LikeMarks, LikeIsSafe DEF S
    <3>2. [x EXCEPT !.block_bitmap = block_bitmap \cup {}] = x
      BY <1>6 DEF Image
    <3>3. Trail(S, {dir}, x, Allocations({}), [x EXCEPT !.block_bitmap = block_bitmap \cup {}])
      BY <1>3, <1>4, <1>6, <1>a, <3>1, TakingTrail
    <3> QED  BY <3>2, <3>3
  <2>6. /\ x2 \in Image /\ x2.inode = x.inode /\ x2.dirent = dirent' /\ x2.inode_bitmap = inode_bitmap'
        /\ x2.block_bitmap = block_bitmap'
    <3>1. [dirent EXCEPT ![b] = dirent'[b]] = dirent'
      BY <1>a, <2>1, <2>2
    <3>2. dirent' \in [Blocks -> [Slots -> Inodes \cup {NONE}]]
      BY DEF TypeOK
    <3> QED  BY <1>6, <2>2, <3>1, <3>2 DEF Image
  <2> HIDE DEF x2
  <2>7. Agrees(x2, new, D)
    BY <1>2, <1>6, <1>8, <2>6 DEF Agrees, DirsMarked
  <2>8. x2 \in S
    BY <1>5, <2>6, <2>7
  <2>9. x3 \in Image /\ Agrees(x3, new, D \ {dir})
    <3>1. DirsMarked(new) /\ DirsMarked(x2)
      BY <1>1, <2>7 DEF Sound, Agrees
    <3>2. \A j \in Inodes \ {dir} : x2.inode[j].type = "DIR" => j \in new.inode_bitmap \cup {0}
      BY <1>2, <2>6, <3>1 DEF DirsMarked
    <3>3. \A j \in (new.inode_bitmap \cup {0}) \ {dir} :
            SavedAs(x2.inode[j], new.inode[j]) /\ (j \notin D => x2.inode[j] = new.inode[j])
      BY <2>7 DEF Agrees
    <3> QED  BY <1>1, <1>2, <2>6, <3>1, <3>2, <3>3, AgreesSaved
  <2>10. Trail(S, {dir}, x, <<DirSector(b)>>, x2)
    <3>1. Applied(x, DirSector(b)) = x2
      BY AppliedSectors DEF x2
    <3> QED  BY <1>4, <2>2, <2>8, <3>1, TrailOne, SectorTypes
  <2>11. Trail(S, {dir}, x2, <<InodeSector(dir, inode'[dir])>>, x3)
    <3>1. Applied(x2, InodeSector(dir, inode'[dir])) = x3
      <4>1. new.inode[dir] = inode'[dir]
        BY <1>2
      <4>2. Applied(x2, InodeSector(dir, inode'[dir])) = [x2 EXCEPT !.inode[dir] = inode'[dir]]
        BY AppliedSectors
      <4> QED  BY <4>1, <4>2
    <3>2. x3 \in S
      BY <1>5, <2>9
    <3>3. InodeSector(dir, inode'[dir]) \in Sectors({dir})
      BY SectorTypes DEF TypeOK
    <3> QED  BY <2>8, <3>1, <3>2, <3>3, TrailOne
  <2> HIDE DEF x3
  <2>12. Trail(S, {dir}, x, <<DirSector(b), InodeSector(dir, inode'[dir])>>, x3)
    BY <2>10, <2>11, TrailTwo
  <2>13. Trail(S, {dir}, x, EntryAdded(dir), x3)
    BY <2>4, <2>5, <2>12, TrailThen
  <2>14. {dir} \in SUBSET Inodes
    OBVIOUS
  <2> QED  BY <2>9, <2>13, <2>14 DEF S, new
<1>9. CASE inode' = m.inode /\ UNCHANGED <<dirent, block_bitmap>>
  <2>1. EntryAdded(dir) = <<>>
    BY <1>9 DEF EntryAdded
  <2>2. Agrees(x, new, D)
    BY <1>2, <1>6, <1>9 DEF Agrees
  <2>3. Trail(S, {}, x, <<>>, x)
    BY <1>4, TrailNone
  <2>4. D \ {} = D /\ {} \in SUBSET Inodes
    OBVIOUS
  <2>5. Trail(S, {}, x, EntryAdded(dir), x) /\ Agrees(x, new, D \ {})
    BY <2>1, <2>2, <2>3, <2>4
  <2> QED  BY <2>4, <2>5 DEF S, new
<1> QED  BY <1>7, <1>8, <1>9 DEF AddChild

-----------------------------------------------------------------------------
(* Making nodes                                                             *)

(* The writes ws lead the disk x, within S, to one that agrees with memory   *)
(* after the call.                                                           *)
Leads(S, x, D, ws) ==
  \E e \in Image, J \in SUBSET Inodes : Trail(S, J, x, ws, e) /\ Agrees(e, Memory', D \ J)

LEMMA LeadsAfter ==
  ASSUME NEW S, NEW J \in SUBSET Inodes, NEW x, NEW y, NEW D, NEW ws, NEW us,
         Trail(S, J, x, ws, y), Leads(S, y, D \ J, us)
  PROVE  Leads(S, x, D, ws \o us)
<1>1. PICK e \in Image, K \in SUBSET Inodes : Trail(S, K, y, us, e) /\ Agrees(e, Memory', (D \ J) \ K)
  BY DEF Leads
<1>2. Trail(S, J \cup K, x, ws \o us, e)
  BY <1>1, TrailJoin
<1>3. (D \ J) \ K = D \ (J \cup K) /\ J \cup K \in SUBSET Inodes
  OBVIOUS
<1>4. Agrees(e, Memory', D \ (J \cup K))
  BY <1>1, <1>3
<1> QED  BY <1>2, <1>3, <1>4 DEF Leads

LEMMA JoinTwo ==
  ASSUME NEW X, NEW v \in X, NEW w \in X, NEW us \in Seq(X)
  PROVE  <<v, w>> \o us = <<v>> \o (<<w>> \o us)
<1>1. <<v>> \in Seq(X) /\ <<w>> \in Seq(X)
  OBVIOUS
<1>2. (<<v>> \o <<w>>) \o us = <<v>> \o (<<w>> \o us)
  BY <1>1, ConcatAssociative
<1> QED  BY <1>2, TwoWrites

LEMMA InodeMarked ==
  ASSUME NEW r \in Nat, Kept(r), NEW id \in FreeInodes, NEW x \in Image, NEW D, Agrees(x, Memory, D),
         inode_bitmap' = inode_bitmap \cup {id}
  PROVE  LET y == [x EXCEPT !.inode_bitmap = inode_bitmap']
         IN  /\ y \in Image /\ y.inode = x.inode /\ y.dirent = dirent /\ y.inode_bitmap = inode_bitmap'
             /\ y.block_bitmap = block_bitmap
             /\ Like(y, Memory, 0) /\ y \in Safe(r + 1)
             /\ Trail(Safe(r + 1), {}, x, <<InodeBitmap(inode_bitmap')>>, y)
<1> DEFINE y == [x EXCEPT !.inode_bitmap = inode_bitmap']
<1>1. Memory \in Image /\ Sound(Memory) /\ Counts(Memory, r)
  BY MemoryIsImage DEF Kept
<1>2. id \in Inodes \ {0} /\ inode_bitmap' \in SUBSET Inodes
  BY FreshIsUnreached
<1>3. Like(y, Memory, 0)
  BY <1>1, <1>2, LikeInodeMarked, MemoryFields
<1>4. x \in Safe(r + 1) /\ y \in Safe(r + 1)
  BY <1>1, <1>3, AgreesIsLike, LikeIsSafe
<1>5. x.dirent = dirent /\ x.block_bitmap = block_bitmap
  BY MemoryFields DEF Agrees
<1>6. /\ y \in Image /\ y.inode = x.inode /\ y.dirent = dirent /\ y.inode_bitmap = inode_bitmap'
      /\ y.block_bitmap = block_bitmap
  BY <1>3, <1>5 DEF Like, Image
<1>7. Applied(x, InodeBitmap(inode_bitmap')) = y
  BY AppliedSectors
<1> HIDE DEF y
<1>8. Trail(Safe(r + 1), {}, x, <<InodeBitmap(inode_bitmap')>>, y)
  BY <1>2, <1>4, <1>7, TrailOne, SectorTypes
<1> QED  BY <1>3, <1>4, <1>6, <1>8 DEF y

(* The new inode is saved and then entered. *)
LEMMA NodeLeads ==
  ASSUME NEW r \in Nat, Kept(r), NEW id \in FreeInodes, NEW dir \in Named, NEW ino, NewNode(ino, id, dir),
         AddChild(ino, dir, id), inode_bitmap' = inode_bitmap \cup {id}, current_dir' = current_dir, TypeOK',
         NEW y \in Safe(r + 1), NEW D,
         y.dirent = dirent, y.inode_bitmap = inode_bitmap', y.block_bitmap = block_bitmap, DirsMarked(y),
         \A j \in (inode_bitmap \cup {0}) \ {id} :
           SavedAs(y.inode[j], ino[j]) /\ (j \notin D => y.inode[j] = ino[j])
  PROVE  /\ Leads(Safe(r + 1), y, D, <<InodeSector(id, inode'[id])>> \o EntryAdded(inode'[id].parent))
         /\ EntryAdded(inode'[id].parent) \in Seq(Sectors(Inodes))
<1> DEFINE mid == Mid(ino, id)  z == [y EXCEPT !.inode[id] = mid.inode[id]]
<1>1. Kept(r)'
  BY EnterLast
<1>2. mid \in Image /\ Sound(mid) /\ Counts(mid, r)
  BY EnterMid
<1>3. /\ mid.inode = ino /\ mid.dirent = dirent /\ mid.inode_bitmap = inode_bitmap'
      /\ mid.block_bitmap = block_bitmap
  BY DEF Mid
<1>4. id \in Inodes /\ ~Live(Memory, id) /\ y \in Image
  BY FreshIsUnreached DEF Safe
<1>5. TypeOK /\ dir \in Inodes /\ dir # id
  <2>1. TypeOK
    BY DEF Kept
  <2>2. dir \in Inodes /\ HasName(inode, dirent, dir)
    BY <2>1, NamedType, NamedHasName
  <2> QED  BY <1>4, <2>1, <2>2, MemoryFields DEF Live, Reached
<1>6. inode'[id] = ino[id] /\ inode'[id].parent = dir
  <2>1. ino \in [Inodes -> InodeRec] /\ ino[id].parent = dir
    BY DEF NewNode
  <2> QED  BY <1>4, <1>5, <2>1 DEF AddChild
<1> HIDE DEF mid
<1>7. z \in Image /\ Agrees(z, mid, D \ {id})
  <2>1. \A j \in Inodes \ {id} : y.inode[j].type = "DIR" => j \in mid.inode_bitmap \cup {0}
    BY <1>3 DEF DirsMarked
  <2>2. \A j \in (mid.inode_bitmap \cup {0}) \ {id} :
          SavedAs(y.inode[j], mid.inode[j]) /\ (j \notin D => y.inode[j] = mid.inode[j])
    BY <1>3
  <2>3. DirsMarked(mid)
    BY <1>2 DEF Sound
  <2> QED  BY <1>2, <1>3, <1>4, <2>1, <2>2, <2>3, AgreesSaved
<1>8. z \in Safe(r + 1)
  BY <1>2, <1>7, AgreesIsLike, LikeIsSafe
<1>9. Trail(Safe(r + 1), {id}, y, <<InodeSector(id, inode'[id])>>, z)
  <2>1. Applied(y, InodeSector(id, inode'[id])) = z
    <3>1. Applied(y, InodeSector(id, inode'[id])) = [y EXCEPT !.inode[id] = inode'[id]]
      BY AppliedSectors
    <3>2. inode'[id] = mid.inode[id]
      BY <1>3, <1>6
    <3> QED  BY <3>1, <3>2
  <2>2. InodeSector(id, inode'[id]) \in Sectors({id})
    BY <1>4, SectorTypes DEF TypeOK
  <2> QED  BY <1>8, <2>1, <2>2, TrailOne
<1> HIDE DEF z
<1>10. Leads(Safe(r + 1), z, D \ {id}, EntryAdded(dir))
  <2>1. AddChild(mid.inode, dir, id)
    BY <1>3
  <2>2. Sound(Memory)' /\ Counts(Memory, r)'
    BY <1>1 DEF Kept
  <2>3. \E e \in Image, J \in SUBSET Inodes :
           Trail(Safe(r + 1), J, z, EntryAdded(dir), e) /\ Agrees(e, Memory', (D \ {id}) \ J)
    BY <1>2, <1>3, <1>4, <1>5, <1>7, <2>1, <2>2, EntryTrail
  <2> QED  BY <2>3 DEF Leads
<1>12. EntryAdded(dir) \in Seq(Sectors(Inodes))
  BY <1>10, TrailEnds, SectorsGrow DEF Leads
<1> QED  BY <1>4, <1>6, <1>9, <1>10, <1>12, LeadsAfter

(* create_inode and fs_create_symlink *)
LEMMA MadeLeads ==
  ASSUME NEW r \in Nat, Kept(r), NEW id \in FreeInodes, id = Least(FreeInodes), NEW dir \in Named, NEW ino,
         NewNode(ino, id, dir), \A j \in Inodes \ {id} : ino[j] = inode[j],
         AddChild(ino, dir, id), inode_bitmap' = inode_bitmap \cup {id}, current_dir' = current_dir, TypeOK',
         NEW x \in Image, NEW D, Agrees(x, Memory, D)
  PROVE  Leads(Safe(r + 1), x, D, MadeWrites)
<1> DEFINE y == [x EXCEPT !.inode_bitmap = inode_bitmap']
           us == EntryAdded(inode'[id].parent)
<1>1. /\ y \in Image /\ y.inode = x.inode /\ y.dirent = dirent /\ y.inode_bitmap = inode_bitmap'
      /\ y.block_bitmap = block_bitmap
      /\ Like(y, Memory, 0) /\ y \in Safe(r + 1)
      /\ Trail(Safe(r + 1), {}, x, <<InodeBitmap(inode_bitmap')>>, y)
  BY InodeMarked
<1> HIDE DEF y
<1>2. DirsMarked(y)
  BY <1>1 DEF Like, SameTree
<1>3. inode_bitmap \cup {0} \subseteq Inodes
  BY FreshIsUnreached, MfsAssumption DEF Inodes, MfsAssumption
<1>4. \A j \in (inode_bitmap \cup {0}) \ {id} :
        SavedAs(y.inode[j], ino[j]) /\ (j \notin D => y.inode[j] = ino[j])
  BY <1>1, <1>3, MemoryFields DEF Agrees
<1>5. Leads(Safe(r + 1), y, D, <<InodeSector(id, inode'[id])>> \o us) /\ us \in Seq(Sectors(Inodes))
  <2>1. /\ y \in Safe(r + 1) /\ y.dirent = dirent /\ y.inode_bitmap = inode_bitmap'
        /\ y.block_bitmap = block_bitmap /\ DirsMarked(y)
        /\ \A j \in (inode_bitmap \cup {0}) \ {id} :
             SavedAs(y.inode[j], ino[j]) /\ (j \notin D => y.inode[j] = ino[j])
    BY <1>1, <1>2, <1>4
  <2> HIDE DEF us
  <2>2. /\ Leads(Safe(r + 1), y, D, <<InodeSector(id, inode'[id])>> \o EntryAdded(inode'[id].parent))
        /\ EntryAdded(inode'[id].parent) \in Seq(Sectors(Inodes))
    BY ZenonT(60), <2>1, NodeLeads
  <2> QED  BY <2>2 DEF us
<1>6. D \ {} = D /\ {} \in SUBSET Inodes
  OBVIOUS
<1>7. Leads(Safe(r + 1), x, D, <<InodeBitmap(inode_bitmap')>> \o (<<InodeSector(id, inode'[id])>> \o us))
  BY <1>1, <1>5, <1>6, LeadsAfter
<1>8. MadeWrites = <<InodeBitmap(inode_bitmap')>> \o (<<InodeSector(id, inode'[id])>> \o us)
  <2> DEFINE a == InodeBitmap(inode_bitmap')  b == InodeSector(id, inode'[id])
  <2>1. MadeWrites = <<a, b>> \o us
    BY DEF MadeWrites
  <2>2. a \in Sectors(Inodes) /\ b \in Sectors(Inodes)
    BY <1>1, <1>3, SectorTypes DEF TypeOK, FreeInodes
  <2> HIDE DEF a, b, us
  <2>3. <<a, b>> \o us = <<a>> \o (<<b>> \o us)
    BY SMTT(30), <1>5, <2>2, JoinTwo
  <2> QED  BY <2>1, <2>3 DEF a, b, us
<1> QED  BY <1>7, <1>8

(* Saving a node that is no directory, with the name it has. *)
LEMMA RecordKeepsTree ==
  ASSUME NEW m \in Image, Sound(m), NEW x \in Image, SameTree(x, m), OwnsLess(x, m),
         m.block_bitmap \subseteq x.block_bitmap,
         NEW i \in Inodes, Live(m, i), m.inode[i].type # "DIR",
         NEW q \in InodeRec,
         q.name = m.inode[i].name, q.type = m.inode[i].type, q.parent = m.inode[i].parent,
         q.target_inode = m.inode[i].target_inode, q.first_child_block = m.inode[i].first_child_block,
         q.blocks \subseteq m.inode[i].blocks, q.far \subseteq m.inode[i].far
  PROVE  LET y == [x EXCEPT !.inode[i] = q]
         IN  y \in Image /\ SameTree(y, m) /\ OwnsLess(y, m)
<1> DEFINE y == [x EXCEPT !.inode[i] = q]
<1>1. /\ y \in Image /\ y.inode = [x.inode EXCEPT ![i] = q] /\ y.dirent = x.dirent
      /\ y.inode_bitmap = x.inode_bitmap /\ y.block_bitmap = x.block_bitmap
  BY DEF Image
<1>2. y.inode[i] = q /\ \A j \in Inodes \ {i} : y.inode[j] = x.inode[j]
  BY <1>1, ImageFacts
<1> HIDE DEF y
<1>3. Reached(m, i)
  BY DEF Live
<1>4. x.inode[i].type # "DIR" /\ q.type # "DIR"
  BY <1>3 DEF SameTree
<1>5. ASSUME NEW d \in Inodes, NEW s \in Slots, NEW c \in Inodes
      PROVE  Holds(y.inode, y.dirent, d, s, c) <=> Holds(m.inode, m.dirent, d, s, c)
  <2>1. Holds(x.inode, x.dirent, d, s, c) <=> Holds(m.inode, m.dirent, d, s, c)
    BY DEF SameTree
  <2>2. CASE d = i
    BY <1>2, <1>4, <2>2 DEF Holds
  <2>3. CASE d # i
    BY <1>1, <1>2, <2>1, <2>3 DEF Holds
  <2> QED  BY <2>2, <2>3
<1>6. ASSUME NEW j \in Inodes, Reached(m, j)
      PROVE  /\ j \in y.inode_bitmap \cup {0}
             /\ y.inode[j].name = m.inode[j].name /\ y.inode[j].type = m.inode[j].type
             /\ y.inode[j].parent = m.inode[j].parent
             /\ y.inode[j].target_inode = m.inode[j].target_inode
  <2>1. j \in x.inode_bitmap \cup {0}
    BY <1>6 DEF SameTree
  <2>2. CASE j = i
    BY <1>1, <1>2, <2>1, <2>2
  <2>3. CASE j # i
    BY <1>1, <1>2, <1>6, <2>3 DEF SameTree
  <2> QED  BY <2>2, <2>3
<1>7. DirsMarked(y)
  BY <1>1, <1>2, <1>4 DEF SameTree, DirsMarked
<1>8. SameTree(y, m)
  BY <1>1, <1>5, <1>6, <1>7 DEF SameTree
<1>9. OwnedIn(y.inode, i) \subseteq OwnedIn(m.inode, i) \cap y.block_bitmap
  <2>1. OwnedIn(m.inode, i) \subseteq m.block_bitmap
    BY DEF Sound, BlocksApart
  <2>2. OwnedIn(y.inode, i) \subseteq OwnedIn(m.inode, i)
    BY <1>2 DEF OwnedIn
  <2> QED  BY <1>1, <2>1, <2>2
<1>10. \A j \in Inodes \ {i} : OwnedIn(y.inode, j) = OwnedIn(x.inode, j)
  BY <1>2 DEF OwnedIn
<1>11. OwnsLess(y, m)
  <2>1. ASSUME NEW j \in Inodes
        PROVE  /\ Reached(m, j) => OwnedIn(y.inode, j) \subseteq OwnedIn(m.inode, j) \cap y.block_bitmap
               /\ y.inode[j].type = "DIR" =>
                    \/ OwnedIn(y.inode, j) = {}
                    \/ m.inode[j].type = "DIR" /\ OwnedIn(y.inode, j) \subseteq OwnedIn(m.inode, j) \cap y.block_bitmap
    <3>1. CASE j = i
      BY <1>2, <1>4, <1>9, <3>1
    <3>2. CASE j # i
      <4>1. /\ Reached(m, j) => OwnedIn(x.inode, j) \subseteq OwnedIn(m.inode, j) \cap x.block_bitmap
            /\ x.inode[j].type = "DIR" =>
                    \/ OwnedIn(x.inode, j) = {}
                    \/ m.inode[j].type = "DIR" /\ OwnedIn(x.inode, j) \subseteq OwnedIn(m.inode, j) \cap x.block_bitmap
        BY DEF OwnsLess
      <4>2. OwnedIn(y.inode, j) = OwnedIn(x.inode, j) /\ y.inode[j] = x.inode[j] /\ y.block_bitmap = x.block_bitmap
        BY <1>1, <1>2, <1>10, <3>2
      <4> QED  BY <4>1, <4>2
    <3> QED  BY <3>1, <3>2
  <2> QED  BY <2>1 DEF OwnsLess
<1> QED  BY <1>1, <1>8, <1>11 DEF y

LEMMA JoinThree ==
  ASSUME NEW X, NEW u \in X, NEW v \in X, NEW w \in X, NEW us \in Seq(X)
  PROVE  <<u, v, w>> \o us = <<u>> \o (<<v>> \o (<<w>> \o us))
<1>1. <<u>> \in Seq(X) /\ <<v, w>> \in Seq(X) /\ Len(<<u>>) = 1 /\ Len(<<v, w>>) = 2
  OBVIOUS
<1>2. <<u, v, w>> = <<u>> \o <<v, w>>
  OBVIOUS
<1>3. (<<u>> \o <<v, w>>) \o us = <<u>> \o (<<v, w>> \o us)
  BY <1>1, ConcatAssociative
<1>4. <<v, w>> \o us = <<v>> \o (<<w>> \o us)
  BY JoinTwo
<1> DEFINE a == <<u>>  b == <<v, w>>  c == <<u, v, w>>  d == <<v>> \o (<<w>> \o us)
<1> HIDE DEF a, b, c, d
<1>5. c = a \o b /\ (a \o b) \o us = a \o (b \o us) /\ b \o us = d
  BY <1>2, <1>3, <1>4 DEF a, b, c, d
<1>6. c \o us = a \o d
  BY ONLY <1>5
<1> QED  BY <1>6 DEF a, c, d

(* The count of a new link's target is saved before the link is there. *)
LEMMA CountLike ==
  ASSUME NEW m \in Image, Sound(m), NEW x, Like(x, m, 0), m.block_bitmap \subseteq x.block_bitmap,
         NEW i \in Inodes, Live(m, i), m.inode[i].type # "DIR",
         NEW q \in InodeRec,
         q.name = m.inode[i].name, q.type = m.inode[i].type, q.parent = m.inode[i].parent,
         q.target_inode = m.inode[i].target_inode, q.first_child_block = m.inode[i].first_child_block,
         q.blocks \subseteq m.inode[i].blocks, q.far \subseteq m.inode[i].far,
         q.link_count = m.inode[i].link_count + 1
  PROVE  Like([x EXCEPT !.inode[i] = q], m, 1)
<1> DEFINE y == [x EXCEPT !.inode[i] = q]
<1>1. x \in Image /\ SameTree(x, m) /\ OwnsLess(x, m) /\ CountsNear(x, m, 0)
  BY DEF Like
<1>2. y \in Image /\ SameTree(y, m) /\ OwnsLess(y, m)
  BY <1>1, RecordKeepsTree
<1>3. /\ y.inode = [x.inode EXCEPT ![i] = q] /\ y.inode_bitmap = x.inode_bitmap
  BY <1>1 DEF Image
<1>4. y.inode[i] = q /\ \A j \in Inodes \ {i} : y.inode[j] = x.inode[j]
  BY <1>1, <1>3, ImageFacts
<1> HIDE DEF y
<1>5. ASSUME NEW j \in Inodes
      PROVE  LinkTo(y, j) = LinkTo(x, j)
  <2>1. i \in x.inode_bitmap \cup {0}
    BY <1>1 DEF Live, SameTree
  <2>2. x.inode[i].type = q.type /\ x.inode[i].target_inode = q.target_inode
    BY <1>1 DEF Live, SameTree
  <2>3. x.inode_bitmap \subseteq Inodes
    BY <1>1, ImageFacts
  <2>4. \A h \in x.inode_bitmap : y.inode[h].type = x.inode[h].type /\ y.inode[h].target_inode = x.inode[h].target_inode
    BY <1>4, <2>2, <2>3
  <2>5. Links(y.inode, y.inode_bitmap, j) = Links(x.inode, x.inode_bitmap, j)
    BY <1>3, <2>4 DEF Links
  <2> QED  BY <2>5 DEF LinkTo
<1>6. CountsNear(y, m, 1)
  <2>1. SUFFICES ASSUME NEW j \in Inodes, Reached(m, j), m.inode[j].type = "FILE"
                 PROVE  /\ y.inode[j].link_count >= m.inode[j].link_count
                        /\ y.inode[j].link_count + LinkTo(m, j) <= m.inode[j].link_count + LinkTo(y, j) + 1
    BY DEF CountsNear
  <2> DEFINE a == x.inode[j].link_count  b == y.inode[j].link_count  c == m.inode[j].link_count
             s == LinkTo(m, j)  t == LinkTo(x, j)
  <2>2. a >= c /\ a + s <= c + t + 0
    BY <1>1, <2>1 DEF CountsNear
  <2>3. a \in Nat /\ b \in Nat /\ c \in Nat /\ s \in Nat /\ t \in Nat
    BY <1>1, <1>2, NumbersType
  <2>4. b = a \/ b = c + 1
    BY <1>4
  <2>5. s <= t
    BY ONLY <2>2, <2>3
  <2> HIDE DEF a, b, c, s, t
  <2>6. b >= c /\ b + s <= c + t + 1
    BY <2>2, <2>3, <2>4, <2>5
  <2>7. LinkTo(y, j) = t
    BY <1>5 DEF t
  <2> QED  BY <2>6, <2>7 DEF b, c, s
<1>7. Like(y, m, 1)
  BY <1>2, <1>6 DEF Like
<1> QED  BY <1>7 DEF y

(* fs_create_hardlink *)
LEMMA LinkLeads ==
  ASSUME NEW r \in Nat, Kept(r), NEW id \in FreeInodes, id = Least(FreeInodes), NEW dir \in Named, NEW ino,
         NewNode(ino, id, dir), NEW target \in Inodes, ino[id].type = "HARDLINK", ino[id].target_inode = target,
         \A j \in Inodes \ {id, target} : ino[j] = inode[j],
         AddChild(ino, dir, id), inode_bitmap' = inode_bitmap \cup {id}, current_dir' = current_dir, TypeOK',
         NEW x \in Image, NEW D, Agrees(x, Memory, D)
  PROVE  Leads(Safe(r + 1), x, D, LinkWrites)
<1> DEFINE y == [x EXCEPT !.inode_bitmap = inode_bitmap']
           us == EntryAdded(inode'[id].parent)
           q == [inode'[target] EXCEPT !.first_child_block = inode[target].first_child_block]
           z == [y EXCEPT !.inode[target] = q]
<1>1. /\ y \in Image /\ y.inode = x.inode /\ y.dirent = dirent /\ y.inode_bitmap = inode_bitmap'
      /\ y.block_bitmap = block_bitmap
      /\ Like(y, Memory, 0) /\ y \in Safe(r + 1)
      /\ Trail(Safe(r + 1), {}, x, <<InodeBitmap(inode_bitmap')>>, y)
  BY InodeMarked
<1> HIDE DEF y
<1>2. DirsMarked(y)
  BY <1>1 DEF Like, SameTree
<1>3. inode_bitmap \cup {0} \subseteq Inodes /\ id \in Inodes /\ ~Live(Memory, id)
  BY FreshIsUnreached, MfsAssumption DEF Inodes, MfsAssumption
<1>4. TypeOK /\ Memory \in Image /\ Sound(Memory) /\ Counts(Memory, r)
  BY MemoryIsImage DEF Kept
<1>5. HasName(inode, dirent, target) /\ inode[target].type = "FILE" /\ Live(Memory, target) /\ target # id
  <2>1. HasName(inode, dirent, target) /\ inode[target].type = "FILE"
    BY DEF NewNode
  <2>2. Live(Memory, target)
    BY <2>1, MemoryFields DEF Live, Reached
  <2> QED  BY <1>3, <2>1, <2>2
<1>6. ino \in [Inodes -> InodeRec] /\ inode \in [Inodes -> InodeRec]
  BY <1>4 DEF NewNode, TypeOK
<1>7. q = ino[target]
  <2>1. ino[target] \in InodeRec /\ ino[target].first_child_block = inode[target].first_child_block
    BY <1>5, <1>6 DEF NewNode
  <2>2. inode'[target] = ino[target] \/ \E b : inode'[target] = [ino[target] EXCEPT !.first_child_block = b]
    <3>1. CASE inode' = ino
      BY <3>1
    <3>2. CASE \E b \in FreeBlocks : inode' = [ino EXCEPT ![dir].first_child_block = b]
      <4>1. PICK b \in FreeBlocks : inode' = [ino EXCEPT ![dir].first_child_block = b]
        BY <3>2
      <4>2. CASE dir = target
        <5>1. inode'[target] = [ino[target] EXCEPT !.first_child_block = b]
          BY <1>6, <4>1, <4>2
        <5> QED  BY <5>1
      <4>3. CASE dir # target
        BY <1>6, <4>1, <4>3
      <4> QED  BY <4>2, <4>3
    <3> QED  BY <3>1, <3>2 DEF AddChild
  <2>3. CASE inode'[target] = ino[target]
    BY <2>1, <2>3 DEF InodeRec
  <2>4. CASE \E b : inode'[target] = [ino[target] EXCEPT !.first_child_block = b]
    BY <2>1, <2>4 DEF InodeRec
  <2> QED  BY <2>2, <2>3, <2>4
<1> HIDE DEF q
<1>8. /\ q \in InodeRec /\ q.name = inode[target].name /\ q.type = inode[target].type
      /\ q.parent = inode[target].parent
      /\ q.target_inode = inode[target].target_inode /\ q.first_child_block = inode[target].first_child_block
      /\ q.blocks \subseteq inode[target].blocks /\ q.far \subseteq inode[target].far
      /\ q.link_count = inode[target].link_count + 1
  <2>1. ino[target] \in InodeRec /\ Linked(ino, id, target)
    BY <1>6 DEF Linked
  <2> QED  BY <1>5, <1>7, <2>1 DEF NewNode
<1>9. Like(z, Memory, 1)
  BY <1>1, <1>4, <1>5, <1>8, CountLike, MemoryFields
<1>10. z \in Safe(r + 1)
  BY <1>4, <1>9, LikeIsSafe
<1>11. /\ z \in Image /\ z.dirent = dirent /\ z.inode_bitmap = inode_bitmap'
       /\ z.block_bitmap = block_bitmap /\ DirsMarked(z)
       /\ z.inode[target] = q /\ \A j \in Inodes \ {target} : z.inode[j] = x.inode[j]
  <2>1. z \in Image /\ DirsMarked(z)
    BY <1>9 DEF Like, SameTree
  <2>2. z.dirent = dirent /\ z.inode_bitmap = inode_bitmap' /\ z.block_bitmap = block_bitmap
        /\ z.inode = [x.inode EXCEPT ![target] = q]
    BY <1>1 DEF Image
  <2> QED  BY <2>1, <2>2, ImageFacts
<1>12. Trail(Safe(r + 1), {target}, y, <<InodeSector(target, q)>>, z)
  <2>1. Applied(y, InodeSector(target, q)) = z
    BY AppliedSectors
  <2>2. InodeSector(target, q) \in Sectors({target})
    BY <1>8, SectorTypes
  <2> QED  BY <1>1, <1>10, <2>1, <2>2, TrailOne
<1> HIDE DEF z
<1>13. \A j \in (inode_bitmap \cup {0}) \ {id} :
         SavedAs(z.inode[j], ino[j]) /\ (j \notin D \ {target} => z.inode[j] = ino[j])
  <2>1. SUFFICES ASSUME NEW j \in (inode_bitmap \cup {0}) \ {id}
                 PROVE  SavedAs(z.inode[j], ino[j]) /\ (j \notin D \ {target} => z.inode[j] = ino[j])
    OBVIOUS
  <2>2. CASE j = target
    BY <1>7, <1>11, <2>2 DEF SavedAs
  <2>3. CASE j # target
    <3>1. j \in Inodes \ {id, target} /\ j \in Memory.inode_bitmap \cup {0}
      BY <1>3, <2>1, <2>3, MemoryFields
    <3>2. z.inode[j] = x.inode[j] /\ ino[j] = Memory.inode[j]
      BY <1>11, <3>1, MemoryFields
    <3>3. SavedAs(x.inode[j], Memory.inode[j]) /\ (j \notin D => x.inode[j] = Memory.inode[j])
      BY <3>1 DEF Agrees
    <3> QED  BY <2>3, <3>2, <3>3
  <2> QED  BY <2>2, <2>3
<1>14. Leads(Safe(r + 1), z, D \ {target}, <<InodeSector(id, inode'[id])>> \o us) /\ us \in Seq(Sectors(Inodes))
  <2>1. /\ z \in Safe(r + 1) /\ z.dirent = dirent /\ z.inode_bitmap = inode_bitmap'
        /\ z.block_bitmap = block_bitmap /\ DirsMarked(z)
    BY <1>10, <1>11
  <2> DEFINE E == D \ {target}
  <2>2. \A j \in (inode_bitmap \cup {0}) \ {id} :
          SavedAs(z.inode[j], ino[j]) /\ (j \notin E => z.inode[j] = ino[j])
    BY <1>13
  <2> HIDE DEF us, E
  <2>3. /\ Leads(Safe(r + 1), z, E, <<InodeSector(id, inode'[id])>> \o EntryAdded(inode'[id].parent))
        /\ EntryAdded(inode'[id].parent) \in Seq(Sectors(Inodes))
    BY <2>1, <2>2, NodeLeads, ZenonT(60)
  <2> QED  BY <2>3 DEF us, E
<1> DEFINE a == InodeBitmap(inode_bitmap')  b == InodeSector(target, q)  c == InodeSector(id, inode'[id])
<1>15. a \in Sectors(Inodes) /\ b \in Sectors(Inodes) /\ c \in Sectors(Inodes)
  BY <1>1, <1>3, <1>8, SectorTypes, ImageFacts DEF TypeOK
<1>16. Leads(Safe(r + 1), x, D, <<a>> \o (<<b>> \o (<<c>> \o us)))
  <2>1. Leads(Safe(r + 1), y, D, <<b>> \o (<<c>> \o us))
    BY <1>12, <1>14, LeadsAfter
  <2>2. D \ {} = D /\ {} \in SUBSET Inodes
    OBVIOUS
  <2> QED  BY <1>1, <2>1, <2>2, LeadsAfter
<1>17. LinkWrites = <<a, b, c>> \o us
  <2>1. inode'[id].target_inode = target
    <3>1. ino[id] \in InodeRec
      BY <1>3, <1>6
    <3> QED  BY <1>3, <1>6, <3>1 DEF AddChild, InodeRec
  <2> QED  BY <2>1 DEF LinkWrites, q
<1> HIDE DEF a, b, c, us
<1>18. <<a, b, c>> \o us = <<a>> \o (<<b>> \o (<<c>> \o us))
  BY SMTT(30), <1>14, <1>15, JoinThree
<1> QED  BY <1>16, <1>17, <1>18

LEMMA NewInodeIs ==
  ASSUME TypeOK, NEW id \in Inodes, NEW name \in Stored, NEW type \in NodeType,
         NEW dir \in Inodes, NEW count \in 0 .. LINK_MOD - 1, NEW link \in Path, NEW target \in Inodes
  PROVE  LET ino == NewInode(id, name, type, dir, count, link, target)
         IN  /\ ino \in [Inodes -> InodeRec]
             /\ \A i \in Inodes \ {id} : ino[i] = inode[i]
             /\ ino[id].name = name /\ ino[id].type = type /\ ino[id].parent = dir
             /\ ino[id].link_count = count /\ ino[id].target_inode = target
             /\ ino[id].blocks = {} /\ ino[id].far = {} /\ ino[id].first_child_block = NONE
<1> DEFINE ino == NewInode(id, name, type, dir, count, link, target)
<1>1. ino \in [Inodes -> InodeRec]
  BY NewInodeType
<1>2. /\ \A i \in Inodes \ {id} : ino[i] = inode[i]
      /\ ino[id].name = name /\ ino[id].type = type /\ ino[id].parent = dir
      /\ ino[id].link_count = count /\ ino[id].target_inode = target
      /\ ino[id].blocks = {} /\ ino[id].far = {} /\ ino[id].first_child_block = NONE
  BY DEF NewInode, TypeOK
<1> QED  BY <1>1, <1>2

(* A new node that is no hard link. *)
LEMMA PlainNode ==
  ASSUME TypeOK, NEW id \in Inodes, NEW dir, NEW ino \in [Inodes -> InodeRec],
         \A i \in Inodes \ {id} : ino[i] = inode[i],
         ino[id].parent = dir, ino[id].blocks = {}, ino[id].far = {}, ino[id].first_child_block = NONE,
         ino[id].type # "HARDLINK", ino[id].type = "FILE" => ino[id].link_count = 1,
         Lookup(dir, ino[id].name) = NONE
  PROVE  NewNode(ino, id, dir)
<1>1. \A i \in Inodes : ~Linked(ino, id, i)
  BY DEF Linked
<1>2. \A i \in Inodes : inode[i].link_count \in Nat
  <2>1. \A i \in Inodes : inode[i].link_count \in 0 .. LINK_MOD - 1
    BY DEF TypeOK, InodeRec
  <2> QED  BY <2>1, MfsAssumption DEF MfsAssumption
<1>3. \A i \in Inodes \ {id} :
        ino[i].link_count = inode[i].link_count + (IF Linked(ino, id, i) THEN 1 ELSE 0)
  BY <1>1, <1>2
<1> QED  BY <1>3 DEF NewNode

LEMMA CreateLeads ==
  ASSUME NEW r \in Nat, Kept(r), NEW name \in Stored, NEW type \in {"FILE", "DIR"}, NEW dir \in Named,
         Lookup(dir, name) = NONE, Create(name, type, dir), TypeOK',
         NEW x \in Image, NEW D, Agrees(x, Memory, D)
  PROVE  Kept(r)' /\ Leads(Safe(r + 1), x, D, MadeWrites)
<1>1. TypeOK
  BY DEF Kept
<1> DEFINE count == IF type = "FILE" THEN 1 ELSE 0
<1>2. PICK id \in FreeInodes :
        /\ id = Least(FreeInodes)
        /\ inode_bitmap' = inode_bitmap \cup {id}
        /\ AddChild(NewInode(id, name, type, dir, count, inode[id].symlink_target,
                             inode[id].target_inode), dir, id)
        /\ current_dir' = current_dir
  BY DEF Create
<1>3. id \in Inodes /\ inode[id] \in InodeRec /\ dir \in Inodes
  BY <1>1, NamedType DEF FreeInodes, TypeOK
<1>4. /\ count \in 0 .. LINK_MOD - 1 /\ type \in NodeType
      /\ inode[id].symlink_target \in Path /\ inode[id].target_inode \in Inodes
  BY <1>3, MfsAssumption DEF MfsAssumption, InodeRec, NodeType
<1> DEFINE ino == NewInode(id, name, type, dir, count, inode[id].symlink_target,
                           inode[id].target_inode)
<1>5. /\ ino \in [Inodes -> InodeRec]
      /\ \A i \in Inodes \ {id} : ino[i] = inode[i]
      /\ ino[id].name = name /\ ino[id].type = type /\ ino[id].parent = dir
      /\ ino[id].link_count = count
      /\ ino[id].blocks = {} /\ ino[id].far = {} /\ ino[id].first_child_block = NONE
  BY SMTT(30), <1>1, <1>3, <1>4, NewInodeIs
<1>6. AddChild(ino, dir, id)
  BY <1>2
<1> HIDE DEF ino
<1>7. NewNode(ino, id, dir)
  BY <1>1, <1>3, <1>5, PlainNode
<1> QED  BY <1>2, <1>5, <1>6, <1>7, EnterLast, MadeLeads

LEMMA SymlinkLeads ==
  ASSUME NEW r \in Nat, Kept(r), NEW t \in SymlinkTexts, NEW p \in Paths, CreateSymlink(t, p), TypeOK',
         NEW x \in Image, NEW D, Agrees(x, Memory, D)
  PROVE  Kept(r)' /\ Leads(Safe(r + 1), x, D, MadeWrites)
<1>1. TypeOK /\ TreeInv
  BY DEF Kept, TreeInv
<1>2. PICK dir \in At(DirPart(p)), id \in FreeInodes :
        /\ Lookup(dir, BasePart(p)) = NONE
        /\ id = Least(FreeInodes)
        /\ inode_bitmap' = inode_bitmap \cup {id}
        /\ AddChild(NewInode(id, BasePart(p), "SYMLINK", dir, inode[id].link_count,
                             t, inode[id].target_inode), dir, id)
        /\ current_dir' = current_dir
  BY DEF CreateSymlink
<1>3. /\ id \in Inodes /\ inode[id] \in InodeRec
      /\ dir \in Named /\ dir \in Inodes /\ t \in Path /\ BasePart(p) \in Stored
  BY <1>1, NamedType, PathsLeadToNames, StoredName, MfsAssumption DEF FreeInodes, TypeOK, MfsAssumption
<1>4. /\ inode[id].link_count \in 0 .. LINK_MOD - 1 /\ "SYMLINK" \in NodeType
      /\ inode[id].target_inode \in Inodes
  BY <1>3 DEF InodeRec, NodeType
<1> DEFINE ino == NewInode(id, BasePart(p), "SYMLINK", dir, inode[id].link_count,
                           t, inode[id].target_inode)
<1>5. /\ ino \in [Inodes -> InodeRec]
      /\ \A i \in Inodes \ {id} : ino[i] = inode[i]
      /\ ino[id].name = BasePart(p) /\ ino[id].type = "SYMLINK" /\ ino[id].parent = dir
      /\ ino[id].blocks = {} /\ ino[id].far = {} /\ ino[id].first_child_block = NONE
  BY <1>1, <1>3, <1>4, NewInodeIs
<1>6. AddChild(ino, dir, id)
  BY <1>2
<1> HIDE DEF ino
<1>7. NewNode(ino, id, dir)
  <2>1. Lookup(dir, ino[id].name) = NONE
    BY <1>2, <1>5
  <2> QED  BY <1>1, <1>3, <1>5, <2>1, PlainNode
<1> QED  BY <1>2, <1>3, <1>5, <1>6, <1>7, EnterLast, MadeLeads

(* A count is never more than the links there may be and the power cuts. *)
LEMMA KeptCountFits ==
  ASSUME NEW r \in Nat, Kept(r), MAX_INODES + r < LINK_MOD,
         NEW i \in Inodes, Reached(Memory, i), inode[i].type = "FILE"
  PROVE  /\ inode[i].link_count \in Nat
         /\ (inode[i].link_count + 1) % LINK_MOD = inode[i].link_count + 1
<1>1. /\ TypeOK /\ Memory \in Image /\ Sound(Memory) /\ Counts(Memory, r)
      /\ inode_bitmap \in SUBSET Inodes /\ 0 \notin inode_bitmap /\ inode[0].type = "DIR"
  BY MemoryIsImage DEF Kept, TypeOK, NamesAgree
<1>2. inode[i].link_count \in Nat /\ LinkTo(Memory, i) \in Nat
  BY <1>1, NumbersType, MemoryFields
<1> DEFINE others == (Inodes \ {0}) \ {i}  n == LinkTo(Memory, i)
<1>3. 0 \in Inodes /\ MAX_INODES \in Nat /\ LINK_MOD \in Nat
  BY MfsAssumption DEF Inodes, MfsAssumption
<1>4. IsFiniteSet(Inodes) /\ Cardinality(Inodes) = MAX_INODES
  BY <1>3, FS_Interval DEF Inodes
<1>5. IsFiniteSet(Inodes \ {0}) /\ Cardinality(Inodes \ {0}) = MAX_INODES - 1
  BY <1>3, <1>4, FS_RemoveElement
<1>6. IsFiniteSet(others) /\ Cardinality(others) = MAX_INODES - 2
  <2>1. i \in Inodes \ {0}
    BY <1>1
  <2>2. Cardinality(Inodes \ {0}) - 1 = MAX_INODES - 2
    BY <1>3, <1>5
  <2> QED  BY <1>5, <2>1, <2>2, FS_RemoveElement
<1>7. Links(inode, inode_bitmap, i) \in SUBSET others
  BY <1>1 DEF Links
<1>8. n <= MAX_INODES - 2
  BY <1>6, <1>7, FS_Subset, MemoryFields DEF LinkTo
<1>9. inode[i].link_count <= n + 1 + r
  BY <1>1, MemoryFields DEF Counts
<1> HIDE DEF n
<1>10. inode[i].link_count + 1 \in 0 .. LINK_MOD - 1
  BY <1>2, <1>3, <1>8, <1>9 DEF n
<1> QED  BY <1>2, <1>3, <1>10

LEMMA HardlinkLeads ==
  ASSUME NEW r \in Nat, Kept(r), MAX_INODES + r < LINK_MOD, LinkTargets \subseteq {"FILE"},
         NEW t \in Paths, NEW p \in Paths, CreateHardlink(t, p), TypeOK',
         NEW x \in Image, NEW D, Agrees(x, Memory, D)
  PROVE  Kept(r)' /\ Leads(Safe(r + 1), x, D, LinkWrites)
<1>1. TypeOK /\ TreeInv
  BY DEF Kept, TreeInv
<1>2. PICK target \in At(t), dir \in At(DirPart(p)), id \in FreeInodes :
        LET new == NewInode(id, BasePart(p), "HARDLINK", dir, inode[id].link_count,
                            inode[id].symlink_target, target)
            links == (new[target].link_count + 1) % LINK_MOD
        IN  /\ inode[target].type \in LinkTargets
            /\ id = Least(FreeInodes)
            /\ inode_bitmap' = inode_bitmap \cup {id}
            /\ AddChild([new EXCEPT ![target].link_count = links], dir, id)
            /\ current_dir' = current_dir
  BY DEF CreateHardlink
<1>3. /\ id \in Inodes /\ inode[id] \in InodeRec
      /\ dir \in Named /\ dir \in Inodes /\ BasePart(p) \in Stored
      /\ target \in Named /\ target \in Inodes
  BY <1>1, NamedType, PathsLeadToNames, StoredName DEF FreeInodes, TypeOK
<1>4. /\ inode[id].link_count \in 0 .. LINK_MOD - 1 /\ "HARDLINK" \in NodeType
      /\ inode[id].symlink_target \in Path
  BY <1>3 DEF InodeRec, NodeType
<1>5. /\ inode[target].type = "FILE" /\ target # id
      /\ HasName(inode, dirent, target) /\ Reached(Memory, target)
  <2>1. inode[target].type = "FILE"
    BY <1>2
  <2>2. HasName(inode, dirent, target) /\ Reached(Memory, target)
    BY <1>1, <1>3, NamedHasName, MemoryFields DEF Reached
  <2>3. target # id
    BY <2>2, FreshIsUnreached DEF Live
  <2> QED  BY <2>1, <2>2, <2>3
<1> DEFINE new == NewInode(id, BasePart(p), "HARDLINK", dir, inode[id].link_count,
                           inode[id].symlink_target, target)
           links == (new[target].link_count + 1) % LINK_MOD
           ino == [new EXCEPT ![target].link_count = links]
<1>6. /\ new \in [Inodes -> InodeRec]
      /\ \A i \in Inodes \ {id} : new[i] = inode[i]
      /\ new[id].type = "HARDLINK" /\ new[id].parent = dir /\ new[id].target_inode = target
      /\ new[id].blocks = {} /\ new[id].far = {} /\ new[id].first_child_block = NONE
  BY <1>1, <1>3, <1>4, NewInodeIs
<1>7. AddChild(ino, dir, id)
  BY <1>2
<1> HIDE DEF new
<1>8. links = inode[target].link_count + 1 /\ links \in 0 .. LINK_MOD - 1
  <2>1. new[target].link_count = inode[target].link_count
    BY <1>3, <1>5, <1>6
  <2>2. links = inode[target].link_count + 1
    BY <1>3, <2>1, <1>5, KeptCountFits
  <2>3. inode[target].link_count \in Nat
    BY <1>3, <1>5, KeptCountFits
  <2>4. links \in 0 .. LINK_MOD - 1
    BY <2>1, <2>3, MfsAssumption DEF MfsAssumption
  <2> QED  BY <2>2, <2>4
<1> HIDE DEF links
<1>9. new[target] \in InodeRec
  BY <1>3, <1>6
<1>10. ino \in [Inodes -> InodeRec]
  BY <1>3, <1>6, <1>8, <1>9, SetLinkCount
<1>11. ASSUME NEW i \in Inodes
       PROVE  /\ ino[i].blocks = new[i].blocks /\ ino[i].far = new[i].far
              /\ ino[i].first_child_block = new[i].first_child_block
              /\ ino[i].type = new[i].type /\ ino[i].name = new[i].name
              /\ ino[i].parent = new[i].parent /\ ino[i].target_inode = new[i].target_inode
              /\ ino[i].link_count = IF i = target THEN links ELSE new[i].link_count
  <2>1. new[i] \in InodeRec
    BY <1>6
  <2> QED  BY <1>3, <1>6, <2>1 DEF InodeRec
<1>12. \A j \in Inodes \ {id, target} : ino[j] = inode[j]
  BY <1>6
<1> HIDE DEF ino
<1>13. NewNode(ino, id, dir)
  <2>1. /\ ino[id].parent = dir /\ ino[id].blocks = {} /\ ino[id].far = {}
        /\ ino[id].first_child_block = NONE
        /\ ino[id].type = "HARDLINK" /\ ino[id].target_inode = target
    BY <1>3, <1>6, <1>11
  <2>2. \A i \in Inodes : Linked(ino, id, i) <=> i = target
    BY <2>1 DEF Linked
  <2>3. ASSUME NEW i \in Inodes \ {id}
        PROVE  ino[i].link_count = inode[i].link_count + (IF Linked(ino, id, i) THEN 1 ELSE 0)
    <3>1. inode[i].link_count \in Nat
      BY <1>1, MemoryIsImage, ImageFacts, MemoryFields
    <3>2. CASE i = target
      BY <1>8, <1>11, <2>2, <3>2
    <3>3. CASE i # target
      BY <1>6, <1>11, <2>2, <3>1, <3>3
    <3> QED  BY <3>2, <3>3
  <2>4. \A i \in Inodes \ {id} :
       /\ ino[i].type = inode[i].type /\ ino[i].name = inode[i].name
       /\ ino[i].parent = inode[i].parent /\ ino[i].target_inode = inode[i].target_inode
       /\ ino[i].first_child_block = inode[i].first_child_block
       /\ ino[i].blocks = inode[i].blocks /\ ino[i].far = inode[i].far
    BY <1>6, <1>11
  <2> QED  BY <1>5, <1>10, <2>1, <2>3, <2>4 DEF NewNode
<1>14. ino[id].type = "HARDLINK" /\ ino[id].target_inode = target
  BY <1>3, <1>6, <1>11
<1>15. id = Least(FreeInodes) /\ inode_bitmap' = inode_bitmap \cup {id} /\ current_dir' = current_dir
  BY <1>2
<1>16. Kept(r)'
  BY <1>3, <1>7, <1>13, <1>15, EnterLast
<1>17. Leads(Safe(r + 1), x, D, LinkWrites)
  BY <1>3, <1>7, <1>12, <1>13, <1>14, <1>15, LinkLeads
<1> QED  BY <1>16, <1>17

-----------------------------------------------------------------------------
(* Removing nodes                                                           *)

(* Memory with the entry of id cleared and nothing else done yet. *)
Cleared(id) ==
  [inode |-> inode, dirent |-> Without(inode[id].parent, id),
   inode_bitmap |-> inode_bitmap, block_bitmap |-> block_bitmap]

LEMMA ClearedFields ==
  ASSUME NEW id
  PROVE  /\ Cleared(id).inode = inode /\ Cleared(id).dirent = Without(inode[id].parent, id)
         /\ Cleared(id).inode_bitmap = inode_bitmap /\ Cleared(id).block_bitmap = block_bitmap
  BY DEF Cleared

LEMMA KeptGives ==
  ASSUME NEW r \in Nat, Kept(r)
  PROVE  /\ TypeOK /\ TreeInv /\ Memory \in Image /\ Sound(Memory) /\ Counts(Memory, r)
         /\ \A d \in Inodes : inode[d].type = "DIR" => EntryBlocksApart(inode, block_bitmap, d)
         /\ inode_bitmap \in SUBSET Inodes /\ 0 \notin inode_bitmap /\ inode[0].type = "DIR"
         /\ current_dir \in Inodes /\ inode[current_dir].type = "DIR"
         /\ \A i \in Inodes : Reached(Memory, i) => i \in inode_bitmap \cup {0}
<1>1. TypeOK /\ TreeInv /\ Memory \in Image /\ Sound(Memory) /\ Counts(Memory, r)
  BY MemoryIsImage DEF Kept, TreeInv
<1>2. \A d \in Inodes : inode[d].type = "DIR" => EntryBlocksApart(inode, block_bitmap, d)
  BY <1>1, SoundApart, MemoryFields DEF Live
<1>3. /\ inode_bitmap \in SUBSET Inodes /\ 0 \notin inode_bitmap /\ inode[0].type = "DIR"
      /\ current_dir \in Inodes /\ inode[current_dir].type = "DIR"
  BY DEF Kept, TypeOK, NamesAgree
<1>4. \A i \in Inodes : Reached(Memory, i) => i \in inode_bitmap \cup {0}
  BY <1>1, LiveIsUsed, MemoryFields DEF Live
<1> QED  BY <1>1, <1>2, <1>3, <1>4

LEMMA ClearedIs ==
  ASSUME NEW r \in Nat, Kept(r), NEW id \in Named \ {0}, id # current_dir, Children(id) = {}
  PROVE  LET v == Cleared(id)
         IN  /\ v \in Image /\ Sound(v) /\ Counts(v, r)
             /\ id \in Inodes /\ id \in inode_bitmap /\ HasName(inode, dirent, id)
             /\ \A i \in Inodes : HasName(inode, v.dirent, i) <=> HasName(inode, dirent, i) /\ i # id
             /\ \A i \in Inodes : NamedLinks(inode, v.dirent, i) = NamedLinks(inode, dirent, i) \ {id}
             /\ \A s \in Slots, c \in Inodes : ~Holds(inode, v.dirent, id, s, c)
<1> DEFINE v == Cleared(id)  ent == Without(inode[id].parent, id)
<1>1. /\ TypeOK /\ TreeInv /\ Memory \in Image /\ Sound(Memory) /\ Counts(Memory, r)
      /\ \A d \in Inodes : inode[d].type = "DIR" => EntryBlocksApart(inode, block_bitmap, d)
      /\ inode_bitmap \in SUBSET Inodes /\ 0 \notin inode_bitmap /\ inode[0].type = "DIR"
      /\ \A i \in Inodes : Reached(Memory, i) => i \in inode_bitmap \cup {0}
  BY KeptGives
<1>2. id \in Inodes /\ HasName(inode, dirent, id)
  BY <1>1, NamedType, NamedHasName
<1>3. id \in inode_bitmap
  BY <1>1, <1>2, MemoryFields DEF Reached
<1>4. Clears(inode, dirent, inode, ent, id)
  BY <1>1, WithoutClears, TreeInvGives
<1>5. v.inode = inode /\ v.dirent = ent /\ v.inode_bitmap = inode_bitmap /\ v.block_bitmap = block_bitmap
  BY ClearedFields
<1>6. v \in Image
  <2>1. ent \in [Blocks -> [Slots -> Inodes \cup {NONE}]]
    <3>1. inode[id].parent \in Inodes
      BY <1>1, <1>2 DEF TypeOK, InodeRec
    <3> QED  BY <1>1, <1>2, <3>1, WithoutType
  <2> QED  BY <1>1, <2>1 DEF Cleared, Image, TypeOK
<1> HIDE DEF v, ent
<1>7. \A i \in Inodes : HasName(inode, ent, i) <=> HasName(inode, dirent, i) /\ i # id
  BY <1>4 DEF Clears, HasName
<1>8. \A i \in Inodes : NamedLinks(inode, ent, i) = NamedLinks(inode, dirent, i) \ {id}
  BY <1>7 DEF NamedLinks
<1>9. \A i \in Inodes : Reached(v, i) => Reached(Memory, i)
  BY <1>5, <1>7, <1>8, MemoryFields DEF Reached
<1>10. NamesAgree(inode, ent, inode_bitmap, 0)
  <2>1. NamesAgree(inode, dirent, inode_bitmap, 0) /\ 0 \in Inodes
    BY <1>1, MemoryFields, MfsAssumption DEF Sound, Inodes, MfsAssumption
  <2>2. SameNodes(inode, inode, id)
    BY DEF SameNodes
  <2>3. \A s \in Slots, c \in Inodes : ~Holds(inode, dirent, id, s, c)
    BY <1>1, <1>2, HoldsIsEntry
  <2> QED  BY <1>2, <1>4, <2>1, <2>2, <2>3, ClearingKeepsNames
<1>11. LinksLead(v)
  BY <1>1, <1>5, <1>7, MemoryFields DEF Sound, LinksLead
<1>12. BlocksApart(v)
  <2>1. \A i \in Inodes : Live(v, i) => Live(Memory, i)
    BY <1>5, <1>9, MemoryFields DEF Live
  <2> QED  BY <1>1, <1>5, <2>1, MemoryFields DEF Sound, BlocksApart
<1>13. DirsMarked(v)
  BY <1>1, <1>5, MemoryFields DEF Sound, DirsMarked
<1>14. Sound(v)
  BY <1>5, <1>10, <1>11, <1>12, <1>13 DEF Sound
<1>15. Counts(v, r)
  <2>1. SUFFICES ASSUME NEW i \in Inodes, Reached(v, i), inode[i].type = "FILE"
                 PROVE  /\ inode[i].link_count >= Cardinality(NamedLinks(inode, ent, i)) + One(v, i)
                        /\ inode[i].link_count <= LinkTo(v, i) + 1 + r
    BY <1>5 DEF Counts
  <2> DEFINE a == Cardinality(NamedLinks(inode, ent, i))  b == Cardinality(NamedLinks(inode, dirent, i))
  <2>2. /\ inode[i].link_count >= b + One(Memory, i)
        /\ inode[i].link_count <= LinkTo(Memory, i) + 1 + r
    BY <1>1, <1>9, <2>1, MemoryFields DEF Counts
  <2>3. LinkTo(v, i) = LinkTo(Memory, i)
    BY <1>5, MemoryFields DEF LinkTo
  <2>4. One(v, i) <= One(Memory, i)
    BY <1>5, <1>7, MemoryFields DEF One
  <2>5. a <= b
    <3>1. IsFiniteSet(NamedLinks(inode, dirent, i))
      BY <1>1, NumbersType, MemoryFields
    <3>2. NamedLinks(inode, ent, i) \subseteq NamedLinks(inode, dirent, i)
      BY <1>8
    <3> QED  BY <3>1, <3>2, FS_Subset
  <2>6. a \in Nat /\ b \in Nat /\ One(v, i) \in Nat /\ One(Memory, i) \in Nat /\ inode[i].link_count \in Nat
    BY <1>1, <1>5, <1>6, NumbersType, MemoryFields
  <2> HIDE DEF a, b
  <2>7. inode[i].link_count >= a + One(v, i)
    BY <2>2, <2>4, <2>5, <2>6
  <2> QED  BY <2>2, <2>3, <2>7 DEF a
<1>16. \A s \in Slots, c \in Inodes : ~Holds(inode, ent, id, s, c)
  <2>1. \A s \in Slots, c \in Inodes : ~Holds(inode, dirent, id, s, c)
    BY <1>1, <1>2, HoldsIsEntry
  <2> QED  BY <1>2, <1>4, <2>1 DEF Clears
<1> QED  BY <1>2, <1>3, <1>5, <1>6, <1>7, <1>8, <1>14, <1>15, <1>16 DEF v

(* The image x has the entries of m, and nodes that differ in what no path    *)
(* leads to.                                                                 *)
Alters(x, m) ==
  /\ x.dirent = m.dirent /\ 0 \notin x.inode_bitmap
  /\ \A i \in Inodes :
       \/ /\ x.inode[i].name = m.inode[i].name /\ x.inode[i].type = m.inode[i].type
          /\ x.inode[i].parent = m.inode[i].parent
          /\ x.inode[i].target_inode = m.inode[i].target_inode
          /\ x.inode[i].first_child_block = m.inode[i].first_child_block
          /\ x.inode[i].blocks \subseteq m.inode[i].blocks /\ x.inode[i].far \subseteq m.inode[i].far
       \/ /\ ~Reached(m, i) /\ x.inode[i].type # "DIR"
          /\ \A s \in Slots, c \in Inodes : ~Holds(m.inode, m.dirent, i, s, c)
  /\ \A i \in Inodes : Reached(m, i) \/ (m.inode[i].type = "DIR" /\ x.inode[i].type = "DIR") =>
       i \in x.inode_bitmap \cup {0} /\ OwnedIn(m.inode, i) \subseteq x.block_bitmap

LEMMA AltersIsTree ==
  ASSUME NEW m \in Image, Sound(m), NEW x \in Image, Alters(x, m)
  PROVE  SameTree(x, m) /\ OwnsLess(x, m) /\ Sound(x)
<1>1. ASSUME NEW d \in Inodes, NEW s \in Slots, NEW c \in Inodes
      PROVE  Holds(x.inode, x.dirent, d, s, c) <=> Holds(m.inode, m.dirent, d, s, c)
  BY DEF Alters, Holds
<1>2. \A i \in Inodes : Reached(m, i) =>
        /\ i \in x.inode_bitmap \cup {0}
        /\ x.inode[i].name = m.inode[i].name /\ x.inode[i].type = m.inode[i].type
        /\ x.inode[i].parent = m.inode[i].parent
        /\ x.inode[i].target_inode = m.inode[i].target_inode
  BY DEF Alters
<1>3. DirsMarked(x)
  BY DEF Alters, DirsMarked
<1>4. SameTree(x, m)
  BY <1>1, <1>2, <1>3 DEF SameTree, Alters
<1>5. ASSUME NEW i \in Inodes, Reached(m, i) \/ x.inode[i].type = "DIR"
      PROVE  /\ OwnedIn(x.inode, i) \subseteq OwnedIn(m.inode, i) \cap x.block_bitmap
             /\ x.inode[i].type = m.inode[i].type
  <2>1. /\ x.inode[i].type = m.inode[i].type
        /\ x.inode[i].first_child_block = m.inode[i].first_child_block
        /\ x.inode[i].blocks \subseteq m.inode[i].blocks /\ x.inode[i].far \subseteq m.inode[i].far
    BY <1>5 DEF Alters
  <2>2. OwnedIn(m.inode, i) \subseteq x.block_bitmap
    BY <1>5, <2>1 DEF Alters
  <2>3. OwnedIn(x.inode, i) \subseteq OwnedIn(m.inode, i)
    BY <2>1 DEF OwnedIn
  <2> QED  BY <2>1, <2>2, <2>3
<1>6. OwnsLess(x, m)
  BY <1>5 DEF OwnsLess
<1> QED  BY <1>4, <1>6, SameTreeSound

(* dir_remove_child on the disk. *)
LEMMA EntryRemovedTrail ==
  ASSUME NEW S \in SUBSET Image, NEW x \in S, TypeOK, TypeOK', x.dirent = dirent,
         NEW d \in Inodes, NEW id, dirent' = Without(d, id),
         [x EXCEPT !.dirent = dirent'] \in S
  PROVE  Trail(S, {}, x, EntryRemoved(d), [x EXCEPT !.dirent = dirent'])
<1> DEFINE y == [x EXCEPT !.dirent = dirent']
<1>1. CASE inode[d].first_child_block = NONE
  <2>1. dirent' = dirent
    BY <1>1 DEF Without, Used
  <2>2. y = x
    BY <2>1 DEF Image
  <2>3. EntryRemoved(d) = <<>>
    BY <1>1 DEF EntryRemoved
  <2> QED  BY <2>2, <2>3, TrailNone
<1>2. CASE inode[d].first_child_block # NONE
  <2> DEFINE b == inode[d].first_child_block
  <2>1. b \in Blocks
    BY <1>2 DEF TypeOK, InodeRec
  <2>2. EntryRemoved(d) = <<DirSector(b)>>
    BY <1>2 DEF EntryRemoved
  <2>3. dirent' = [dirent EXCEPT ![b] = dirent'[b]]
    <3>1. dirent \in [Blocks -> [Slots -> Inodes \cup {NONE}]]
      BY DEF TypeOK
    <3>2. dirent' = dirent \/ \E s : dirent' = [dirent EXCEPT ![b][s] = NONE]
      BY DEF Without
    <3> QED  BY <2>1, <3>1, <3>2
  <2>4. Applied(x, DirSector(b)) = y
    <3>1. Applied(x, DirSector(b)) = [x EXCEPT !.dirent[b] = dirent'[b]]
      BY ZenonT(60), AppliedSectors
    <3>2. [x EXCEPT !.dirent[b] = dirent'[b]] = [x EXCEPT !.dirent = [x.dirent EXCEPT ![b] = dirent'[b]]]
      OBVIOUS
    <3> QED  BY <2>3, <3>1, <3>2
  <2>5. DirSector(b) \in Sectors({})
    BY <2>1, SectorTypes
  <2> QED  BY <2>2, <2>4, <2>5, TrailOne
<1> QED  BY <1>1, <1>2

LEMMA NothingReleased == Releases({}) = <<>>
<1>1. Cardinality({}) = 0
  BY FS_EmptySet
<1>2. 1 .. 0 = {}
  OBVIOUS
<1> QED  BY <1>1, <1>2 DEF Releases

(* The first write of rm and rmdir. *)
LEMMA EntryGone ==
  ASSUME NEW r \in Nat, Kept(r), TypeOK', NEW id \in Named \ {0}, id # current_dir, Children(id) = {},
         dirent' = Without(inode[id].parent, id),
         NEW x \in Image, NEW D, Agrees(x, Memory, D)
  PROVE  LET y == [x EXCEPT !.dirent = dirent']
         IN  /\ y \in Image /\ y.inode = x.inode /\ y.dirent = dirent' /\ y.inode_bitmap = inode_bitmap
             /\ y.block_bitmap = block_bitmap /\ DirsMarked(y)
             /\ \A i \in inode_bitmap \cup {0} :
                  SavedAs(y.inode[i], inode[i]) /\ (i \notin D => y.inode[i] = inode[i])
             /\ y \in Safe(r + 1)
             /\ Trail(Safe(r + 1), {}, x, EntryRemoved(inode[id].parent), y)
<1> DEFINE y == [x EXCEPT !.dirent = dirent']  v == Cleared(id)
<1>1. TypeOK /\ Memory \in Image /\ Sound(Memory) /\ Counts(Memory, r)
  BY KeptGives
<1>2. v \in Image /\ Sound(v) /\ Counts(v, r) /\ id \in Inodes
  BY ClearedIs
<1>3. v.inode = inode /\ v.dirent = dirent' /\ v.inode_bitmap = inode_bitmap /\ v.block_bitmap = block_bitmap
  BY ClearedFields
<1>4. /\ x.inode_bitmap = inode_bitmap /\ x.block_bitmap = block_bitmap /\ DirsMarked(x) /\ x.dirent = dirent
      /\ \A i \in inode_bitmap \cup {0} :
           SavedAs(x.inode[i], inode[i]) /\ (i \notin D => x.inode[i] = inode[i])
  BY MemoryFields DEF Agrees
<1>5. dirent' \in [Blocks -> [Slots -> Inodes \cup {NONE}]]
  BY DEF TypeOK
<1>6. /\ y \in Image /\ y.inode = x.inode /\ y.dirent = dirent' /\ y.inode_bitmap = inode_bitmap
      /\ y.block_bitmap = block_bitmap
  BY <1>4, <1>5 DEF Image
<1> HIDE DEF v
<1>7. DirsMarked(y)
  BY <1>4, <1>6 DEF DirsMarked
<1>8. Agrees(y, v, D)
  BY <1>3, <1>4, <1>6, <1>7 DEF Agrees
<1>9. x \in Safe(r + 1) /\ y \in Safe(r + 1)
  BY <1>1, <1>2, <1>6, <1>8, AgreesIsLike, LikeIsSafe
<1>10. Safe(r + 1) \in SUBSET Image /\ inode[id].parent \in Inodes
  BY <1>1, <1>2 DEF Safe, TypeOK, InodeRec
<1>11. Trail(Safe(r + 1), {}, x, EntryRemoved(inode[id].parent), y)
  BY <1>1, <1>4, <1>9, <1>10, EntryRemovedTrail
<1> QED  BY <1>4, <1>6, <1>7, <1>9, <1>11

(* What follows a cleared entry, one sector and no more. *)
LEMMA LeadsByOne ==
  ASSUME NEW S, NEW x, NEW y, NEW D, NEW ws, Trail(S, {}, x, ws, y),
         NEW J \in SUBSET Inodes, NEW w \in Sectors(J), Applied(y, w) \in S, Applied(y, w) \in Image,
         Agrees(Applied(y, w), Memory', D \ J)
  PROVE  Leads(S, x, D, ws \o <<w>>)
<1>1. y \in S
  BY TrailEnds
<1> DEFINE e == Applied(y, w)
<1>2. Trail(S, J, y, <<w>>, e)
  BY <1>1, TrailOne
<1> HIDE DEF e
<1>3. Trail(S, {} \cup J, x, ws \o <<w>>, e)
  BY <1>2, TrailJoin
<1>4. {} \cup J = J
  OBVIOUS
<1>5. Trail(S, J, x, ws \o <<w>>, e)
  BY <1>3, <1>4
<1> QED  BY <1>5 DEF Leads, e

LEMMA NamedInUse ==
  ASSUME NEW r \in Nat, Kept(r), NEW p \in Paths, NEW id \in At(p)
  PROVE  /\ id = Find(p) /\ id \in Inodes /\ id \in Named /\ HasName(inode, dirent, id)
         /\ Reached(Memory, id) /\ id \in inode_bitmap \cup {0}
         /\ inode[id].type # "DIR" => id # 0 /\ id # current_dir /\ Children(id) = {}
<1>1. /\ TypeOK /\ TreeInv /\ inode[0].type = "DIR" /\ inode[current_dir].type = "DIR"
      /\ \A i \in Inodes : Reached(Memory, i) => i \in inode_bitmap \cup {0}
  BY KeptGives
<1>2. id \in Named /\ id \in Inodes /\ id = Find(p)
  BY <1>1, PathsLeadToNames, NamedType DEF At
<1>3. HasName(inode, dirent, id) /\ Reached(Memory, id)
  BY <1>1, <1>2, NamedHasName, MemoryFields DEF Reached
<1> QED  BY <1>1, <1>2, <1>3 DEF Children

LEMMA DropSymlinkLeads ==
  ASSUME NEW r \in Nat, Kept(r), TypeOK', NEW p \in Paths, NEW id \in At(p), DropSymlink(id),
         current_dir' = current_dir,
         NEW x \in Image, NEW D, Agrees(x, Memory, D)
  PROVE  Kept(r)' /\ Leads(Safe(r + 1), x, D, RemoveWrites(id))
<1> DEFINE y == [x EXCEPT !.dirent = dirent']  v == Cleared(id)  new == Memory'
           z == [y EXCEPT !.inode_bitmap = inode_bitmap']
<1>1. /\ TypeOK /\ TreeInv /\ Memory \in Image /\ Sound(Memory) /\ Counts(Memory, r)
      /\ \A d \in Inodes : inode[d].type = "DIR" => EntryBlocksApart(inode, block_bitmap, d)
      /\ inode_bitmap \in SUBSET Inodes /\ 0 \notin inode_bitmap
  BY KeptGives
<1>2. /\ dirent' = Without(inode[id].parent, id) /\ inode_bitmap' = inode_bitmap \ {id}
      /\ inode' = inode /\ block_bitmap' = block_bitmap /\ inode[id].type = "SYMLINK"
  BY DEF DropSymlink
<1>3. id \in Inodes /\ id \in Named \ {0} /\ id # current_dir /\ Children(id) = {}
  BY <1>2, NamedInUse
<1>4. /\ v \in Image /\ Sound(v) /\ Counts(v, r)
      /\ \A i \in Inodes : HasName(inode, dirent', i) <=> HasName(inode, dirent, i) /\ i # id
  BY <1>2, <1>3, ClearedIs, ClearedFields
<1>5. v.inode = inode /\ v.dirent = dirent' /\ v.inode_bitmap = inode_bitmap /\ v.block_bitmap = block_bitmap
  BY <1>2, ClearedFields
<1>6. /\ new.inode = inode /\ new.dirent = dirent' /\ new.inode_bitmap = inode_bitmap'
      /\ new.block_bitmap = block_bitmap
  BY <1>2, MemoryFieldsNext
<1>7. new \in Image
  BY MemoryIsImage
<1> HIDE DEF v, new
<1>8. ~Reached(v, id)
  <2>1. NamedLinks(v.inode, v.dirent, id) = {}
    BY <1>2, <1>3, <1>4, <1>5, LinkedIsFile DEF Sound
  <2> QED  BY <1>3, <1>4, <1>5, <2>1 DEF Reached
<1>9. Alters(new, v)
  <2>1. \A i \in Inodes : Reached(v, i) \/ (v.inode[i].type = "DIR" /\ new.inode[i].type = "DIR") =>
          i \in new.inode_bitmap \cup {0} /\ OwnedIn(v.inode, i) \subseteq new.block_bitmap
    <3>1. SUFFICES ASSUME NEW i \in Inodes, Live(v, i), Reached(v, i) \/ inode[i].type = "DIR"
                   PROVE  i \in inode_bitmap' \cup {0} /\ OwnedIn(v.inode, i) \subseteq block_bitmap
      BY <1>5, <1>6 DEF Live
    <3>2. i # id
      BY <1>2, <1>8, <3>1
    <3>3. i \in inode_bitmap \cup {0}
      BY <1>4, <1>5, <3>1, LiveIsUsed
    <3>4. OwnedIn(v.inode, i) \subseteq block_bitmap
      BY <1>4, <1>5, <3>1 DEF Sound, BlocksApart
    <3> QED  BY <1>2, <3>2, <3>3, <3>4
  <2> QED  BY <1>1, <1>2, <1>5, <1>6, <2>1 DEF Alters
<1>10. SameTree(new, v) /\ Sound(new)
  BY <1>4, <1>7, <1>9, AltersIsTree
<1>11. Counts(new, r)
  <2>1. CountsNear(new, v, 0)
    <3>1. SUFFICES ASSUME NEW i \in Inodes
                   PROVE  /\ new.inode[i].link_count >= v.inode[i].link_count
                          /\ new.inode[i].link_count + LinkTo(v, i) <= v.inode[i].link_count + LinkTo(new, i) + 0
      BY DEF CountsNear
    <3>2. Links(new.inode, new.inode_bitmap, i) = Links(v.inode, v.inode_bitmap, i)
      BY <1>2, <1>5, <1>6 DEF Links
    <3>3. v.inode[i].link_count \in Nat /\ LinkTo(v, i) \in Nat
      BY <1>4, NumbersType
    <3> QED  BY <1>5, <1>6, <3>2, <3>3 DEF LinkTo
  <2>2. Counts(new, r + 0)
    BY <1>4, <1>7, <1>10, <2>1, SameTreeCounts
  <2> QED  BY <2>2
<1>12. NamesAgree(inode', dirent', inode_bitmap', current_dir')
  BY <1>1, <1>2, <1>3, ClearNames
<1>13. Kept(r)'
  BY <1>10, <1>11, <1>12 DEF Kept, new
<1>14. /\ y \in Image /\ y.inode = x.inode /\ y.dirent = dirent' /\ y.inode_bitmap = inode_bitmap
       /\ y.block_bitmap = block_bitmap /\ DirsMarked(y)
       /\ \A i \in inode_bitmap \cup {0} :
            SavedAs(y.inode[i], inode[i]) /\ (i \notin D => y.inode[i] = inode[i])
       /\ y \in Safe(r + 1)
       /\ Trail(Safe(r + 1), {}, x, EntryRemoved(inode[id].parent), y)
  BY <1>2, <1>3, EntryGone
<1> HIDE DEF y
<1>15. /\ z \in Image /\ z.inode = y.inode /\ z.dirent = dirent' /\ z.inode_bitmap = inode_bitmap'
       /\ z.block_bitmap = block_bitmap
  BY <1>14 DEF Image, TypeOK
<1>16. Agrees(z, new, D)
  <2>1. y.inode[id].type # "DIR"
    <3>1. id \in inode_bitmap
      BY <1>3, ClearedIs
    <3> QED  BY <1>2, <1>14, <3>1 DEF SavedAs
  <2>2. DirsMarked(z)
    BY <1>2, <1>14, <1>15, <2>1 DEF DirsMarked
  <2> QED  BY <1>2, <1>6, <1>14, <1>15, <2>2 DEF Agrees
<1>17. z \in Safe(r + 1)
  BY <1>7, <1>10, <1>11, <1>15, <1>16, AgreesIsLike, LikeIsSafe
<1>18. RemoveWrites(id) = EntryRemoved(inode[id].parent) \o <<InodeBitmap(inode_bitmap')>>
  <2>1. block_bitmap \ block_bitmap' = {}
    BY <1>2
  <2>2. RemoveWrites(id) = (EntryRemoved(inode[id].parent) \o <<>>) \o <<InodeBitmap(inode_bitmap')>>
    BY <1>2, <2>1, NothingReleased DEF RemoveWrites
  <2>3. EntryRemoved(inode[id].parent) \o <<>> = EntryRemoved(inode[id].parent)
    BY <1>14, TrailEnds, ConcatSimplifications
  <2> QED  BY <2>2, <2>3
<1>19. /\ InodeBitmap(inode_bitmap') \in Sectors({}) /\ {} \in SUBSET Inodes /\ D \ {} = D
       /\ Applied(y, InodeBitmap(inode_bitmap')) = z
  BY SectorTypes, AppliedSectors DEF TypeOK
<1> HIDE DEF z
<1>20. Leads(Safe(r + 1), x, D, EntryRemoved(inode[id].parent) \o <<InodeBitmap(inode_bitmap')>>)
  <2>1. Agrees(z, Memory', D \ {})
    BY <1>16, <1>19 DEF new
  <2> QED  BY <1>14, <1>15, <1>17, <1>19, <2>1, LeadsByOne
<1> QED  BY <1>13, <1>18, <1>20

(* The entry cleared, node id saved as the call left it. *)
LEMMA ChangedLeads ==
  ASSUME NEW r \in Nat, Kept(r), Kept(r)', NEW id \in Named \ {0}, id # current_dir, Children(id) = {},
         dirent' = Without(inode[id].parent, id), inode_bitmap' = inode_bitmap, block_bitmap' = block_bitmap,
         \A i \in Inodes \ {id} : inode'[i] = inode[i],
         NEW x \in Image, NEW D, Agrees(x, Memory, D)
  PROVE  Leads(Safe(r + 1), x, D, EntryRemoved(inode[id].parent) \o <<InodeSector(id, inode'[id])>>)
<1> DEFINE y == [x EXCEPT !.dirent = dirent']  new == Memory'
           z == [y EXCEPT !.inode[id] = new.inode[id]]
<1>1. TypeOK' /\ new \in Image /\ Sound(new) /\ Counts(new, r)
  BY MemoryIsImage DEF Kept
<1>2. id \in Inodes /\ inode_bitmap \in SUBSET Inodes /\ 0 \in Inodes
  BY ClearedIs, KeptGives, ImageFacts
<1>3. /\ new.inode = inode' /\ new.dirent = dirent' /\ new.inode_bitmap = inode_bitmap
      /\ new.block_bitmap = block_bitmap
  BY MemoryFieldsNext
<1>4. /\ y \in Image /\ y.inode = x.inode /\ y.dirent = dirent' /\ y.inode_bitmap = inode_bitmap
      /\ y.block_bitmap = block_bitmap /\ DirsMarked(y)
      /\ \A i \in inode_bitmap \cup {0} :
           SavedAs(y.inode[i], inode[i]) /\ (i \notin D => y.inode[i] = inode[i])
      /\ y \in Safe(r + 1)
      /\ Trail(Safe(r + 1), {}, x, EntryRemoved(inode[id].parent), y)
  BY <1>1, EntryGone
<1> HIDE DEF y, new
<1>5. z \in Image /\ Agrees(z, new, D \ {id})
  <2>1. \A j \in Inodes \ {id} : y.inode[j].type = "DIR" => j \in new.inode_bitmap \cup {0}
    BY <1>3, <1>4 DEF DirsMarked
  <2>2. \A j \in (new.inode_bitmap \cup {0}) \ {id} :
          SavedAs(y.inode[j], new.inode[j]) /\ (j \notin D => y.inode[j] = new.inode[j])
    BY <1>2, <1>3, <1>4
  <2>3. DirsMarked(new)
    BY <1>1 DEF Sound
  <2> QED  BY <1>1, <1>2, <1>3, <1>4, <2>1, <2>2, <2>3, AgreesSaved
<1>6. z \in Safe(r + 1)
  BY <1>1, <1>5, AgreesIsLike, LikeIsSafe
<1>7. /\ InodeSector(id, inode'[id]) \in Sectors({id}) /\ {id} \in SUBSET Inodes
      /\ Applied(y, InodeSector(id, inode'[id])) = z
  <2> DEFINE q == inode'[id]
  <2> HIDE DEF q, z
  <2>1. Applied(y, InodeSector(id, q)) = [y EXCEPT !.inode[id] = q]
    BY AppliedSectors
  <2> USE DEF q, z
  <2>2. InodeSector(id, inode'[id]) \in Sectors({id})
    BY <1>1, <1>2, SectorTypes DEF TypeOK
  <2> QED  BY <1>2, <1>3, <2>1, <2>2
<1> HIDE DEF z
<1>8. Agrees(z, Memory', D \ {id})
  BY <1>5 DEF new
<1> QED  BY <1>4, <1>5, <1>6, <1>7, <1>8, LeadsByOne

LEMMA DropNameLeads ==
  ASSUME NEW r \in Nat, Kept(r), TypeOK', NEW p \in Paths, NEW id \in At(p), DropName(id),
         current_dir' = current_dir,
         NEW x \in Image, NEW D, Agrees(x, Memory, D)
  PROVE  Kept(r)' /\ Leads(Safe(r + 1), x, D, RemoveWrites(id))
<1> DEFINE v == Cleared(id)  new == Memory'
<1>1. /\ TypeOK /\ TreeInv /\ Memory \in Image /\ Sound(Memory) /\ Counts(Memory, r)
      /\ \A d \in Inodes : inode[d].type = "DIR" => EntryBlocksApart(inode, block_bitmap, d)
      /\ inode_bitmap \in SUBSET Inodes /\ 0 \notin inode_bitmap
  BY KeptGives
<1>2. /\ dirent' = Without(inode[id].parent, id) /\ inode_bitmap' = inode_bitmap
      /\ inode' = [inode EXCEPT ![id].link_count = inode[id].link_count - 1]
      /\ block_bitmap' = block_bitmap /\ inode[id].type = "FILE" /\ inode[id].link_count > 0
  BY DEF DropName
<1>3. /\ id \in Inodes /\ id \in Named \ {0} /\ id # current_dir /\ Children(id) = {}
      /\ HasName(inode, dirent, id) /\ Reached(Memory, id)
  BY <1>2, NamedInUse
<1>4. /\ v \in Image /\ Sound(v) /\ Counts(v, r)
      /\ \A i \in Inodes : HasName(inode, dirent', i) <=> HasName(inode, dirent, i) /\ i # id
      /\ \A i \in Inodes : NamedLinks(inode, dirent', i) = NamedLinks(inode, dirent, i) \ {id}
  BY <1>2, <1>3, ClearedIs, ClearedFields
<1>5. v.inode = inode /\ v.dirent = dirent' /\ v.inode_bitmap = inode_bitmap /\ v.block_bitmap = block_bitmap
  BY <1>2, ClearedFields
<1>6. /\ new.inode = inode' /\ new.dirent = dirent' /\ new.inode_bitmap = inode_bitmap
      /\ new.block_bitmap = block_bitmap
  BY <1>2, MemoryFieldsNext
<1>7. new \in Image
  BY MemoryIsImage
<1> HIDE DEF v, new
<1>8. ASSUME NEW i \in Inodes
      PROVE  /\ inode'[i].name = inode[i].name /\ inode'[i].type = inode[i].type
             /\ inode'[i].parent = inode[i].parent
             /\ inode'[i].target_inode = inode[i].target_inode
             /\ inode'[i].first_child_block = inode[i].first_child_block
             /\ inode'[i].blocks = inode[i].blocks /\ inode'[i].far = inode[i].far
             /\ inode'[i].link_count = IF i = id THEN inode[i].link_count - 1 ELSE inode[i].link_count
  <2>1. inode \in [Inodes -> InodeRec] /\ inode[i] \in InodeRec
    BY <1>1 DEF TypeOK
  <2> QED  BY <1>2, <1>3, <2>1 DEF InodeRec
<1>9. Alters(new, v)
  <2>1. \A i \in Inodes : Reached(v, i) \/ (v.inode[i].type = "DIR" /\ new.inode[i].type = "DIR") =>
          i \in new.inode_bitmap \cup {0} /\ OwnedIn(v.inode, i) \subseteq new.block_bitmap
    <3>1. SUFFICES ASSUME NEW i \in Inodes, Live(v, i)
                   PROVE  i \in inode_bitmap \cup {0} /\ OwnedIn(v.inode, i) \subseteq block_bitmap
      BY <1>5, <1>6 DEF Live
    <3>2. i \in inode_bitmap \cup {0}
      BY <1>4, <1>5, <3>1, LiveIsUsed
    <3>3. OwnedIn(v.inode, i) \subseteq block_bitmap
      BY <1>4, <1>5, <3>1 DEF Sound, BlocksApart
    <3> QED  BY <3>2, <3>3
  <2>2. \A i \in Inodes :
          /\ new.inode[i].name = v.inode[i].name /\ new.inode[i].type = v.inode[i].type
          /\ new.inode[i].parent = v.inode[i].parent
          /\ new.inode[i].target_inode = v.inode[i].target_inode
          /\ new.inode[i].first_child_block = v.inode[i].first_child_block
          /\ new.inode[i].blocks \subseteq v.inode[i].blocks /\ new.inode[i].far \subseteq v.inode[i].far
    BY <1>5, <1>6, <1>8
  <2> QED  BY <1>1, <1>5, <1>6, <2>1, <2>2 DEF Alters
<1>10. SameTree(new, v) /\ Sound(new)
  BY <1>4, <1>7, <1>9, AltersIsTree
<1>11. Counts(new, r)
  <2>1. SUFFICES ASSUME NEW i \in Inodes, Reached(new, i), inode'[i].type = "FILE"
                 PROVE  /\ inode'[i].link_count >= Cardinality(NamedLinks(new.inode, new.dirent, i)) + One(new, i)
                        /\ inode'[i].link_count <= LinkTo(new, i) + 1 + r
    BY <1>6 DEF Counts
  <2>2. /\ NamedLinks(new.inode, new.dirent, i) = NamedLinks(inode, dirent', i)
        /\ One(new, i) = One(v, i) /\ Reached(v, i)
    BY <1>5, <1>7, <1>10, <1>4, <2>1, SameTreeReached
  <2>3. LinkTo(new, i) = LinkTo(v, i) /\ LinkTo(v, i) = LinkTo(Memory, i)
    <3>1. Links(new.inode, new.inode_bitmap, i) = Links(inode, inode_bitmap, i)
      BY <1>1, <1>6, <1>8 DEF Links
    <3> QED  BY <1>5, <3>1, MemoryFields DEF LinkTo
  <2>4. inode[i].type = "FILE"
    BY <1>8, <2>1
  <2>5. CASE i # id
    <3>1. /\ inode[i].link_count >= Cardinality(NamedLinks(inode, dirent', i)) + One(v, i)
          /\ inode[i].link_count <= LinkTo(v, i) + 1 + r
      BY <1>4, <1>5, <2>2, <2>4 DEF Counts
    <3> QED  BY <1>8, <2>2, <2>3, <2>5, <3>1
  <2>6. CASE i = id
    <3> DEFINE a == Cardinality(NamedLinks(inode, dirent, i))  k == inode[i].link_count
    <3>1. k >= a + One(Memory, i) /\ k <= LinkTo(Memory, i) + 1 + r
      BY <1>1, <1>3, <2>4, <2>6, MemoryFields DEF Counts
    <3>2. One(Memory, i) = 1
      BY <1>3, <2>6, MemoryFields DEF One
    <3>3. One(v, i) = 0
      BY <1>3, <1>4, <1>5, <2>6 DEF One
    <3>4. NamedLinks(inode, dirent', i) = NamedLinks(inode, dirent, i)
      BY <1>2, <1>4, <2>6 DEF NamedLinks
    <3>5. a \in Nat /\ k \in Nat /\ LinkTo(Memory, i) \in Nat
      BY <1>1, NumbersType, MemoryFields
    <3>6. inode'[i].link_count = k - 1
      BY <1>8, <2>6
    <3>7. Cardinality(NamedLinks(new.inode, new.dirent, i)) = a
      BY <2>2, <3>4
    <3> HIDE DEF a, k
    <3>8. k - 1 >= a + 0 /\ k - 1 <= LinkTo(Memory, i) + 1 + r
      BY <3>1, <3>2, <3>5
    <3> QED  BY <2>2, <2>3, <3>3, <3>6, <3>7, <3>8
  <2> QED  BY <2>5, <2>6
<1>12. NamesAgree(inode', dirent', inode_bitmap', current_dir')
  <2>1. inode_bitmap' \subseteq inode_bitmap /\ inode_bitmap \ inode_bitmap' = {}
    BY <1>2
  <2> QED  BY <1>1, <1>2, <1>3, <1>8, <2>1, ClearNames
<1>13. Kept(r)'
  BY <1>10, <1>11, <1>12 DEF Kept, new
<1>14. \A i \in Inodes \ {id} : inode'[i] = inode[i]
  BY <1>2
<1>15. Leads(Safe(r + 1), x, D, EntryRemoved(inode[id].parent) \o <<InodeSector(id, inode'[id])>>)
  BY <1>2, <1>3, <1>13, <1>14, ChangedLeads
<1>16. RemoveWrites(id) = EntryRemoved(inode[id].parent) \o <<InodeSector(id, inode'[id])>>
  <2>1. block_bitmap \ block_bitmap' = {}
    BY <1>2
  <2>2. RemoveWrites(id) = (EntryRemoved(inode[id].parent) \o <<>>) \o <<InodeSector(id, inode'[id])>>
    BY <1>2, <2>1, NothingReleased DEF RemoveWrites
  <2>3. EntryRemoved(inode[id].parent) \o <<>> = EntryRemoved(inode[id].parent)
    BY <1>2, <1>3, EntryGone, TrailEnds
  <2> QED  BY <2>2, <2>3
<1> QED  BY <1>13, <1>15, <1>16

LEMMA RemoveFileLeads ==
  ASSUME NEW r \in Nat, Kept(r), TypeOK', NEW p \in Paths, RemoveFile(p),
         NEW x \in Image, NEW D, Agrees(x, Memory, D)
  PROVE  Kept(r)' /\ Leads(Safe(r + 1), x, D, RemoveWrites(Find(p)))
<1>1. PICK id \in At(p) : (DropName(id) \/ DropFile(id) \/ DropSymlink(id)) /\ current_dir' = current_dir
  BY DEF RemoveFile
<1>2. id = Find(p) /\ id \in Inodes /\ Reached(Memory, id) /\ HasName(inode, dirent, id)
  BY NamedInUse
<1>3. ~DropFile(id)
  <2>1. SUFFICES ASSUME inode[id].type = "FILE"  PROVE inode[id].link_count # 0
    BY DEF DropFile
  <2>2. Memory \in Image /\ Counts(Memory, r)
    BY KeptGives
  <2>3. inode[id].link_count >= Cardinality(NamedLinks(inode, dirent, id)) + One(Memory, id)
    BY <1>2, <2>1, <2>2, MemoryFields DEF Counts
  <2>4. Cardinality(NamedLinks(inode, dirent, id)) \in Nat
    BY <1>2, <2>2, NumbersType, MemoryFields
  <2>5. One(Memory, id) = 1
    BY <1>2, MemoryFields DEF One
  <2> QED  BY <2>3, <2>4, <2>5
<1> QED  BY <1>1, <1>2, <1>3, DropNameLeads, DropSymlinkLeads

LEMMA RemoveDirLeads ==
  ASSUME NEW r \in Nat, Kept(r), TypeOK', BusyRmdir = FALSE, NEW p \in Paths, RemoveDir(p),
         NEW x \in Image, NEW D, Agrees(x, Memory, D)
  PROVE  Kept(r)' /\ Leads(Safe(r + 1), x, D, RmdirWrites(Find(p)))
<1>1. PICK id \in At(p) :
        /\ inode[id].type = "DIR" /\ Children(id) = {} /\ id \notin {0, current_dir}
        /\ dirent' = Without(inode[id].parent, id)
        /\ inode' = [inode EXCEPT ![id] =
                       [@ EXCEPT !.type = "FILE", !.size = 0, !.blocks = {},
                                 !.first_child_block = NONE]]
        /\ inode_bitmap' = inode_bitmap /\ block_bitmap' = block_bitmap /\ current_dir' = current_dir
  BY DEF RemoveDir
<1> DEFINE v == Cleared(id)  new == Memory'
<1>2. /\ TypeOK /\ TreeInv /\ Memory \in Image /\ Sound(Memory) /\ Counts(Memory, r)
      /\ \A d \in Inodes : inode[d].type = "DIR" => EntryBlocksApart(inode, block_bitmap, d)
      /\ inode_bitmap \in SUBSET Inodes /\ 0 \notin inode_bitmap
  BY KeptGives
<1>3. /\ id \in Inodes /\ id \in Named \ {0} /\ id # current_dir /\ Children(id) = {} /\ id = Find(p)
  BY <1>1, NamedInUse
<1>4. /\ v \in Image /\ Sound(v) /\ Counts(v, r)
      /\ \A i \in Inodes : HasName(inode, dirent', i) <=> HasName(inode, dirent, i) /\ i # id
      /\ \A s \in Slots, c \in Inodes : ~Holds(inode, dirent', id, s, c)
  BY <1>1, <1>3, ClearedIs, ClearedFields
<1>5. v.inode = inode /\ v.dirent = dirent' /\ v.inode_bitmap = inode_bitmap /\ v.block_bitmap = block_bitmap
  BY <1>1, ClearedFields
<1>6. /\ new.inode = inode' /\ new.dirent = dirent' /\ new.inode_bitmap = inode_bitmap
      /\ new.block_bitmap = block_bitmap
  BY <1>1, MemoryFieldsNext
<1>7. new \in Image
  BY MemoryIsImage
<1> HIDE DEF v, new
<1>8. \A i \in Inodes \ {id} : inode'[i] = inode[i]
  BY <1>1
<1>9. /\ inode'[id].name = inode[id].name /\ inode'[id].parent = inode[id].parent
      /\ inode'[id].type = "FILE"
  <2>1. inode \in [Inodes -> InodeRec] /\ inode[id] \in InodeRec
    BY <1>2, <1>3 DEF TypeOK
  <2> QED  BY <1>1, <1>3, <2>1 DEF InodeRec
<1>10. ~Reached(v, id)
  <2>1. NamedLinks(v.inode, v.dirent, id) = {}
    BY <1>1, <1>3, <1>4, <1>5, LinkedIsFile DEF Sound
  <2> QED  BY <1>3, <1>4, <1>5, <2>1 DEF Reached
<1>11. Alters(new, v)
  <2>1. \A i \in Inodes : Reached(v, i) \/ (v.inode[i].type = "DIR" /\ new.inode[i].type = "DIR") =>
          i \in new.inode_bitmap \cup {0} /\ OwnedIn(v.inode, i) \subseteq new.block_bitmap
    <3>1. SUFFICES ASSUME NEW i \in Inodes, Live(v, i)
                   PROVE  i \in inode_bitmap \cup {0} /\ OwnedIn(v.inode, i) \subseteq block_bitmap
      BY <1>5, <1>6 DEF Live
    <3>2. i \in inode_bitmap \cup {0}
      BY <1>4, <1>5, <3>1, LiveIsUsed
    <3>3. OwnedIn(v.inode, i) \subseteq block_bitmap
      BY <1>4, <1>5, <3>1 DEF Sound, BlocksApart
    <3> QED  BY <3>2, <3>3
  <2>2. ASSUME NEW i \in Inodes
        PROVE  \/ new.inode[i] = v.inode[i]
               \/ /\ ~Reached(v, i) /\ new.inode[i].type # "DIR"
                  /\ \A s \in Slots, c \in Inodes : ~Holds(v.inode, v.dirent, i, s, c)
    <3>1. CASE i = id
      BY <1>4, <1>5, <1>6, <1>9, <1>10, <3>1
    <3>2. CASE i # id
      BY <1>5, <1>6, <1>8, <3>2
    <3> QED  BY <3>1, <3>2
  <2> QED  BY <1>2, <1>5, <1>6, <2>1, <2>2 DEF Alters
<1>12. SameTree(new, v) /\ Sound(new)
  BY <1>4, <1>7, <1>11, AltersIsTree
<1>13. Counts(new, r)
  <2>1. CountsNear(new, v, 0)
    <3>1. SUFFICES ASSUME NEW i \in Inodes, Reached(v, i)
                   PROVE  /\ new.inode[i].link_count >= v.inode[i].link_count
                          /\ new.inode[i].link_count + LinkTo(v, i) <= v.inode[i].link_count + LinkTo(new, i) + 0
      BY DEF CountsNear
    <3>2. Links(new.inode, new.inode_bitmap, i) = Links(v.inode, v.inode_bitmap, i)
      <4>1. inode'[id].type # "HARDLINK" /\ inode[id].type # "HARDLINK"
        BY <1>1, <1>9
      <4>2. \A h \in inode_bitmap : h = id \/ inode'[h] = inode[h]
        BY <1>2, <1>8
      <4> QED  BY <1>5, <1>6, <4>1, <4>2 DEF Links
    <3>3. new.inode[i] = v.inode[i]
      BY <1>5, <1>6, <1>8, <1>10, <3>1
    <3>4. v.inode[i].link_count \in Nat /\ LinkTo(v, i) \in Nat
      BY <1>4, NumbersType
    <3> QED  BY <3>2, <3>3, <3>4 DEF LinkTo
  <2>2. Counts(new, r + 0)
    BY <1>4, <1>7, <1>12, <2>1, SameTreeCounts
  <2> QED  BY <2>2
<1>14. NamesAgree(inode', dirent', inode_bitmap', current_dir')
  <2>1. inode_bitmap' \subseteq inode_bitmap /\ inode_bitmap \ inode_bitmap' = {}
    BY <1>1
  <2>2. \A i \in Inodes :
          /\ inode'[i].name = inode[i].name /\ inode'[i].parent = inode[i].parent
          /\ \/ /\ inode'[i].type = inode[i].type
                /\ inode'[i].first_child_block = inode[i].first_child_block
             \/ i = id /\ inode'[i].type # "DIR"
    BY <1>8, <1>9
  <2> QED  BY <1>1, <1>2, <1>3, <2>1, <2>2, ClearNames
<1>15. Kept(r)'
  BY <1>12, <1>13, <1>14 DEF Kept, new
<1>16. Leads(Safe(r + 1), x, D, EntryRemoved(inode[id].parent) \o <<InodeSector(id, inode'[id])>>)
  BY <1>1, <1>3, <1>8, <1>15, ChangedLeads
<1>17. RmdirWrites(id) = EntryRemoved(inode[id].parent) \o <<InodeSector(id, inode'[id])>>
  BY DEF RmdirWrites
<1> QED  BY <1>3, <1>15, <1>16, <1>17

(* fs_delete_hardlink of the link id to t, as it does to a file in use. *)
Loosens(id, t) ==
  /\ id \in Named \ {0} /\ id # current_dir /\ Children(id) = {} /\ id \in Inodes
  /\ inode[id].type = "HARDLINK" /\ inode[id].target_inode = t
  /\ t \in Inodes /\ t # id /\ t # 0 /\ inode[t].type = "FILE" /\ t \in inode_bitmap
  /\ dirent' = Without(inode[id].parent, id) /\ current_dir' = current_dir
  /\ inode[t].link_count \in Nat \ {0} /\ inode'[t].link_count = inode[t].link_count - 1
  /\ \A i \in Inodes \ {t} : inode'[i] = inode[i]
  /\ inode'[t].name = inode[t].name /\ inode'[t].type = "FILE" /\ inode'[t].parent = inode[t].parent
  /\ inode'[t].target_inode = inode[t].target_inode /\ inode'[t].far = inode[t].far
  /\ inode'[t].first_child_block = inode[t].first_child_block
  /\ \/ /\ inode[t].link_count > 1
        /\ inode'[t] = [inode[t] EXCEPT !.link_count = inode'[t].link_count]
        /\ inode_bitmap' = inode_bitmap \ {id} /\ block_bitmap' = block_bitmap
     \/ /\ inode[t].link_count = 1
        /\ inode'[t].blocks = {}
        /\ inode_bitmap' = inode_bitmap \ {id, t}
        /\ block_bitmap' = block_bitmap \ inode[t].blocks

LEMMA UnlinkLoosens ==
  ASSUME NEW r \in Nat, Kept(r), NEW p \in Paths, Unlink(p)
  PROVE  Loosens(Find(p), inode[Find(p)].target_inode)
<1>1. PICK id \in At(p) :
        /\ inode[id].type = "HARDLINK"
        /\ dirent' = Without(inode[id].parent, id)
        /\ LET target == inode[id].target_inode
               count == (inode[target].link_count - 1) % LINK_MOD
           IN  \/ /\ count # 0
                  /\ inode' = [inode EXCEPT ![target].link_count = count]
                  /\ inode_bitmap' = inode_bitmap \ {id}
                  /\ block_bitmap' = block_bitmap
               \/ /\ count = 0
                  /\ inode' = [inode EXCEPT ![target] =
                                 [@ EXCEPT !.link_count = 0, !.blocks = {}]]
                  /\ inode_bitmap' = inode_bitmap \ {id, target}
                  /\ block_bitmap' = block_bitmap \ inode[target].blocks
        /\ current_dir' = current_dir
  BY DEF Unlink
<1>2. /\ id = Find(p) /\ id \in Named \ {0} /\ id # current_dir /\ Children(id) = {} /\ id \in Inodes
      /\ HasName(inode, dirent, id)
  BY <1>1, NamedInUse
<1>3. /\ TypeOK /\ Memory \in Image /\ Sound(Memory) /\ Counts(Memory, r)
      /\ inode_bitmap \in SUBSET Inodes /\ 0 \notin inode_bitmap /\ inode \in [Inodes -> InodeRec]
  BY KeptGives DEF TypeOK
<1> DEFINE t == inode[id].target_inode  k == inode[t].link_count
<1>4. /\ t \in Inodes /\ id \in NamedLinks(inode, dirent, t)
  BY <1>1, <1>2, <1>3, ImageFacts, MemoryFields DEF NamedLinks
<1>5. /\ inode[t].type = "FILE" /\ t \in inode_bitmap /\ Reached(Memory, t)
  BY <1>3, <1>4, LinkedIsFile, MemoryFields DEF Sound, Reached
<1>6. t # id /\ t # 0
  BY <1>1, <1>3, <1>5
<1>7. k \in Nat \ {0}
  <2>1. /\ k >= Cardinality(NamedLinks(inode, dirent, t)) + One(Memory, t)
    BY <1>3, <1>4, <1>5, MemoryFields DEF Counts
  <2>2. /\ IsFiniteSet(NamedLinks(inode, dirent, t)) /\ Cardinality(NamedLinks(inode, dirent, t)) \in Nat
        /\ One(Memory, t) \in Nat /\ k \in Nat
    BY <1>3, <1>4, NumbersType, MemoryFields
  <2>3. Cardinality(NamedLinks(inode, dirent, t)) # 0
    BY <1>4, <2>2, FS_EmptySet
  <2> HIDE DEF k, t
  <2> QED  BY <2>1, <2>2, <2>3
<1>8. (k - 1) % LINK_MOD = k - 1
  <2>1. k \in 0 .. LINK_MOD - 1
    BY <1>3, <1>4 DEF InodeRec
  <2> HIDE DEF k
  <2> QED  BY <1>7, <2>1, MfsAssumption DEF MfsAssumption
<1>9. inode[t] \in InodeRec
  BY <1>3, <1>4
<1> HIDE DEF t
<1>10. \/ /\ k - 1 # 0
          /\ inode' = [inode EXCEPT ![t].link_count = k - 1]
          /\ inode_bitmap' = inode_bitmap \ {id} /\ block_bitmap' = block_bitmap
       \/ /\ k - 1 = 0
          /\ inode' = [inode EXCEPT ![t] = [@ EXCEPT !.link_count = 0, !.blocks = {}]]
          /\ inode_bitmap' = inode_bitmap \ {id, t} /\ block_bitmap' = block_bitmap \ inode[t].blocks
  BY <1>1, <1>8 DEF t
<1>11. /\ inode'[t].link_count = k - 1 /\ \A i \in Inodes \ {t} : inode'[i] = inode[i]
       /\ inode'[t].name = inode[t].name /\ inode'[t].type = "FILE" /\ inode'[t].parent = inode[t].parent
       /\ inode'[t].target_inode = inode[t].target_inode /\ inode'[t].far = inode[t].far
       /\ inode'[t].first_child_block = inode[t].first_child_block
  <2>1. CASE k - 1 # 0 /\ inode' = [inode EXCEPT ![t].link_count = k - 1]
    <3>1. inode'[t] = [inode[t] EXCEPT !.link_count = k - 1]
      BY <1>3, <1>4, <2>1
    <3>2. \A i \in Inodes \ {t} : inode'[i] = inode[i]
      BY <1>3, <2>1
    <3> QED  BY <1>5, <1>9, <3>1, <3>2 DEF InodeRec
  <2>2. CASE k - 1 = 0 /\ inode' = [inode EXCEPT ![t] = [@ EXCEPT !.link_count = 0, !.blocks = {}]]
    <3>1. inode'[t] = [inode[t] EXCEPT !.link_count = 0, !.blocks = {}]
      BY <1>3, <1>4, <2>2
    <3>2. \A i \in Inodes \ {t} : inode'[i] = inode[i]
      BY <1>3, <2>2
    <3>3. inode'[t].link_count = 0
      BY <1>9, <3>1 DEF InodeRec
    <3>4. inode'[t].link_count = k - 1
      BY <2>2, <3>3
    <3> QED  BY <1>5, <1>9, <3>1, <3>2, <3>4 DEF InodeRec
  <2> QED  BY <1>10, <2>1, <2>2
<1>12. \/ /\ k > 1
          /\ inode'[t] = [inode[t] EXCEPT !.link_count = inode'[t].link_count]
          /\ inode_bitmap' = inode_bitmap \ {id} /\ block_bitmap' = block_bitmap
       \/ /\ k = 1 /\ inode'[t].blocks = {}
          /\ inode_bitmap' = inode_bitmap \ {id, t} /\ block_bitmap' = block_bitmap \ inode[t].blocks
  <2>1. CASE /\ k - 1 # 0
             /\ inode' = [inode EXCEPT ![t].link_count = k - 1]
             /\ inode_bitmap' = inode_bitmap \ {id} /\ block_bitmap' = block_bitmap
    <3>1. inode'[t] = [inode[t] EXCEPT !.link_count = k - 1]
      BY <1>3, <1>4, <2>1
    <3>2. inode'[t] = [inode[t] EXCEPT !.link_count = inode'[t].link_count]
      BY <1>11, <3>1
    <3>3. k > 1
      BY <1>7, <2>1
    <3> QED  BY <2>1, <3>2, <3>3
  <2>2. CASE /\ k - 1 = 0
             /\ inode' = [inode EXCEPT ![t] = [@ EXCEPT !.link_count = 0, !.blocks = {}]]
             /\ inode_bitmap' = inode_bitmap \ {id, t} /\ block_bitmap' = block_bitmap \ inode[t].blocks
    <3>1. inode'[t] = [inode[t] EXCEPT !.link_count = 0, !.blocks = {}]
      BY <1>3, <1>4, <2>2
    <3>2. inode'[t].blocks = {}
      BY <1>9, <3>1 DEF InodeRec
    <3>3. k = 1
      BY SMTT(30), <1>7, <2>2
    <3> QED  BY <2>2, <3>2, <3>3
  <2> QED  BY <1>10, <2>1, <2>2
<1>13. Loosens(id, t)
  BY <1>1, <1>2, <1>4, <1>5, <1>6, <1>7, <1>11, <1>12 DEF Loosens, t
<1> QED  BY <1>2, <1>13 DEF t

(* What an unlink leaves in use, and whose blocks. *)
LEMMA LoosenedKeeps ==
  ASSUME NEW r \in Nat, Kept(r), NEW id, NEW t, Loosens(id, t)
  PROVE  LET v == Cleared(id)
         IN  /\ v \in Image /\ Sound(v) /\ v.inode = inode /\ v.dirent = dirent'
             /\ \A i \in Inodes : HasName(inode, dirent', i) <=> HasName(inode, dirent, i) /\ i # id
             /\ \A i \in Inodes : NamedLinks(inode, dirent', i) = NamedLinks(inode, dirent, i) \ {id}
             /\ \A i \in Inodes : Reached(v, i) \/ inode[i].type = "DIR" =>
                  i \in inode_bitmap' \cup {0} /\ OwnedIn(inode, i) \subseteq block_bitmap'
             /\ \A i \in Inodes : Reached(v, i) => Reached(Memory, i)
             /\ inode[t].link_count = 1 => ~Reached(v, t)
             /\ id \in NamedLinks(inode, dirent, t)
<1> DEFINE v == Cleared(id)
<1>1. /\ TypeOK /\ Memory \in Image /\ Sound(Memory) /\ Counts(Memory, r)
      /\ inode_bitmap \in SUBSET Inodes /\ 0 \notin inode_bitmap
  BY KeptGives
<1>2. /\ id \in Named \ {0} /\ id # current_dir /\ Children(id) = {} /\ id \in Inodes
      /\ inode[id].type = "HARDLINK" /\ inode[id].target_inode = t
      /\ t \in Inodes /\ t # id /\ inode[t].type = "FILE" /\ t \in inode_bitmap
      /\ dirent' = Without(inode[id].parent, id)
      /\ inode[t].link_count \in Nat \ {0}
  BY DEF Loosens
<1>3. /\ v \in Image /\ Sound(v) /\ HasName(inode, dirent, id)
      /\ \A i \in Inodes : HasName(inode, dirent', i) <=> HasName(inode, dirent, i) /\ i # id
      /\ \A i \in Inodes : NamedLinks(inode, dirent', i) = NamedLinks(inode, dirent, i) \ {id}
  BY <1>2, ClearedIs, ClearedFields
<1>4. v.inode = inode /\ v.dirent = dirent' /\ v.inode_bitmap = inode_bitmap /\ v.block_bitmap = block_bitmap
  BY <1>2, ClearedFields
<1> HIDE DEF v
<1>5. \A i \in Inodes : Reached(v, i) => Reached(Memory, i)
  BY <1>3, <1>4, MemoryFields DEF Reached
<1>6. id \in NamedLinks(inode, dirent, t)
  BY <1>2, <1>3 DEF NamedLinks
<1>7. Reached(Memory, t)
  BY <1>6, MemoryFields DEF Reached
<1>8. ASSUME inode[t].link_count = 1
      PROVE  ~Reached(v, t)
  <2> DEFINE S == NamedLinks(inode, dirent, t)
  <2>1. 1 >= Cardinality(S) + One(Memory, t)
    BY <1>1, <1>2, <1>7, <1>8, MemoryFields DEF Counts
  <2>2. IsFiniteSet(S) /\ Cardinality(S) \in Nat /\ One(Memory, t) \in {0, 1}
    BY <1>1, <1>2, NumbersType, MemoryFields DEF One
  <2>3. IsFiniteSet(S \ {id}) /\ Cardinality(S \ {id}) = Cardinality(S) - 1
    BY <1>6, <2>2, FS_RemoveElement
  <2>4. Cardinality(S \ {id}) \in Nat
    BY <2>3, FS_CardinalityType
  <2>5. Cardinality(S \ {id}) = 0 /\ One(Memory, t) = 0
    BY <2>1, <2>2, <2>3, <2>4
  <2>6. S \ {id} = {}
    BY <2>3, <2>5, FS_EmptySet
  <2>7. ~HasName(inode, dirent, t)
    BY <2>5, MemoryFields DEF One
  <2> QED  BY <1>2, <1>3, <1>4, <2>6, <2>7 DEF Reached
<1>9. ~Reached(v, id)
  <2>1. NamedLinks(v.inode, v.dirent, id) = {}
    BY <1>2, <1>3, <1>4, LinkedIsFile DEF Sound
  <2> QED  BY <1>2, <1>3, <1>4, <2>1 DEF Reached
<1>10. ASSUME NEW i \in Inodes, Reached(v, i) \/ inode[i].type = "DIR"
       PROVE  i \in inode_bitmap' \cup {0} /\ OwnedIn(inode, i) \subseteq block_bitmap'
  <2>1. Live(v, i) /\ Live(Memory, i)
    BY <1>4, <1>5, <1>10, MemoryFields DEF Live
  <2>2. i \in inode_bitmap \cup {0} /\ i # id
    BY <1>2, <1>3, <1>4, <1>9, <1>10, <2>1, LiveIsUsed
  <2>3. OwnedIn(inode, i) \subseteq block_bitmap
    BY <1>1, <2>1, MemoryFields DEF Sound, BlocksApart
  <2>4. CASE inode_bitmap' = inode_bitmap \ {id} /\ block_bitmap' = block_bitmap
    BY <2>2, <2>3, <2>4
  <2>5. CASE /\ inode[t].link_count = 1 /\ inode_bitmap' = inode_bitmap \ {id, t}
             /\ block_bitmap' = block_bitmap \ inode[t].blocks
    <3>1. i # t
      BY <1>2, <1>8, <1>10, <2>5
    <3>2. Live(Memory, t)
      BY <1>7 DEF Live
    <3>3. OwnedIn(inode, i) \cap OwnedIn(inode, t) = {}
      BY <1>1, <1>2, <2>1, <3>1, <3>2, MemoryFields DEF Sound, BlocksApart
    <3>4. inode[t].blocks \subseteq OwnedIn(inode, t)
      BY DEF OwnedIn
    <3> QED  BY <2>2, <2>3, <2>5, <3>1, <3>3, <3>4
  <2> QED  BY <2>4, <2>5 DEF Loosens
<1> QED  BY <1>3, <1>4, <1>5, <1>6, <1>8, <1>10 DEF v

LEMMA LoosenedKept ==
  ASSUME NEW r \in Nat, Kept(r), TypeOK', NEW id, NEW t, Loosens(id, t)
  PROVE  Kept(r)'
<1> DEFINE v == Cleared(id)  new == Memory'
<1>1. /\ TypeOK /\ TreeInv /\ Memory \in Image /\ Sound(Memory) /\ Counts(Memory, r)
      /\ \A d \in Inodes : inode[d].type = "DIR" => EntryBlocksApart(inode, block_bitmap, d)
      /\ inode_bitmap \in SUBSET Inodes /\ 0 \notin inode_bitmap
  BY KeptGives
<1>2. /\ id \in Named \ {0} /\ id # current_dir /\ Children(id) = {} /\ id \in Inodes
      /\ inode[id].type = "HARDLINK" /\ inode[id].target_inode = t
      /\ t \in Inodes /\ t # id /\ inode[t].type = "FILE" /\ t \in inode_bitmap
      /\ dirent' = Without(inode[id].parent, id) /\ current_dir' = current_dir
      /\ inode[t].link_count \in Nat \ {0} /\ inode'[t].link_count = inode[t].link_count - 1
      /\ \A i \in Inodes \ {t} : inode'[i] = inode[i]
      /\ inode'[t].name = inode[t].name /\ inode'[t].type = "FILE" /\ inode'[t].parent = inode[t].parent
      /\ inode'[t].target_inode = inode[t].target_inode /\ inode'[t].far = inode[t].far
      /\ inode'[t].first_child_block = inode[t].first_child_block
  BY DEF Loosens
<1>3. inode'[t].blocks \subseteq inode[t].blocks
  <2>1. inode[t] \in InodeRec
    BY <1>1, <1>2 DEF TypeOK
  <2> QED  BY <2>1 DEF Loosens, InodeRec
<1>4. /\ v \in Image /\ Sound(v) /\ v.inode = inode /\ v.dirent = dirent'
      /\ \A i \in Inodes : HasName(inode, dirent', i) <=> HasName(inode, dirent, i) /\ i # id
      /\ \A i \in Inodes : NamedLinks(inode, dirent', i) = NamedLinks(inode, dirent, i) \ {id}
      /\ \A i \in Inodes : Reached(v, i) \/ inode[i].type = "DIR" =>
           i \in inode_bitmap' \cup {0} /\ OwnedIn(inode, i) \subseteq block_bitmap'
      /\ \A i \in Inodes : Reached(v, i) => Reached(Memory, i)
      /\ inode[t].link_count = 1 => ~Reached(v, t)
      /\ id \in NamedLinks(inode, dirent, t)
  BY LoosenedKeeps
<1>5. /\ new.inode = inode' /\ new.dirent = dirent' /\ new.inode_bitmap = inode_bitmap'
      /\ new.block_bitmap = block_bitmap'
  BY MemoryFieldsNext
<1>6. new \in Image
  BY MemoryIsImage
<1>7. inode_bitmap' \subseteq inode_bitmap \ {id} /\ inode_bitmap \ {id, t} \subseteq inode_bitmap'
  BY DEF Loosens
<1> HIDE DEF v, new
<1>8. Alters(new, v)
  <2>1. ASSUME NEW i \in Inodes
        PROVE  /\ new.inode[i].name = v.inode[i].name /\ new.inode[i].type = v.inode[i].type
               /\ new.inode[i].parent = v.inode[i].parent
               /\ new.inode[i].target_inode = v.inode[i].target_inode
               /\ new.inode[i].first_child_block = v.inode[i].first_child_block
               /\ new.inode[i].blocks \subseteq v.inode[i].blocks /\ new.inode[i].far \subseteq v.inode[i].far
    <3>1. CASE i = t
      BY <1>2, <1>3, <1>4, <1>5, <3>1
    <3>2. CASE i # t
      BY <1>2, <1>4, <1>5, <3>2
    <3> QED  BY <3>1, <3>2
  <2> QED  BY <1>1, <1>4, <1>5, <1>7, <2>1 DEF Alters
<1>9. SameTree(new, v) /\ Sound(new)
  BY <1>4, <1>6, <1>8, AltersIsTree
<1>10. Counts(new, r)
  <2>1. SUFFICES ASSUME NEW i \in Inodes, Reached(new, i), inode'[i].type = "FILE"
                 PROVE  /\ inode'[i].link_count >= Cardinality(NamedLinks(new.inode, new.dirent, i)) + One(new, i)
                        /\ inode'[i].link_count <= LinkTo(new, i) + 1 + r
    BY <1>5 DEF Counts
  <2>2. /\ NamedLinks(new.inode, new.dirent, i) = NamedLinks(inode, dirent', i)
        /\ One(new, i) = One(v, i) /\ Reached(v, i)
    BY <1>4, <1>6, <1>9, <2>1, SameTreeReached
  <2>3. Reached(Memory, i) /\ inode[i].type = "FILE" /\ i # id
    BY <1>2, <1>4, <2>1, <2>2
  <2>4. One(v, i) = One(Memory, i)
    BY <1>4, <2>3, MemoryFields DEF One
  <2> DEFINE k == inode[i].link_count  S == NamedLinks(inode, dirent, i)  L == Links(inode, inode_bitmap, i)
  <2>5. k >= Cardinality(S) + One(Memory, i) /\ k <= Cardinality(L) + 1 + r
    BY <1>1, <2>3, MemoryFields DEF Counts, LinkTo
  <2>6. /\ k \in Nat /\ Cardinality(S) \in Nat /\ One(Memory, i) \in Nat
        /\ IsFiniteSet(S) /\ IsFiniteSet(L) /\ Cardinality(L) \in Nat
    BY <1>1, NumbersType, MemoryFields DEF LinkTo
  <2>7. Links(new.inode, new.inode_bitmap, i) = L \ {id}
    <3>1. \A h \in inode_bitmap : inode'[h].type = inode[h].type /\ inode'[h].target_inode = inode[h].target_inode
      BY <1>1, <1>2
    <3>2. t \notin L
      BY <1>2 DEF Links
    <3> QED  BY <1>2, <1>5, <1>7, <3>1, <3>2 DEF Links
  <2>8. NamedLinks(new.inode, new.dirent, i) = S \ {id}
    BY <1>4, <2>2
  <2>9. LinkTo(new, i) = Cardinality(L \ {id})
    BY <2>7 DEF LinkTo
  <2>10. CASE i = t
    <3>1. id \in S
      BY <1>4, <2>10
    <3>2. id \in L
      <4>1. id \in inode_bitmap
        BY <1>2, ClearedIs
      <4> QED  BY <1>2, <2>10, <4>1 DEF Links
    <3>3. inode'[i].link_count = k - 1
      BY <1>2, <2>10
    <3> HIDE DEF k, S, L
    <3>4. Cardinality(S \ {id}) = Cardinality(S) - 1 /\ Cardinality(L \ {id}) = Cardinality(L) - 1
      BY <2>6, <3>1, <3>2, FS_RemoveElement
    <3> DEFINE a == Cardinality(S)  b == Cardinality(L)  o == One(Memory, i)
    <3>5. k >= a + o /\ k <= b + 1 + r /\ k \in Nat /\ a \in Nat /\ b \in Nat /\ o \in Nat
      BY <2>5, <2>6
    <3> HIDE DEF a, b, o
    <3>6. k - 1 >= (a - 1) + o /\ k - 1 <= (b - 1) + 1 + r
      BY <3>5
    <3> QED  BY <2>2, <2>4, <2>8, <2>9, <3>3, <3>4, <3>6 DEF a, b, o
  <2>11. CASE i # t
    <3>1. id \notin S /\ id \notin L
      BY <1>2, <2>11 DEF NamedLinks, Links
    <3>2. S \ {id} = S /\ L \ {id} = L
      BY <3>1
    <3>3. inode'[i].link_count = k
      BY <1>2, <2>11
    <3> QED  BY <2>2, <2>4, <2>5, <2>8, <2>9, <3>2, <3>3
  <2> QED  BY <2>10, <2>11
<1>11. NamesAgree(inode', dirent', inode_bitmap', current_dir')
  <2>1. \A c \in inode_bitmap \ inode_bitmap' : c = id \/ ~HasName(inode, dirent, c)
    <3>1. CASE inode_bitmap' = inode_bitmap \ {id}
      BY <3>1
    <3>2. CASE inode[t].link_count = 1 /\ inode_bitmap' = inode_bitmap \ {id, t}
      <4>1. ~HasName(inode, dirent, t)
        BY <1>2, <1>4, <3>2 DEF Reached
      <4> QED  BY <3>2, <4>1
    <3> QED  BY <3>1, <3>2 DEF Loosens
  <2>2. inode_bitmap' \subseteq inode_bitmap
    BY <1>7
  <2>3. \A i \in Inodes :
          /\ inode'[i].name = inode[i].name /\ inode'[i].parent = inode[i].parent
          /\ inode'[i].type = inode[i].type
          /\ inode'[i].first_child_block = inode[i].first_child_block
    BY <1>2
  <2> QED  BY <1>1, <1>2, <2>1, <2>2, <2>3, ClearNames
<1> QED  BY <1>9, <1>10, <1>11 DEF Kept, new

(* In the middle of an unlink the counts do not hold, and all else does. *)
Whole == {x \in Image : Sound(x)}

LEMMA UnlinkLeads ==
  ASSUME NEW r \in Nat, Kept(r), TypeOK', NEW id, NEW t, Loosens(id, t),
         NEW x \in Image, NEW D, Agrees(x, Memory, D)
  PROVE  Leads(Whole, x, D, UnlinkWrites(id))
<1> DEFINE q  == [inode[t] EXCEPT !.link_count = inode'[t].link_count]
           x1 == [x EXCEPT !.inode[t] = q]
           x2 == [x1 EXCEPT !.dirent = dirent']
           x3 == [x2 EXCEPT !.inode_bitmap = inode_bitmap \ {id}]
           x4 == [x3 EXCEPT !.block_bitmap = block_bitmap']
           x5 == [x4 EXCEPT !.inode_bitmap = inode_bitmap']
           v  == Cleared(id)
<1>1. /\ TypeOK /\ Memory \in Image /\ Sound(Memory)
      /\ inode_bitmap \in SUBSET Inodes /\ 0 \notin inode_bitmap
  BY KeptGives
<1>2. /\ id \in Inodes /\ inode[id].target_inode = t
      /\ t \in Inodes /\ t # id /\ t # 0 /\ inode[t].type = "FILE" /\ t \in inode_bitmap
      /\ dirent' = Without(inode[id].parent, id)
      /\ inode[t].link_count \in Nat \ {0} /\ inode'[t].link_count = inode[t].link_count - 1
      /\ \A i \in Inodes \ {t} : inode'[i] = inode[i]
  BY DEF Loosens
<1>3. /\ v \in Image /\ Sound(v) /\ v.inode = inode /\ v.dirent = dirent'
      /\ \A i \in Inodes : Reached(v, i) \/ inode[i].type = "DIR" =>
           i \in inode_bitmap' \cup {0} /\ OwnedIn(inode, i) \subseteq block_bitmap'
      /\ id \in NamedLinks(inode, dirent, t)
  BY LoosenedKeeps
<1>4. /\ x.dirent = dirent /\ x.inode_bitmap = inode_bitmap /\ x.block_bitmap = block_bitmap
      /\ \A i \in inode_bitmap \cup {0} :
           SavedAs(x.inode[i], inode[i]) /\ (i \notin D => x.inode[i] = inode[i])
      /\ DirsMarked(x)
  BY MemoryFields DEF Agrees
<1>5. /\ inode[t] \in InodeRec /\ inode'[t] \in InodeRec /\ inode'[t].link_count \in 0 .. LINK_MOD - 1
  BY <1>1, <1>2 DEF TypeOK, InodeRec
<1>6. /\ q \in InodeRec /\ q.name = inode[t].name /\ q.type = "FILE" /\ q.parent = inode[t].parent
      /\ q.target_inode = inode[t].target_inode /\ q.first_child_block = inode[t].first_child_block
      /\ q.blocks = inode[t].blocks /\ q.far = inode[t].far
  BY <1>2, <1>5 DEF InodeRec
<1>7. Reached(Memory, t)
  BY <1>3, MemoryFields DEF Reached
<1>8. x \in Whole
  <2>1. SameTree(x, Memory) /\ OwnsLess(x, Memory)
    BY <1>1, AgreesIsAlike
  <2> QED  BY <1>1, <2>1, SameTreeSound DEF Whole
<1>9. /\ x1.inode = [x.inode EXCEPT ![t] = q] /\ x1.dirent = dirent
      /\ x1.inode_bitmap = inode_bitmap /\ x1.block_bitmap = block_bitmap
      /\ x2.inode = x1.inode /\ x2.dirent = dirent'
      /\ x2.inode_bitmap = inode_bitmap /\ x2.block_bitmap = block_bitmap
      /\ x3.inode = x1.inode /\ x3.dirent = dirent'
      /\ x3.inode_bitmap = inode_bitmap \ {id} /\ x3.block_bitmap = block_bitmap
      /\ x4.inode = x1.inode /\ x4.dirent = dirent'
      /\ x4.inode_bitmap = inode_bitmap \ {id} /\ x4.block_bitmap = block_bitmap'
      /\ x5.inode = x1.inode /\ x5.dirent = dirent'
      /\ x5.inode_bitmap = inode_bitmap' /\ x5.block_bitmap = block_bitmap'
  BY <1>4 DEF Image
<1>10. /\ inode_bitmap' \subseteq inode_bitmap \ {id} /\ block_bitmap' \subseteq block_bitmap
       /\ inode[t].link_count > 1 =>
            /\ inode_bitmap' = inode_bitmap \ {id}
            /\ inode'[t] = [inode[t] EXCEPT !.link_count = inode'[t].link_count]
       /\ inode[t].link_count = 1 => t \notin inode_bitmap'
  <2>1. inode[t].link_count > 1 => inode[t].link_count # 1
    BY <1>2
  <2> QED  BY <1>2, <2>1 DEF Loosens
<1>11. x1 \in Whole
  <2>1. SameTree(x, Memory) /\ OwnsLess(x, Memory) /\ Live(Memory, t)
    BY <1>1, <1>7, AgreesIsAlike DEF Live
  <2>2. Memory.block_bitmap \subseteq x.block_bitmap /\ Memory.inode = inode
    BY <1>4, MemoryFields
  <2> HIDE DEF q
  <2>3. x1 \in Image /\ SameTree(x1, Memory) /\ OwnsLess(x1, Memory)
    BY <1>1, <1>2, <1>6, <2>1, <2>2, RecordKeepsTree
  <2> HIDE DEF x1
  <2> QED  BY <1>1, <2>3, SameTreeSound DEF Whole
<1> HIDE DEF q, v
<1>12. ASSUME NEW y \in Image, y.inode = x1.inode, y.dirent = dirent',
              inode_bitmap' \subseteq y.inode_bitmap, y.inode_bitmap \subseteq inode_bitmap,
              block_bitmap' \subseteq y.block_bitmap
       PROVE  y \in Whole
  <2>1. /\ y.inode = [x.inode EXCEPT ![t] = q] /\ x.inode \in [Inodes -> InodeRec]
    BY <1>9, <1>12 DEF Image
  <2>2. ASSUME NEW i \in Inodes, i \in inode_bitmap \cup {0}
        PROVE  /\ y.inode[i].name = inode[i].name /\ y.inode[i].type = inode[i].type
               /\ y.inode[i].parent = inode[i].parent
               /\ y.inode[i].target_inode = inode[i].target_inode
               /\ y.inode[i].first_child_block = inode[i].first_child_block
               /\ y.inode[i].blocks \subseteq inode[i].blocks /\ y.inode[i].far \subseteq inode[i].far
    <3>1. CASE i = t
      BY <1>2, <1>6, <2>1, <3>1
    <3>2. CASE i # t
      BY <1>4, <2>1, <2>2, <3>2 DEF SavedAs
    <3> QED  BY <3>1, <3>2
  <2>3. ASSUME NEW i \in Inodes, i \notin inode_bitmap \cup {0}
        PROVE  /\ ~Reached(v, i) /\ y.inode[i].type # "DIR"
               /\ \A s \in Slots, c \in Inodes : ~Holds(inode, dirent', i, s, c)
    <3>1. i # t /\ i \notin inode_bitmap' \cup {0}
      BY <1>2, <1>10, <2>3
    <3>2. ~Reached(v, i) /\ inode[i].type # "DIR"
      BY <1>3, <3>1
    <3>3. y.inode[i].type # "DIR"
      BY <1>4, <2>1, <2>3, <3>1 DEF DirsMarked
    <3> QED  BY <3>2, <3>3 DEF Holds
  <2>4. \A i \in Inodes : Reached(v, i) \/ (v.inode[i].type = "DIR" /\ y.inode[i].type = "DIR") =>
          i \in y.inode_bitmap \cup {0} /\ OwnedIn(v.inode, i) \subseteq y.block_bitmap
    BY <1>3, <1>12
  <2>5. 0 \notin y.inode_bitmap
    BY <1>1, <1>12
  <2>6. Alters(y, v)
    BY <1>3, <1>12, <2>2, <2>3, <2>4, <2>5 DEF Alters
  <2> QED  BY <1>3, <2>6, AltersIsTree DEF Whole
<1>13. x1 \in Image /\ x1.inode \in [Inodes -> InodeRec] /\ block_bitmap \in SUBSET Blocks
       /\ dirent' \in [Blocks -> [Slots -> Inodes \cup {NONE}]]
  BY <1>1, <1>11 DEF Whole, Image, TypeOK
<1>14. x2 \in Image /\ x3 \in Image /\ x4 \in Image /\ x5 \in Image
  BY <1>1, <1>10, <1>13 DEF Image
<1>15. x2 \in Whole /\ x3 \in Whole /\ x4 \in Whole /\ x5 \in Whole
  <2> HIDE DEF x1, x2, x3, x4, x5
  <2> QED  BY <1>9, <1>10, <1>12, <1>14
<1>16. Whole \in SUBSET Image /\ TypeOK /\ inode[id].parent \in Inodes
  BY <1>1, <1>2 DEF Whole, TypeOK, InodeRec
<1> DEFINE w1 == <<InodeSector(t, q)>>  w2 == EntryRemoved(inode[id].parent)
           w3 == <<InodeBitmap(inode_bitmap \ {id})>>  w4 == Releases(block_bitmap \ block_bitmap')
           w5 == <<InodeBitmap(inode_bitmap')>>
<1>17. Trail(Whole, {t}, x, w1, x1)
  <2>1. Applied(x, InodeSector(t, q)) = x1
    BY AppliedSectors
  <2>2. InodeSector(t, q) \in Sectors({t})
    BY <1>6, SectorTypes
  <2> HIDE DEF x1
  <2> QED  BY <1>8, <1>11, <2>1, <2>2, TrailOne
<1>18. Trail(Whole, {t}, x1, w2, x2)
  <2> HIDE DEF x1
  <2>1. Trail(Whole, {}, x1, w2, x2)
    BY <1>2, <1>9, <1>11, <1>15, <1>16, EntryRemovedTrail
  <2> HIDE DEF x2, w2
  <2> QED  BY <2>1, TrailWidens
<1>19. Trail(Whole, {t}, x2, w3, x3)
  <2>1. Applied(x2, InodeBitmap(inode_bitmap \ {id})) = x3
    BY AppliedSectors
  <2>2. InodeBitmap(inode_bitmap \ {id}) \in Sectors({t})
    BY <1>1, SectorTypes
  <2> HIDE DEF x2, x3
  <2> QED  BY <1>15, <2>1, <2>2, TrailOne
<1>20. Trail(Whole, {t}, x3, w4, x4)
  <2> DEFINE F == block_bitmap \ block_bitmap'
  <2>1. \A B \in SUBSET Blocks : block_bitmap \ F \subseteq B => [x3 EXCEPT !.block_bitmap = B] \in Whole
    <3>1. SUFFICES ASSUME NEW B \in SUBSET Blocks, block_bitmap' \subseteq B
                   PROVE  [x3 EXCEPT !.block_bitmap = B] \in Whole
      BY <1>10
    <3> DEFINE y == [x3 EXCEPT !.block_bitmap = B]
    <3> HIDE DEF x1
    <3>2. y \in Image /\ y.inode = x3.inode /\ y.dirent = x3.dirent /\ y.inode_bitmap = x3.inode_bitmap
          /\ y.block_bitmap = B
      <4> HIDE DEF x3
      <4> QED  BY <1>14 DEF Image
    <3> HIDE DEF y, x3
    <3>3. y \in Whole
      BY <1>9, <1>10, <1>12, <3>1, <3>2
    <3> QED  BY <3>3 DEF y
  <2>2. block_bitmap \ F = block_bitmap' /\ F \in SUBSET Blocks
    BY <1>10, <1>13
  <2> HIDE DEF F
  <2>3. x3.block_bitmap = block_bitmap /\ block_bitmap \subseteq Blocks
    BY <1>9, <1>13
  <2> HIDE DEF x3
  <2>4. Trail(Whole, {t}, x3, Releases(F), [x3 EXCEPT !.block_bitmap = block_bitmap \ F])
    BY <1>15, <1>16, <2>1, <2>2, <2>3, FreeingTrail
  <2> QED  BY <2>2, <2>4 DEF F
<1>21. Trail(Whole, {t}, x4, w5, x5)
  <2>1. Applied(x4, InodeBitmap(inode_bitmap')) = x5
    BY ZenonT(60), AppliedSectors
  <2>2. InodeBitmap(inode_bitmap') \in Sectors({t})
    BY <1>1, <1>10, SectorTypes
  <2> HIDE DEF x4, x5
  <2> QED  BY <1>15, <2>1, <2>2, TrailOne
<1>22. Agrees(x5, Memory', D \ {t})
  <2>1. ASSUME NEW i \in inode_bitmap' \cup {0}
        PROVE  SavedAs(x5.inode[i], inode'[i]) /\ (i \notin D \ {t} => x5.inode[i] = inode'[i])
    <3>1. i \in Inodes /\ i \in inode_bitmap \cup {0}
      BY <1>1, <1>10, ImageFacts
    <3>2. x5.inode = [x.inode EXCEPT ![t] = q] /\ x.inode \in [Inodes -> InodeRec]
      BY <1>9 DEF Image
    <3>3. CASE i = t
      <4>1. inode[t].link_count > 1
        BY <1>2, <1>10, <2>1, <3>3
      <4>2. inode'[t] = q
        BY <1>10, <4>1 DEF q
      <4> QED  BY <3>1, <3>2, <3>3, <4>2 DEF SavedAs
    <3>4. CASE i # t
      BY <1>2, <1>4, <3>1, <3>2, <3>4
    <3> QED  BY <3>3, <3>4
  <2>2. DirsMarked(x5)
    <3> HIDE DEF x5
    <3> QED  BY <1>15 DEF Whole, Sound
  <2> HIDE DEF x5
  <2> QED  BY <1>9, <2>1, <2>2, MemoryFieldsNext DEF Agrees
<1>23. UnlinkWrites(id) =
         w1 \o w2 \o w3 \o w4 \o (IF inode'[t].link_count = 0 THEN w5 ELSE <<>>)
  BY <1>2 DEF UnlinkWrites, q
<1> HIDE DEF x1, x2, x3, x4, x5, w1, w2, w3, w4, w5
<1>24. Trail(Whole, {t}, x, w1 \o w2 \o w3 \o w4, x4)
  <2>1. Trail(Whole, {t}, x, w1 \o w2, x2)
    BY <1>17, <1>18, TrailThen
  <2>2. Trail(Whole, {t}, x, w1 \o w2 \o w3, x3)
    BY <1>19, <2>1, TrailThen
  <2> QED  BY <1>20, <2>2, TrailThen
<1>25. CASE inode'[t].link_count = 0
  <2>1. Trail(Whole, {t}, x, w1 \o w2 \o w3 \o w4 \o w5, x5)
    BY <1>21, <1>24, TrailThen
  <2> QED  BY <1>2, <1>14, <1>22, <1>23, <1>25, <2>1 DEF Leads
<1>26. CASE inode'[t].link_count # 0
  <2>1. x4 = x5
    <3>1. inode[t].link_count > 1
      BY <1>2, <1>26
    <3>2. inode_bitmap' = inode_bitmap \ {id}
      BY <1>10, <3>1
    <3>3. /\ x4.inode = x5.inode /\ x4.dirent = x5.dirent /\ x4.inode_bitmap = x5.inode_bitmap
          /\ x4.block_bitmap = x5.block_bitmap
      BY <1>9, <3>2
    <3> QED  BY <1>14, <3>3 DEF Image
  <2> DEFINE ws == w1 \o w2 \o w3 \o w4
  <2>2. ws \in Seq(Sectors({t}))
    <3>1. Trail(Whole, {t}, x, ws, x4)
      BY <1>24
    <3> HIDE DEF ws
    <3> QED  BY <3>1, TrailEnds
  <2>3. ws \o <<>> = ws
    <3> HIDE DEF ws
    <3> QED  BY <2>2
  <2>4. Trail(Whole, {t}, x, UnlinkWrites(id), x5)
    BY <1>23, <1>24, <1>26, <2>1, <2>3
  <2> QED  BY <1>2, <1>14, <1>22, <2>4 DEF Leads
<1> QED  BY <1>25, <1>26

(* write_file_data of a file takes free blocks, and gives them to the file. *)
Fills(i, got) ==
  /\ got \in SUBSET FreeBlocks /\ block_bitmap' = block_bitmap \cup got
  /\ \A j \in Inodes :
       /\ SavedAs(inode[j], inode'[j])
       /\ inode'[j].type = inode[j].type /\ inode'[j].link_count = inode[j].link_count
       /\ inode'[j].target_inode = inode[j].target_inode
       /\ OwnedIn(inode', j) = OwnedIn(inode, j) \cup (IF j = i THEN got ELSE {})
       /\ j # i => inode'[j] = inode[j]

LEMMA WriteFills ==
  ASSUME TypeOK, NEW i \in Inodes, NEW n \in Nat, WriteData(i, n)
  PROVE  \E got : Fills(i, got)
<1>1. PICK got \in SUBSET FreeBlocks, direct \in SUBSET FreeBlocks :
        /\ direct \subseteq got
        /\ inode' = [inode EXCEPT ![i] =
                       [@ EXCEPT !.size = Larger(inode[i].size, n),
                                 !.blocks = inode[i].blocks \cup direct,
                                 !.far = inode[i].far \cup (got \ direct)]]
        /\ block_bitmap' = block_bitmap \cup got
  BY ZenonT(60) DEF WriteData, Lowest
<1>2. ASSUME NEW j \in Inodes
      PROVE  /\ SavedAs(inode[j], inode'[j])
             /\ inode'[j].type = inode[j].type /\ inode'[j].link_count = inode[j].link_count
             /\ inode'[j].target_inode = inode[j].target_inode
             /\ OwnedIn(inode', j) = OwnedIn(inode, j) \cup (IF j = i THEN got ELSE {})
             /\ j # i => inode'[j] = inode[j]
  <2>1. inode[j] \in InodeRec /\ inode \in [Inodes -> InodeRec]
    BY DEF TypeOK
  <2>2. CASE j # i
    <3>1. inode'[j] = inode[j]
      BY <1>1, <2>1, <2>2
    <3>2. OwnedIn(inode', j) = OwnedIn(inode, j)
      BY <3>1 DEF OwnedIn
    <3> QED  BY <2>2, <3>1, <3>2 DEF SavedAs
  <2>3. CASE j = i
    <3>1. inode'[j] = [inode[j] EXCEPT !.size = Larger(inode[i].size, n),
                                       !.blocks = inode[j].blocks \cup direct,
                                       !.far = inode[j].far \cup (got \ direct)]
      BY <1>1, <2>1, <2>3
    <3>2. /\ inode'[j].name = inode[j].name /\ inode'[j].type = inode[j].type
          /\ inode'[j].parent = inode[j].parent /\ inode'[j].link_count = inode[j].link_count
          /\ inode'[j].target_inode = inode[j].target_inode
          /\ inode'[j].first_child_block = inode[j].first_child_block
          /\ inode'[j].blocks = inode[j].blocks \cup direct
          /\ inode'[j].far = inode[j].far \cup (got \ direct)
      BY <2>1, <3>1 DEF InodeRec
    <3>3. OwnedIn(inode', j) = OwnedIn(inode, j) \cup got
      BY <1>1, <3>2 DEF OwnedIn
    <3> QED  BY <2>3, <3>2, <3>3 DEF SavedAs
  <2> QED  BY <2>2, <2>3
<1> QED  BY <1>1, <1>2 DEF Fills

LEMMA FillsKept ==
  ASSUME NEW r \in Nat, Kept(r), TypeOK', NEW i \in Inodes, NEW got, Fills(i, got),
         dirent' = dirent, inode_bitmap' = inode_bitmap, current_dir' = current_dir
  PROVE  Kept(r)'
<1> DEFINE new == Memory'
<1>1. /\ Memory \in Image /\ Sound(Memory) /\ Counts(Memory, r)
      /\ NamesAgree(inode, dirent, inode_bitmap, current_dir) /\ current_dir \in Inodes
      /\ 0 \notin inode_bitmap
  BY KeptGives DEF Kept
<1>2. /\ new \in Image /\ new.inode = inode' /\ new.dirent = dirent
      /\ new.inode_bitmap = inode_bitmap /\ new.block_bitmap = block_bitmap'
  BY MemoryIsImage, MemoryFieldsNext
<1> HIDE DEF new
<1>3. \A j \in Inodes :
        /\ inode'[j].name = inode[j].name /\ inode'[j].type = inode[j].type
        /\ inode'[j].parent = inode[j].parent /\ inode'[j].link_count = inode[j].link_count
        /\ inode'[j].target_inode = inode[j].target_inode
        /\ inode'[j].first_child_block = inode[j].first_child_block
  BY DEF Fills, SavedAs
<1>4. SameTree(new, Memory)
  <2>1. \A d \in Inodes, s \in Slots, c \in Inodes :
          Holds(new.inode, new.dirent, d, s, c) <=> Holds(inode, dirent, d, s, c)
    BY <1>2, <1>3 DEF Holds
  <2>2. \A j \in Inodes : Reached(Memory, j) => j \in inode_bitmap \cup {0}
    BY KeptGives
  <2>3. DirsMarked(new)
    BY <1>1, <1>2, <1>3, MemoryFields DEF Sound, DirsMarked
  <2> QED  BY <1>1, <1>2, <1>3, <2>1, <2>2, <2>3, MemoryFields DEF SameTree
<1>5. \A j \in Inodes : Live(new, j) <=> Live(Memory, j)
  BY <1>1, <1>2, <1>3, <1>4, SameTreeReached, MemoryFields DEF Live
<1>6. BlocksApart(new)
  <2>1. /\ \A j \in Inodes : OwnedIn(inode', j) = OwnedIn(inode, j) \cup (IF j = i THEN got ELSE {})
        /\ got \cap block_bitmap = {} /\ block_bitmap' = block_bitmap \cup got
    BY DEF Fills, FreeBlocks
  <2>2. ASSUME NEW j \in Inodes, Live(new, j)
        PROVE  /\ OwnedIn(inode, j) \subseteq block_bitmap
               /\ \A k \in Inodes : j # k /\ Live(new, k) =>
                    OwnedIn(inode, j) \cap OwnedIn(inode, k) = {}
    BY <1>1, <1>5, <2>2, MemoryFields DEF Sound, BlocksApart
  <2>3. ASSUME NEW j \in Inodes, Live(new, j)
        PROVE  OwnedIn(inode', j) \subseteq block_bitmap'
    BY <2>1, <2>2, <2>3
  <2>4. ASSUME NEW j \in Inodes, Live(new, j), NEW k \in Inodes, Live(new, k), j # k
        PROVE  OwnedIn(inode', j) \cap OwnedIn(inode', k) = {}
    <3>1. /\ OwnedIn(inode, j) \subseteq block_bitmap /\ OwnedIn(inode, k) \subseteq block_bitmap
          /\ OwnedIn(inode, j) \cap OwnedIn(inode, k) = {}
      BY <2>2, <2>4
    <3> QED  BY <2>1, <2>4, <3>1
  <2> QED  BY <1>2, <2>3, <2>4 DEF BlocksApart
<1>7. NamesAgree(inode', dirent, inode_bitmap, current_dir)
  BY <1>1, <1>2, <1>4, SameTreeNames, MemoryFields
<1>8. Sound(new)
  <2>1. LinksLead(new)
    BY <1>1, <1>2, <1>4, SameTreeLinks, MemoryFields DEF Sound
  <2> QED  BY <1>2, <1>4, <1>6, <1>7, <2>1, NamesAgreeRoot DEF Sound, SameTree
<1>9. Counts(new, r)
  <2>1. CountsNear(new, Memory, 0)
    <3>1. SUFFICES ASSUME NEW j \in Inodes
                   PROVE  /\ new.inode[j].link_count >= inode[j].link_count
                          /\ new.inode[j].link_count + LinkTo(Memory, j)
                               <= inode[j].link_count + LinkTo(new, j) + 0
      BY MemoryFields DEF CountsNear
    <3>2. Links(new.inode, new.inode_bitmap, j) = Links(inode, inode_bitmap, j)
      BY <1>1, <1>2, <1>3, ImageFacts, MemoryFields DEF Links
    <3>3. LinkTo(new, j) = LinkTo(Memory, j)
      BY <1>2, <3>2, MemoryFields DEF LinkTo
    <3>4. inode[j].link_count \in Nat /\ LinkTo(Memory, j) \in Nat
      BY <1>1, NumbersType, MemoryFields
    <3>5. new.inode[j].link_count = inode[j].link_count
      BY <1>2, <1>3
    <3> QED  BY <3>3, <3>4, <3>5
  <2>2. Counts(new, r + 0)
    BY <1>1, <1>2, <1>4, <2>1, SameTreeCounts
  <2> QED  BY <2>2
<1> QED  BY <1>2, <1>7, <1>8, <1>9 DEF Kept, new

LEMMA FillsLead ==
  ASSUME NEW r \in Nat, Kept(r), TypeOK', NEW i \in Inodes, NEW n, NEW got, Fills(i, got),
         dirent' = dirent, inode_bitmap' = inode_bitmap, current_dir' = current_dir,
         NEW x \in Image, NEW D, Agrees(x, Memory, D), inode' = inode \/ i \in D
  PROVE  Leads(Safe(r + 1), x, D, DataWrites(i, n))
<1> DEFINE x1 == [x EXCEPT !.block_bitmap = block_bitmap']
           w1 == Allocations(block_bitmap' \ block_bitmap)
           w2 == <<InodeSector(i, inode'[i])>>
<1>1. /\ Memory \in Image /\ Sound(Memory) /\ Counts(Memory, r)
      /\ Memory' \in Image /\ Sound(Memory)' /\ Counts(Memory, r)'
      /\ block_bitmap \in SUBSET Blocks /\ block_bitmap' \in SUBSET Blocks
      /\ block_bitmap \subseteq block_bitmap' /\ inode' \in [Inodes -> InodeRec]
      /\ inode_bitmap \in SUBSET Inodes
  <2>1. Kept(r)'
    BY FillsKept
  <2>2. Kept(r)' => Sound(Memory)' /\ Counts(Memory, r)'
    BY DEF Kept
  <2> QED  BY <2>1, <2>2, KeptGives, MemoryIsImage DEF TypeOK, Fills
<1>2. /\ x.dirent = dirent /\ x.inode_bitmap = inode_bitmap /\ x.block_bitmap = block_bitmap
      /\ \A j \in inode_bitmap \cup {0} :
           SavedAs(x.inode[j], inode[j]) /\ (j \notin D => x.inode[j] = inode[j])
      /\ DirsMarked(x)
  BY MemoryFields DEF Agrees
<1>3. \A B \in SUBSET Blocks : block_bitmap \subseteq B => [x EXCEPT !.block_bitmap = B] \in Safe(r + 1)
  <2>1. Like(x, Memory, 0)
    BY <1>1, AgreesIsLike
  <2>2. SUFFICES ASSUME NEW B \in SUBSET Blocks, block_bitmap \subseteq B
                 PROVE  [x EXCEPT !.block_bitmap = B] \in Safe(r + 1)
    OBVIOUS
  <2>3. Like([x EXCEPT !.block_bitmap = B], Memory, 0)
    BY <1>2, <2>1, <2>2, LikeMarks
  <2> QED  BY <1>1, <2>3, LikeIsSafe
<1>4. x \in Safe(r + 1) /\ Safe(r + 1) \in SUBSET Image
  <2>1. Like(x, Memory, 0)
    BY <1>1, AgreesIsLike
  <2> QED  BY <1>1, <2>1, LikeIsSafe DEF Safe
<1>5. Trail(Safe(r + 1), {i}, x, w1, x1)
  <2>1. Trail(Safe(r + 1), {i}, x, w1, [x EXCEPT !.block_bitmap = block_bitmap \cup (block_bitmap' \ block_bitmap)])
    BY <1>1, <1>2, <1>3, <1>4, TakingTrail
  <2>2. block_bitmap \cup (block_bitmap' \ block_bitmap) = block_bitmap'
    BY <1>1
  <2> QED  BY <2>1, <2>2
<1>6. /\ x1 \in Image /\ x1.inode = x.inode /\ x1.dirent = dirent
      /\ x1.inode_bitmap = inode_bitmap /\ x1.block_bitmap = block_bitmap'
  BY <1>1, <1>2 DEF Image
<1> HIDE DEF x1
<1>7. Agrees(x1, Memory', D)
  <2>1. ASSUME NEW j \in inode_bitmap \cup {0}
        PROVE  SavedAs(x1.inode[j], inode'[j]) /\ (j \notin D => x1.inode[j] = inode'[j])
    <3>1. j \in Inodes
      BY <1>1, ImageFacts
    <3>2. SavedAs(inode[j], inode'[j]) /\ (j # i => inode'[j] = inode[j])
      BY <3>1 DEF Fills
    <3>3. SavedAs(x.inode[j], inode[j]) /\ (j \notin D => x.inode[j] = inode[j])
      BY <1>2
    <3>4. SavedAs(x.inode[j], inode'[j])
      BY <3>2, <3>3 DEF SavedAs
    <3> QED  BY <1>6, <3>2, <3>3, <3>4
  <2>2. DirsMarked(x1)
    BY <1>2, <1>6 DEF DirsMarked
  <2> QED  BY <1>6, <2>1, <2>2, MemoryFieldsNext DEF Agrees
<1>8. CASE ~Complete(i, n)
  <2>1. w1 \in Seq(Sectors({i}))
    BY <1>5, TrailEnds
  <2> HIDE DEF w1
  <2>2. w1 \o <<>> = w1
    BY <2>1
  <2>3. DataWrites(i, n) = w1
    BY <1>8, <2>2 DEF DataWrites, w1
  <2>4. Trail(Safe(r + 1), {}, x, w1, x1)
    <3>1. Trail(Safe(r + 1), {}, x, Allocations(block_bitmap' \ block_bitmap),
                [x EXCEPT !.block_bitmap = block_bitmap \cup (block_bitmap' \ block_bitmap)])
      BY <1>1, <1>2, <1>3, <1>4, TakingTrail
    <3>2. block_bitmap \cup (block_bitmap' \ block_bitmap) = block_bitmap'
      BY <1>1
    <3> QED  BY <3>1, <3>2 DEF w1, x1
  <2>5. Agrees(x1, Memory', D \ {})
    BY <1>7
  <2> QED  BY <1>6, <2>3, <2>4, <2>5 DEF Leads
<1>9. CASE Complete(i, n)
  <2> DEFINE y == [x1 EXCEPT !.inode[i] = inode'[i]]
  <2>1. y \in Image /\ Agrees(y, Memory', D \ {i})
    <3>1. DirsMarked(Memory')
      <4>1. Sound(Memory)' => DirsMarked(Memory')
        BY DEF Sound
      <4> QED  BY <1>1, <4>1
    <3>2. /\ x1.dirent = Memory'.dirent /\ x1.inode_bitmap = Memory'.inode_bitmap
          /\ x1.block_bitmap = Memory'.block_bitmap /\ Memory'.inode = inode'
      BY <1>6, MemoryFieldsNext
    <3>3. \A j \in Inodes \ {i} : x1.inode[j].type = "DIR" => j \in Memory'.inode_bitmap \cup {0}
      BY <1>2, <1>6, <3>2 DEF DirsMarked
    <3>4. \A j \in (Memory'.inode_bitmap \cup {0}) \ {i} :
             SavedAs(x1.inode[j], Memory'.inode[j]) /\ (j \notin D => x1.inode[j] = Memory'.inode[j])
      BY <1>7 DEF Agrees
    <3> DEFINE m == Memory'
    <3> HIDE DEF m
    <3>5. m \in Image /\ DirsMarked(m)
      BY <1>1, <3>1 DEF m
    <3>6. /\ x1.dirent = m.dirent /\ x1.inode_bitmap = m.inode_bitmap
          /\ x1.block_bitmap = m.block_bitmap
          /\ \A j \in Inodes \ {i} : x1.inode[j].type = "DIR" => j \in m.inode_bitmap \cup {0}
          /\ \A j \in (m.inode_bitmap \cup {0}) \ {i} :
               SavedAs(x1.inode[j], m.inode[j]) /\ (j \notin D => x1.inode[j] = m.inode[j])
      BY <3>2, <3>3, <3>4 DEF m
    <3>7. /\ [x1 EXCEPT !.inode[i] = m.inode[i]] \in Image
          /\ Agrees([x1 EXCEPT !.inode[i] = m.inode[i]], m, D \ {i})
      BY <1>6, <3>5, <3>6, AgreesSaved
    <3> QED  BY <3>2, <3>7 DEF m
  <2> HIDE DEF y
  <2>2. y \in Safe(r + 1)
    <3> DEFINE m == Memory'
    <3>1. m \in Image /\ Sound(m) /\ Counts(m, r) /\ Agrees(y, m, D \ {i})
      BY <1>1, <2>1
    <3> HIDE DEF m
    <3>2. Like(y, m, 0)
      BY <2>1, <3>1, AgreesIsLike
    <3> QED  BY <3>1, <3>2, LikeIsSafe
  <2>3. Applied(x1, InodeSector(i, inode'[i])) = y
    BY AppliedSectors DEF y
  <2>4. InodeSector(i, inode'[i]) \in Sectors({i})
    BY <1>1, SectorTypes
  <2>5. x1 \in Safe(r + 1)
    BY <1>5, TrailEnds
  <2>6. Trail(Safe(r + 1), {i}, x1, w2, y)
    BY <2>2, <2>3, <2>4, <2>5, TrailOne
  <2>7. DataWrites(i, n) = w1 \o w2
    BY <1>9 DEF DataWrites
  <2> HIDE DEF w1, w2
  <2>8. Trail(Safe(r + 1), {i}, x, w1 \o w2, y)
    BY <1>5, <2>6, TrailThen
  <2> QED  BY <2>1, <2>7, <2>8 DEF Leads
<1> QED  BY <1>8, <1>9

-----------------------------------------------------------------------------
(* The invariant: the writes still to come lead the disk through images that *)
(* a restart may find to one that agrees with memory.                        *)

(* A cp or mv and where it is. *)
Job ==
  [step : {"create", "write", "remove", "removing"}, command : {"cp", "mv"},
   from : Inodes, src : Paths, dst : Paths, size : Nat, stored : SUBSET Blocks,
   onto : Inodes \cup {NONE}]

JobType == job = NoJob \/ job \in Job

Between == IF unlinking THEN Whole ELSE Safe(restarts + 1)

CrashInv ==
  /\ restarts \in 0 .. MAX_RESTARTS
  /\ unlinking \in BOOLEAN /\ (unlinking => pending # <<>>)
  /\ JobType
  /\ Kept(restarts)
  /\ \E e \in Image : Agrees(e, Memory, dirty) /\ Trail(Between, Inodes, disk, pending, e)

LEMMA AgreesWidens ==
  ASSUME NEW e, NEW m, NEW D, NEW F, D \subseteq F, Agrees(e, m, D)
  PROVE  Agrees(e, m, F)
  BY DEF Agrees

(* Between two commands. *)
LEMMA AtRest ==
  ASSUME CrashInv, pending = <<>>
  PROVE  /\ restarts \in Nat /\ restarts <= MAX_RESTARTS /\ Kept(restarts) /\ TypeOK /\ ~unlinking
         /\ disk \in Image /\ Agrees(disk, Memory, dirty)
         /\ disk \in Safe(restarts + 1)
<1>1. PICK e \in Image : Agrees(e, Memory, dirty) /\ Trail(Between, Inodes, disk, pending, e)
  BY DEF CrashInv
<1>2. disk = e /\ disk \in Between
  BY <1>1, TrailEnds
<1>3. restarts \in Nat /\ restarts <= MAX_RESTARTS
  BY CrashAssumption DEF CrashInv, CrashAssumption
<1> QED  BY <1>1, <1>2, <1>3 DEF CrashInv, Kept, Between

(* A command has run in memory, and its writes are those of Gives. *)
LEMMA GivesKeeps ==
  ASSUME CrashInv, pending = <<>>, NEW command, NEW writes, NEW unsaved,
         Gives(command, writes, unsaved), JobType', NEW r, r = restarts, Kept(r)',
         command = "unlink" => writes # <<>> /\ Leads(Whole, disk, dirty \cup unsaved, writes),
         command # "unlink" => Leads(Safe(r + 1), disk, dirty \cup unsaved, writes)
  PROVE  CrashInv'
<1>1. /\ unlinking' = (command = "unlink") /\ pending' = writes
      /\ dirty' = (dirty \cup unsaved) \ Saved(writes)
      /\ disk' = disk /\ restarts' = restarts
  BY DEF Gives
<1> DEFINE S == IF command = "unlink" THEN Whole ELSE Safe(restarts + 1)
<1>2. Leads(S, disk, dirty \cup unsaved, writes)
  OBVIOUS
<1>3. PICK e \in Image, J \in SUBSET Inodes :
        Trail(S, J, disk, writes, e) /\ Agrees(e, Memory', (dirty \cup unsaved) \ J)
  BY <1>2 DEF Leads
<1>4. Between' = S
  BY <1>1 DEF Between, Whole, Safe, Image, Sound, Counts
<1> HIDE DEF S
<1>5. Saved(writes) \subseteq J
  BY <1>3, TrailEnds, SavedWithin
<1>6. Agrees(e, Memory', dirty')
  BY <1>1, <1>3, <1>5, AgreesWidens
<1>7. Trail(S, Inodes, disk, writes, e)
  BY <1>3, TrailWidens
<1>8. (\E f \in Image : Agrees(f, Memory, dirty) /\ Trail(Between, Inodes, disk, pending, f))'
  BY <1>1, <1>4, <1>6, <1>7
<1>9. /\ restarts' \in 0 .. MAX_RESTARTS
      /\ unlinking' \in BOOLEAN /\ (unlinking' => pending' # <<>>)
  BY <1>1 DEF CrashInv
<1>10. Kept(restarts)'
  BY <1>1 DEF Kept, Counts
<1> QED  BY <1>8, <1>9, <1>10 DEF CrashInv

(* Calls that are no unlink and save what they change. *)
LEMMA CallKeeps ==
  ASSUME CrashInv, pending = <<>>, NEW command, command # "unlink", NEW writes,
         Gives(command, writes, {}), JobType', NEW r, r = restarts,
         Kept(r)', Leads(Safe(r + 1), disk, dirty, writes)
  PROVE  CrashInv'
<1>1. dirty \cup {} = dirty
  OBVIOUS
<1> QED  BY <1>1, GivesKeeps

LEMMA CreateKeeps ==
  ASSUME CrashInv, pending = <<>>, JobType', NEW p \in Paths, NEW command \in {"new", "newdir"},
         CreateFile(p) \/ CreateDir(p), Gives(command, MadeWrites, {})
  PROVE  CrashInv'
<1>1. restarts \in Nat /\ Kept(restarts) /\ TypeOK /\ disk \in Image /\ Agrees(disk, Memory, dirty)
  BY AtRest
<1>2. TypeOK'
  BY <1>1, CallType
<1>3. PICK dir \in At(DirPart(p)), type \in {"FILE", "DIR"} :
        Lookup(dir, BasePart(p)) = NONE /\ Create(BasePart(p), type, dir)
  BY DEF CreateFile, CreateDir
<1>4. dir \in Named /\ BasePart(p) \in Stored
  BY <1>1, PathsLeadToNames, StoredName DEF Kept, TreeInv
<1>5. PICK r \in Nat : r = restarts /\ Kept(r)
  BY <1>1
<1>6. Kept(r)' /\ Leads(Safe(r + 1), disk, dirty, MadeWrites)
  BY <1>1, <1>2, <1>3, <1>4, <1>5, CreateLeads
<1> QED  BY <1>5, <1>6, CallKeeps

LEMMA LinkKeeps ==
  ASSUME CrashInv, pending = <<>>, JobType', NEW p \in Paths,
         LinkTargets \subseteq {"FILE"}, MAX_INODES + MAX_RESTARTS < LINK_MOD
  PROVE  /\ \A t \in SymlinkTexts : CreateSymlink(t, p) /\ Gives("symlink", MadeWrites, {}) => CrashInv'
         /\ \A t \in Paths : CreateHardlink(t, p) /\ Gives("hlink", LinkWrites, {}) => CrashInv'
<1>1. /\ restarts \in Nat /\ restarts <= MAX_RESTARTS /\ Kept(restarts) /\ TypeOK
      /\ disk \in Image /\ Agrees(disk, Memory, dirty)
  BY AtRest
<1>2. PICK r \in Nat : r = restarts /\ Kept(r)
  BY <1>1
<1>3. ASSUME NEW t \in SymlinkTexts, CreateSymlink(t, p), Gives("symlink", MadeWrites, {})
      PROVE  CrashInv'
  <2>1. TypeOK'
    BY <1>1, <1>3, CallType
  <2>2. Kept(r)' /\ Leads(Safe(r + 1), disk, dirty, MadeWrites)
    BY <1>1, <1>2, <1>3, <2>1, SymlinkLeads
  <2> QED  BY <1>2, <1>3, <2>2, CallKeeps
<1>4. ASSUME NEW t \in Paths, CreateHardlink(t, p), Gives("hlink", LinkWrites, {})
      PROVE  CrashInv'
  <2>1. TypeOK'
    BY <1>1, <1>4, CallType
  <2>2. MAX_INODES + r < LINK_MOD
    BY ONLY <1>1, <1>2, r \in Nat, MAX_INODES + MAX_RESTARTS < LINK_MOD, MfsAssumption, CrashAssumption
       DEF MfsAssumption, CrashAssumption
  <2>3. Kept(r)' /\ Leads(Safe(r + 1), disk, dirty, LinkWrites)
    BY <1>1, <1>2, <1>4, <2>1, <2>2, HardlinkLeads
  <2> QED  BY <1>2, <1>4, <2>3, CallKeeps
<1> QED  BY <1>3, <1>4

LEMMA RemoveKeeps ==
  ASSUME CrashInv, pending = <<>>, JobType', NEW p \in Paths, BusyRmdir = FALSE
  PROVE  /\ RemoveFile(p) /\ Gives("rm", RemoveWrites(Find(p)), {}) => CrashInv'
         /\ RemoveDir(p) /\ Gives("rmdir", RmdirWrites(Find(p)), {}) => CrashInv'
         /\ Unlink(p) /\ Gives("unlink", UnlinkWrites(Find(p)), {}) => CrashInv'
<1>1. /\ restarts \in Nat /\ restarts <= MAX_RESTARTS /\ Kept(restarts) /\ TypeOK
      /\ disk \in Image /\ Agrees(disk, Memory, dirty)
  BY AtRest
<1>2. PICK r \in Nat : r = restarts /\ Kept(r)
  BY <1>1
<1>3. ASSUME RemoveFile(p), Gives("rm", RemoveWrites(Find(p)), {})
      PROVE  CrashInv'
  <2>1. TypeOK'
    BY <1>1, <1>3, CallType
  <2>2. Kept(r)' /\ Leads(Safe(r + 1), disk, dirty, RemoveWrites(Find(p)))
    BY <1>1, <1>2, <1>3, <2>1, RemoveFileLeads
  <2> QED  BY <1>2, <1>3, <2>2, CallKeeps
<1>4. ASSUME RemoveDir(p), Gives("rmdir", RmdirWrites(Find(p)), {})
      PROVE  CrashInv'
  <2>1. TypeOK'
    BY <1>1, <1>4, CallType
  <2>2. Kept(r)' /\ Leads(Safe(r + 1), disk, dirty, RmdirWrites(Find(p)))
    BY <1>1, <1>2, <1>4, <2>1, RemoveDirLeads
  <2> QED  BY <1>2, <1>4, <2>2, CallKeeps
<1>5. ASSUME Unlink(p), Gives("unlink", UnlinkWrites(Find(p)), {})
      PROVE  CrashInv'
  <2>1. TypeOK'
    BY <1>1, <1>5, CallType
  <2> DEFINE id == Find(p)  t == inode[id].target_inode
  <2>2. Loosens(id, t)
    BY <1>2, <1>5, UnlinkLoosens
  <2>3. Kept(r)'
    BY <1>2, <2>1, <2>2, LoosenedKept
  <2>4. Leads(Whole, disk, dirty, UnlinkWrites(id))
    BY <1>1, <1>2, <2>1, <2>2, UnlinkLeads
  <2>5. UnlinkWrites(id) # <<>>
    <3>1. PICK e, J : Trail(Whole, J, disk, UnlinkWrites(id), e) /\ Agrees(e, Memory', dirty \ J)
      BY <2>4 DEF Leads
    <3>2. UnlinkWrites(id) = <<>> => Agrees(disk, Memory', dirty \ J)
      BY <3>1, TrailEnds
    <3>3. disk.dirent = dirent /\ Memory'.dirent = dirent'
      BY <1>1, MemoryFields, MemoryFieldsNext DEF Agrees
    <3>4. disk.inode_bitmap = inode_bitmap /\ Memory'.inode_bitmap = inode_bitmap'
      BY <1>1, MemoryFields, MemoryFieldsNext DEF Agrees
    <3>5. id \in inode_bitmap /\ id \notin inode_bitmap'
      <4>1. id \in Inodes /\ id \in Named \ {0} /\ id # current_dir /\ Children(id) = {}
        BY <2>2 DEF Loosens
      <4>2. id \in inode_bitmap
        BY <1>2, <4>1, ClearedIs
      <4> QED  BY <2>2, <4>2 DEF Loosens
    <3> QED  BY <3>2, <3>4, <3>5 DEF Agrees
  <2>6. dirty \cup {} = dirty
    OBVIOUS
  <2> QED  BY <1>2, <1>5, <2>3, <2>4, <2>5, <2>6, GivesKeeps
<1> QED  BY <1>3, <1>4, <1>5

LEMMA DataKeeps ==
  ASSUME CrashInv, pending = <<>>, JobType', NEW i \in Inodes, NEW n \in Nat, WriteData(i, n),
         UNCHANGED <<dirent, inode_bitmap, current_dir>>,
         Gives("write", DataWrites(i, n), IF inode' = inode THEN {} ELSE {i})
  PROVE  CrashInv'
<1>1. /\ restarts \in Nat /\ restarts <= MAX_RESTARTS /\ Kept(restarts) /\ TypeOK
      /\ disk \in Image /\ Agrees(disk, Memory, dirty)
  BY AtRest
<1>2. PICK r \in Nat : r = restarts /\ Kept(r)
  BY <1>1
<1>3. TypeOK'
  BY <1>1, WriteDataType DEF TypeOK
<1>4. PICK got : Fills(i, got)
  BY <1>1, WriteFills
<1> DEFINE unsaved == IF inode' = inode THEN {} ELSE {i}
           D == dirty \cup unsaved
<1>5. Agrees(disk, Memory, D) /\ (inode' = inode \/ i \in D)
  BY <1>1, AgreesWidens
<1>6. Kept(r)'
  BY <1>2, <1>3, <1>4, FillsKept
<1>7. Leads(Safe(r + 1), disk, D, DataWrites(i, n))
  <2> HIDE DEF D
  <2> QED  BY <1>1, <1>2, <1>3, <1>4, <1>5, FillsLead
<1> DEFINE command == "write"  writes == DataWrites(i, n)
<1>8. /\ Gives(command, writes, unsaved) /\ command # "unlink"
      /\ Leads(Safe(r + 1), disk, dirty \cup unsaved, writes)
  BY <1>7
<1> HIDE DEF unsaved, command, writes
<1> QED  BY <1>2, <1>6, <1>8, GivesKeeps

LEMMA WriteFileKeeps ==
  ASSUME CrashInv, pending = <<>>, JobType', NEW p \in Paths, NEW n \in 1 .. MAX_WRITE, WriteFile(p, n),
         Gives("write", DataWrites(Resolve(Find(p)), n), IF inode' = inode THEN {} ELSE {Resolve(Find(p))})
  PROVE  CrashInv'
<1>1. PICK id \in At(p), real \in Inodes :
        real = Resolve(id) /\ WriteData(real, n) /\ UNCHANGED <<dirent, inode_bitmap, current_dir>>
  BY DEF WriteFile
<1>2. real = Resolve(Find(p)) /\ n \in Nat
  BY <1>1, MfsAssumption DEF At, MfsAssumption
<1> QED  BY <1>1, <1>2, DataKeeps

LEMMA ChangeDirKeeps ==
  ASSUME CrashInv, pending = <<>>, JobType', NEW p \in Paths, ChangeDir(p), Gives("cd", <<>>, {})
  PROVE  CrashInv'
<1>1. /\ restarts \in Nat /\ restarts <= MAX_RESTARTS /\ Kept(restarts) /\ TypeOK
      /\ disk \in Image /\ Agrees(disk, Memory, dirty) /\ disk \in Safe(restarts + 1)
  BY AtRest
<1>2. PICK r \in Nat : r = restarts /\ Kept(r)
  BY <1>1
<1>3. TypeOK'
  BY <1>1, CallType
<1>4. /\ NamesAgree(inode, dirent, inode_bitmap, current_dir')
      /\ UNCHANGED <<inode, dirent, inode_bitmap, block_bitmap>>
  BY <1>2, ChangeDirEntersNamed DEF Kept, TreeInv
<1>5. Memory' = Memory
  BY <1>4 DEF Memory
<1>6. Kept(r)'
  <2> DEFINE new == Memory'
  <2>1. new = Memory
    BY <1>5
  <2> HIDE DEF new
  <2>2. Sound(new) /\ Counts(new, r)
    BY <1>2, <2>1 DEF Kept
  <2> QED  BY <1>3, <1>4, <2>2 DEF Kept, new
<1>7. Leads(Safe(r + 1), disk, dirty, <<>>)
  <2>1. Trail(Safe(r + 1), {}, disk, <<>>, disk)
    BY <1>1, <1>2, TrailNone
  <2>2. Agrees(disk, Memory', dirty \ {})
    BY <1>1, <1>5
  <2> QED  BY <1>1, <2>1, <2>2 DEF Leads
<1> QED  BY <1>2, <1>6, <1>7, CallKeeps

LEMMA CommandKeeps ==
  ASSUME CrashInv, pending = <<>>, JobType', Command,
         LinkTargets \subseteq {"FILE"}, BusyRmdir = FALSE, MAX_INODES + MAX_RESTARTS < LINK_MOD
  PROVE  CrashInv'
<1>1. ASSUME NEW p \in Paths, CreateFile(p) /\ Gives("new", MadeWrites, {})
      PROVE  CrashInv'
  BY <1>1, CreateKeeps
<1>2. ASSUME NEW p \in Paths, CreateDir(p) /\ Gives("newdir", MadeWrites, {})
      PROVE  CrashInv'
  BY <1>2, CreateKeeps
<1>3. ASSUME NEW t \in SymlinkTexts, NEW p \in Paths, CreateSymlink(t, p) /\ Gives("symlink", MadeWrites, {})
      PROVE  CrashInv'
  BY <1>3, LinkKeeps
<1>4. ASSUME NEW t \in Paths, NEW p \in Paths, CreateHardlink(t, p) /\ Gives("hlink", LinkWrites, {})
      PROVE  CrashInv'
  BY <1>4, LinkKeeps
<1>5. ASSUME NEW p \in Paths, NEW n \in 1 .. MAX_WRITE, WriteFile(p, n),
             Gives("write", DataWrites(Resolve(Find(p)), n), IF inode' = inode THEN {} ELSE {Resolve(Find(p))})
      PROVE  CrashInv'
  BY <1>5, WriteFileKeeps
<1>6. ASSUME NEW p \in Paths,
             \/ RemoveFile(p) /\ Gives("rm", RemoveWrites(Find(p)), {})
             \/ RemoveDir(p) /\ Gives("rmdir", RmdirWrites(Find(p)), {})
             \/ Unlink(p) /\ Gives("unlink", UnlinkWrites(Find(p)), {})
      PROVE  CrashInv'
  BY <1>6, RemoveKeeps
<1>7. ASSUME NEW p \in Paths, ChangeDir(p) /\ Gives("cd", <<>>, {})
      PROVE  CrashInv'
  BY <1>7, ChangeDirKeeps
<1> QED  BY <1>1, <1>2, <1>3, <1>4, <1>5, <1>6, <1>7 DEF Command, Typed

LEMMA MemoryStays ==
  ASSUME NEW r, Kept(r), UNCHANGED vars
  PROVE  Kept(r)' /\ Memory' = Memory
<1> DEFINE new == Memory'
<1>1. new = Memory
  BY DEF vars, Memory
<1>2. Sound(Memory) /\ Counts(Memory, r) /\ TypeOK
      /\ NamesAgree(inode, dirent, inode_bitmap, current_dir)
  BY DEF Kept
<1> HIDE DEF new
<1>3. Sound(new) /\ Counts(new, r)
  BY <1>1, <1>2
<1>4. TypeOK'
  BY <1>2 DEF TypeOK, vars
<1>5. NamesAgree(inode, dirent, inode_bitmap, current_dir)'
  BY <1>2 DEF vars
<1> QED  BY <1>1, <1>3, <1>4, <1>5 DEF Kept, new

LEMMA WaitKeeps ==
  ASSUME CrashInv, UNCHANGED crashVars, JobType'
  PROVE  CrashInv'
<1>1. /\ UNCHANGED <<disk, pending, dirty, unlinking, restarts>> /\ UNCHANGED vars
  BY DEF crashVars
<1>2. PICK r : r = restarts /\ Kept(r)
  BY DEF CrashInv
<1>3. Kept(r)' /\ Memory' = Memory
  BY <1>1, <1>2, MemoryStays
<1>4. Kept(restarts)'
  BY <1>1, <1>2, <1>3 DEF Kept, Counts
<1>5. PICK e \in Image : Agrees(e, Memory, dirty) /\ Trail(Between, Inodes, disk, pending, e)
  BY DEF CrashInv
<1>6. Between' = Between
  BY <1>1 DEF Between, Whole, Safe, Image, Sound, Counts
<1>7. (\E f \in Image : Agrees(f, Memory, dirty) /\ Trail(Between, Inodes, disk, pending, f))'
  BY <1>1, <1>3, <1>5, <1>6
<1> QED  BY <1>1, <1>4, <1>7 DEF CrashInv

LEMMA WriteKeeps ==
  ASSUME CrashInv, Write, JobType'
  PROVE  CrashInv'
<1>1. /\ pending # <<>> /\ disk' = Applied(disk, Head(pending)) /\ pending' = Tail(pending)
      /\ unlinking' = (unlinking /\ pending' # <<>>)
      /\ UNCHANGED <<dirty, restarts>> /\ UNCHANGED vars
  BY DEF Write, Written, Applied
<1>2. PICK r : r = restarts /\ Kept(r)
  BY DEF CrashInv
<1>3. Kept(r)' /\ Memory' = Memory
  BY <1>1, <1>2, MemoryStays
<1>4. Kept(restarts)'
  BY <1>1, <1>2, <1>3 DEF Kept, Counts
<1>5. PICK e \in Image : Agrees(e, Memory, dirty) /\ Trail(Between, Inodes, disk, pending, e)
  BY DEF CrashInv
<1>6. Trail(Between, Inodes, disk', pending', e)
  BY <1>1, <1>5, TrailStep
<1>7. restarts \in Nat /\ restarts' = restarts
  BY <1>1, CrashAssumption DEF CrashInv, CrashAssumption
<1>8. Trail(Between', Inodes, disk', pending', e)
  <2>1. Safe(restarts + 1)' = Safe(restarts + 1) /\ Whole' = Whole
    BY <1>7 DEF Whole, Safe, Image, Sound, Counts
  <2>2. CASE unlinking' = unlinking
    <3>1. Between' = Between
      BY <2>1, <2>2 DEF Between
    <3> QED  BY <1>6, <3>1
  <2>3. CASE unlinking /\ ~unlinking' /\ pending' = <<>>
    <3>1. disk' = e
      BY <1>6, <2>3, TrailEnds
    <3>2. Memory \in Image /\ Sound(Memory) /\ Counts(Memory, r)
      BY <1>2, MemoryIsImage DEF Kept
    <3>3. r \in Nat
      BY <1>2, <1>7
    <3>4. Like(e, Memory, 0)
      BY <1>5, <3>2, AgreesIsLike
    <3>5. e \in Safe(r + 1)
      BY <3>2, <3>3, <3>4, LikeIsSafe
    <3>6. Trail(Safe(r + 1), Inodes, e, <<>>, e)
      BY <3>5, TrailNone
    <3>7. Between' = Safe(r + 1)
      BY <1>2, <2>1, <2>3 DEF Between
    <3> QED  BY <2>3, <3>1, <3>6, <3>7
  <2> QED  BY <1>1, <2>2, <2>3 DEF CrashInv
<1>9. (\E f \in Image : Agrees(f, Memory, dirty) /\ Trail(Between, Inodes, disk, pending, f))'
  BY <1>1, <1>3, <1>5, <1>8
<1> QED  BY <1>1, <1>4, <1>9 DEF CrashInv

(* fs_mount finds an image that a power cut may leave. *)
LEMMA RestartKeeps ==
  ASSUME CrashInv, Restart, JobType', UnlinkCut = FALSE
  PROVE  CrashInv'
<1>1. /\ restarts < MAX_RESTARTS /\ ~unlinking
      /\ inode' = disk.inode /\ dirent' = disk.dirent
      /\ inode_bitmap' = disk.inode_bitmap /\ block_bitmap' = disk.block_bitmap
      /\ current_dir' = 0 /\ pending' = <<>> /\ dirty' = {} /\ unlinking' = FALSE
      /\ restarts' = restarts + 1 /\ disk' = disk
  BY DEF Restart
<1>2. restarts \in Nat /\ restarts' \in 0 .. MAX_RESTARTS /\ restarts' \in Nat
  BY <1>1, CrashAssumption DEF CrashInv, CrashAssumption
<1>3. disk \in Safe(restarts + 1)
  BY <1>1, TrailEnds DEF CrashInv, Between
<1>4. PICK r \in Nat : r = restarts'
  BY <1>2
<1>5. disk \in Image /\ Sound(disk) /\ Counts(disk, r)
  BY <1>1, <1>3, <1>4 DEF Safe
<1>6. Memory' = disk
  <2>1. /\ Memory' \in Image
    BY <1>1, <1>5, MemoryFieldsNext DEF Image, Memory
  <2> QED  BY <1>1, <1>5, <2>1, MemoryFieldsNext DEF Image
<1>7. TypeOK'
  BY <1>1, <1>5, ImageFacts DEF TypeOK
<1>8. NamesAgree(inode', dirent', inode_bitmap', current_dir')
  BY <1>1, <1>5 DEF Sound
<1>9. Kept(r)'
  <2> DEFINE new == Memory'
  <2>1. new = disk
    BY <1>6
  <2> HIDE DEF new
  <2>2. Sound(new) /\ Counts(new, r)
    BY <1>5, <2>1
  <2> QED  BY <1>7, <1>8, <2>2 DEF Kept, new
<1>10. Kept(restarts)'
  BY <1>4, <1>9 DEF Kept, Counts
<1>11. Agrees(disk, Memory', {})
  BY <1>5, <1>6 DEF Agrees, SavedAs, Sound
<1>12. Trail(Between', Inodes, disk', pending', disk)
  <2>1. disk \in Safe(r + 1)
    <3>1. Counts(disk, r + 1)
      BY <1>5, CountsGrow
    <3> QED  BY <1>5, <3>1 DEF Safe
  <2>2. Safe(restarts + 1)' = Safe(r + 1)
    BY <1>4 DEF Safe, Image, Sound, Counts
  <2>3. Between' = Safe(r + 1)
    BY <1>1, <2>2 DEF Between
  <2> QED  BY <1>1, <2>1, <2>3, TrailNone
<1>13. (\E f \in Image : Agrees(f, Memory, dirty) /\ Trail(Between, Inodes, disk, pending, f))'
  BY <1>1, <1>5, <1>11, <1>12
<1> QED  BY <1>1, <1>2, <1>10, <1>13 DEF CrashInv

-----------------------------------------------------------------------------
(* cp, mv and append                                                        *)

LEMMA ReadableType ==
  ASSUME TypeOK, NEW i \in Inodes
  PROVE  Readable(i) \in Nat /\ inode[i].size \in Nat
<1>1. inode[i].blocks \in SUBSET Blocks /\ inode[i].size \in Nat
  BY DEF TypeOK, InodeRec
<1>2. Cardinality(inode[i].blocks) \in Nat
  BY <1>1, LowestCounts
<1> QED  BY <1>1, <1>2 DEF Readable

LEMMA StartKeeps ==
  ASSUME CrashInv, pending = <<>>, NEW command \in {"cp", "mv"}, NEW p \in Paths, NEW q \in Paths,
         StartTransfer(command, p, q)
  PROVE  CrashInv'
<1>1. PICK i \in FileAt(p) :
        job' = [step |-> "create", command |-> command, from |-> i, src |-> p,
                dst |-> q, size |-> Readable(i),
                stored |-> disk.inode[i].blocks, onto |-> NONE]
  BY DEF StartTransfer
<1>2. i \in Inodes /\ TypeOK /\ disk \in Image
  BY AtRest DEF FileAt, At
<1>3. Readable(i) \in Nat /\ disk.inode[i].blocks \in SUBSET Blocks
  <2>1. disk.inode[i] \in InodeRec
    BY <1>2, ImageFacts
  <2> QED  BY <1>2, <2>1, ReadableType DEF InodeRec
<1>4. JobType'
  BY <1>1, <1>2, <1>3 DEF JobType, Job
<1> QED  BY <1>4, WaitKeeps DEF StartTransfer

LEMMA TransferStepKeeps ==
  ASSUME CrashInv, pending = <<>>, CreateStep \/ WriteStep \/ RemoveStep \/ MovedStep, BusyRmdir = FALSE
  PROVE  CrashInv'
<1>1. job \in Job
  <2>1. job.step \in {"create", "write", "remove", "removing"}
    BY DEF CreateStep, WriteStep, RemoveStep, MovedStep
  <2> QED  BY <2>1 DEF CrashInv, JobType, NoJob
<1>2. /\ job.dst \in Paths /\ job.src \in Paths /\ job.size \in Nat
      /\ \A s \in {"create", "write", "remove", "removing"} :
           job' = [job EXCEPT !.step = s] => JobType'
      /\ job' = NoJob => JobType'
      /\ \A i \in Inodes : job' = AfterWrite(i) => JobType'
  BY <1>1 DEF JobType, Job, AfterWrite, NoJob
<1>3. CASE CreateStep
  <2>1. CASE /\ CreateFile(job.dst) /\ Gives("new", MadeWrites, {})
             /\ job' = [job EXCEPT !.step = "write"]
    BY <1>2, <2>1, CreateKeeps
  <2>2. CASE job' = NoJob /\ UNCHANGED crashVars
    BY <1>2, <2>2, WaitKeeps
  <2> QED  BY <1>3, <2>1, <2>2 DEF CreateStep
<1>4. CASE WriteStep
  <2>1. ASSUME NEW i \in FileAt(job.dst), WriteCall(i, job.size), job' \in {AfterWrite(i), NoJob}
        PROVE  CrashInv'
    <3>1. i \in Inodes /\ JobType'
      BY <1>2, <2>1 DEF FileAt, At
    <3> QED  BY <1>2, <2>1, <3>1, DataKeeps DEF WriteCall, Keep
  <2>2. CASE job' = NoJob /\ UNCHANGED crashVars
    BY <1>2, <2>2, WaitKeeps
  <2> QED  BY <1>4, <2>1, <2>2 DEF WriteStep
<1>5. CASE RemoveStep
  <2>1. CASE /\ RemoveFile(job.src) /\ Gives("rm", RemoveWrites(Find(job.src)), {})
             /\ job' = [job EXCEPT !.step = "removing"]
    BY <1>2, <2>1, RemoveKeeps
  <2>2. CASE job' = NoJob /\ UNCHANGED crashVars
    BY <1>2, <2>2, WaitKeeps
  <2> QED  BY <1>5, <2>1, <2>2 DEF RemoveStep
<1>6. CASE MovedStep
  BY <1>2, <1>6, WaitKeeps DEF MovedStep
<1> QED  BY <1>3, <1>4, <1>5, <1>6

LEMMA AppendKeeps ==
  ASSUME CrashInv, pending = <<>>, JobType', NEW p \in Paths, NEW n \in 0 .. 1, AppendFile(p, n)
  PROVE  CrashInv'
<1>1. PICK i \in FileAt(p) : \E old \in Readable(i) .. inode[i].size : WriteCall(i, old + n)
  BY DEF AppendFile
<1>2. i \in Inodes /\ TypeOK
  BY AtRest DEF FileAt, At
<1>3. PICK old \in Readable(i) .. inode[i].size : WriteCall(i, old + n)
  BY <1>1
<1>4. old + n \in Nat
  BY <1>2, ReadableType
<1> QED  BY <1>2, <1>3, <1>4, DataKeeps DEF WriteCall, Keep

-----------------------------------------------------------------------------
LEMMA CrashStep ==
  ASSUME LinkTargets \subseteq {"FILE"}, BusyRmdir = FALSE, UnlinkCut = FALSE,
         MAX_INODES + MAX_RESTARTS < LINK_MOD,
         CrashInv, [TransferNext]_transferVars
  PROVE  CrashInv'
<1>1. JobType
  BY DEF CrashInv
<1>2. job' = job \/ job' = NoJob => JobType'
  BY <1>1 DEF JobType, NoJob
<1>3. CASE pending = <<>> /\ Prompt
  <2>1. CASE Command /\ UNCHANGED job
    BY <1>2, <1>3, <2>1, CommandKeeps
  <2>2. ASSUME NEW command \in {"cp", "mv"}, NEW p \in Paths, NEW q \in Paths, StartTransfer(command, p, q)
        PROVE  CrashInv'
    BY <1>3, <2>2, StartKeeps
  <2>3. ASSUME NEW p \in Paths, NEW n \in 0 .. 1, AppendFile(p, n)
        PROVE  CrashInv'
    <3>1. JobType'
      BY <1>2, <2>3 DEF AppendFile
    <3> QED  BY <1>3, <2>3, <3>1, AppendKeeps
  <2> QED  BY <1>3, <2>1, <2>2, <2>3 DEF Prompt, Typed
<1>4. CASE pending = <<>> /\ (CreateStep \/ WriteStep \/ RemoveStep \/ MovedStep)
  BY <1>4, TransferStepKeeps
<1>5. CASE Write /\ UNCHANGED job
  BY <1>2, <1>5, WriteKeeps
<1>6. CASE Restart /\ job' = NoJob
  BY <1>2, <1>6, RestartKeeps
<1>7. CASE UNCHANGED transferVars
  BY <1>2, <1>7, WaitKeeps DEF transferVars
<1> QED  BY <1>3, <1>4, <1>5, <1>6, <1>7 DEF TransferNext

LEMMA InitCrash ==
  TransferInit => CrashInv
<1> SUFFICES ASSUME TransferInit  PROVE CrashInv
  OBVIOUS
<1>1. /\ Init /\ disk = Memory /\ pending = <<>> /\ dirty = {} /\ unlinking = FALSE /\ restarts = 0
      /\ job = NoJob
  BY DEF TransferInit, CrashInit, Memory
<1>2. /\ TypeOK /\ NamesAgree(inode, dirent, inode_bitmap, current_dir)
  BY <1>1, InitNames DEF NamesInv, NamesHold
<1>3. /\ Memory \in Image /\ Memory.inode = inode /\ Memory.dirent = dirent
      /\ Memory.inode_bitmap = inode_bitmap /\ Memory.block_bitmap = block_bitmap
  BY <1>2, MemoryIsImage, MemoryFields
<1>4. \A i \in Inodes : /\ inode[i].type = IF i = 0 THEN "DIR" ELSE "FILE"
                        /\ inode[i].first_child_block = NONE
                        /\ inode[i].blocks = {} /\ inode[i].far = {}
  BY <1>1 DEF Init
<1>5. \A i \in Inodes : OwnedIn(inode, i) = {}
  BY <1>4 DEF OwnedIn
<1>6. \A i \in Inodes : Reached(Memory, i) => i = 0
  BY <1>3, <1>4 DEF Reached, HasName, Holds, NamedLinks
<1>7. Sound(Memory)
  <2>1. NamesAgree(inode, dirent, inode_bitmap, 0)
    BY <1>2, NamesAgreeRoot
  <2>2. LinksLead(Memory)
    BY <1>3, <1>4 DEF LinksLead
  <2>3. BlocksApart(Memory)
    BY <1>3, <1>5 DEF BlocksApart
  <2>4. DirsMarked(Memory)
    BY <1>3, <1>4 DEF DirsMarked
  <2> QED  BY <1>3, <2>1, <2>2, <2>3, <2>4 DEF Sound
<1>8. Counts(Memory, 0)
  BY <1>3, <1>4, <1>6 DEF Counts
<1>9. Kept(0)
  BY <1>2, <1>7, <1>8 DEF Kept
<1>10. Agrees(Memory, Memory, {})
  BY <1>7 DEF Agrees, SavedAs, Sound
<1>11. Trail(Between, Inodes, disk, pending, Memory)
  <2>1. Memory \in Safe(0 + 1)
    <3>1. Counts(Memory, 0 + 1)
      BY <1>3, <1>8, CountsGrow
    <3> QED  BY <1>3, <1>7, <3>1 DEF Safe
  <2>2. Between = Safe(0 + 1)
    BY <1>1 DEF Between
  <2> QED  BY <1>1, <2>1, <2>2, TrailNone
<1>12. restarts \in 0 .. MAX_RESTARTS
  BY <1>1, CrashAssumption DEF CrashAssumption
<1> QED  BY <1>1, <1>3, <1>9, <1>10, <1>11, <1>12 DEF CrashInv, JobType

-----------------------------------------------------------------------------
(* What the disk has                                                        *)

LEMMA DiskIsSound ==
  ASSUME CrashInv
  PROVE  /\ disk \in Image /\ Sound(disk)
         /\ ~unlinking => Counts(disk, restarts + 1)
<1>1. disk \in Between
  BY TrailEnds DEF CrashInv
<1> QED  BY <1>1 DEF Between, Whole, Safe

LEMMA HoldsOnDisk ==
  ASSUME disk \in Image, NEW d \in Inodes, NEW s
  PROVE  /\ s \in OnDisk!Children(d) <=>
              s \in Slots /\ \E c \in Inodes : Holds(disk.inode, disk.dirent, d, s, c)
         /\ s \in OnDisk!Children(d) =>
              /\ OnDisk!Entry(d, s) \in Inodes
              /\ \A c : Holds(disk.inode, disk.dirent, d, s, c) <=> OnDisk!Entry(d, s) = c
<1>1. disk.inode[d].first_child_block \in Blocks \cup {NONE}
      /\ disk.dirent \in [Blocks -> [Slots -> Inodes \cup {NONE}]]
  BY ImageFacts
<1>2. ASSUME s \in Slots, disk.inode[d].first_child_block # NONE
      PROVE  disk.dirent[disk.inode[d].first_child_block][s] \in Inodes \cup {NONE}
  BY <1>1, <1>2
<1>3. NONE \notin Inodes
  BY DEF Inodes, NONE
<1> QED  BY <1>2, <1>3 DEF OnDisk!Children, OnDisk!Used, OnDisk!Entry, Holds, OnDisk!Slots, Slots, OnDisk!NONE, NONE

LEMMA NamesOnDisk ==
  ASSUME disk \in Image, Sound(disk)
  PROVE  /\ \A i \in Inodes : OnDisk!ListedIn(i) # {} => HasName(disk.inode, disk.dirent, i)
         /\ \A i \in Inodes \ {0} : HasName(disk.inode, disk.dirent, i) => OnDisk!ListedIn(i) # {}
         /\ \A i \in Inodes : LinksOnDisk(i) = NamedLinks(disk.inode, disk.dirent, i)
         /\ \A i \in NamedOnDisk : i \in Inodes /\ Reached(disk, i)
         /\ \A i \in Inodes : OnDisk!ListedIn(i) \subseteq {disk.inode[i].parent}
<1>1. NamesAgree(disk.inode, disk.dirent, disk.inode_bitmap, 0)
  BY DEF Sound
<1>2. \A i \in Inodes, d \in Inodes :
        d \in OnDisk!ListedIn(i) <=> \E s \in Slots : Holds(disk.inode, disk.dirent, d, s, i)
  BY HoldsOnDisk DEF OnDisk!ListedIn, OnDisk!Inodes, Inodes
<1>3. \A i : OnDisk!ListedIn(i) \subseteq Inodes
  BY DEF OnDisk!ListedIn, OnDisk!Inodes, Inodes
<1>4. \A i \in Inodes : OnDisk!ListedIn(i) # {} => HasName(disk.inode, disk.dirent, i)
  BY <1>2, <1>3 DEF HasName
<1>5. \A i \in Inodes \ {0} : HasName(disk.inode, disk.dirent, i) => OnDisk!ListedIn(i) # {}
  BY <1>2 DEF HasName
<1>6. ASSUME NEW i \in Inodes
      PROVE  LinksOnDisk(i) = NamedLinks(disk.inode, disk.dirent, i)
  <2>1. disk.inode[0].type = "DIR"
    BY <1>1 DEF NamesAgree
  <2>2. \A h \in Inodes : disk.inode[h].type = "HARDLINK" =>
          (OnDisk!ListedIn(h) # {} <=> HasName(disk.inode, disk.dirent, h))
    BY <1>4, <1>5, <2>1
  <2> QED  BY <2>2 DEF LinksOnDisk, NamedLinks
<1>7. \A i \in NamedOnDisk : i \in Inodes /\ Reached(disk, i)
  BY <1>4, <1>6 DEF NamedOnDisk, Reached
<1>8. \A i \in Inodes : OnDisk!ListedIn(i) \subseteq {disk.inode[i].parent}
  BY <1>1, <1>2, <1>3 DEF NamesAgree
<1> QED  BY <1>4, <1>5, <1>6, <1>7, <1>8

LEMMA CrashInvHolds ==
  ASSUME CrashInv
  PROVE  /\ ListedOnDisk /\ ParentsOnDisk /\ BlocksOnDisk /\ CountOnDisk /\ Durable
<1>1. disk \in Image /\ Sound(disk) /\ (~unlinking => Counts(disk, restarts + 1))
  BY DiskIsSound
<1>2. NamesAgree(disk.inode, disk.dirent, disk.inode_bitmap, 0)
  BY <1>1 DEF Sound
<1>3. ASSUME NEW d \in Inodes, NEW s \in OnDisk!Children(d)
      PROVE  /\ s \in Slots /\ OnDisk!Entry(d, s) \in Inodes
             /\ Holds(disk.inode, disk.dirent, d, s, OnDisk!Entry(d, s))
  BY <1>1, HoldsOnDisk
<1>4. ListedOnDisk
  BY <1>2, <1>3 DEF ListedOnDisk, OnDisk!ListedAllocated, OnDisk!Inodes, Inodes, NamesAgree
<1>5. ParentsOnDisk
  BY <1>2, <1>3 DEF ParentsOnDisk, OnDisk!EntryAgreesWithParent, OnDisk!Inodes, Inodes, NamesAgree
<1>6. BlocksOnDisk
  <2>1. \A i : OnDisk!Owned(i) = OwnedIn(disk.inode, i)
    BY DEF OnDisk!Owned, OwnedIn, OnDisk!NONE, NONE
  <2>2. \A i \in NamedOnDisk : i \in Inodes /\ Live(disk, i)
    BY <1>1, NamesOnDisk DEF Live
  <2> QED  BY <1>1, <2>1, <2>2 DEF BlocksOnDisk, Sound, BlocksApart
<1>7. CountOnDisk
  <2>1. SUFFICES ASSUME ~unlinking, NEW i \in NamedOnDisk
                 PROVE  /\ LinksOnDisk(i) # {} => i \in disk.inode_bitmap /\ disk.inode[i].type = "FILE"
                        /\ disk.inode[i].type = "FILE" =>
                             disk.inode[i].link_count >= Cardinality(LinksOnDisk(i)) + Cardinality(OnDisk!ListedIn(i))
    BY DEF CountOnDisk
  <2>2. /\ i \in Inodes /\ Reached(disk, i) /\ LinksOnDisk(i) = NamedLinks(disk.inode, disk.dirent, i)
        /\ OnDisk!ListedIn(i) \subseteq {disk.inode[i].parent}
        /\ OnDisk!ListedIn(i) # {} => One(disk, i) = 1
    BY <1>1, NamesOnDisk DEF One
  <2>3. LinksOnDisk(i) # {} => i \in disk.inode_bitmap /\ disk.inode[i].type = "FILE"
    BY <1>1, <2>2, LinkedIsFile DEF Sound
  <2>4. Cardinality(OnDisk!ListedIn(i)) <= One(disk, i)
    <3>1. CASE OnDisk!ListedIn(i) = {}
      BY <3>1, FS_EmptySet DEF One
    <3>2. CASE OnDisk!ListedIn(i) # {}
      <4>1. OnDisk!ListedIn(i) = {disk.inode[i].parent}
        BY <2>2, <3>2
      <4>2. Cardinality(OnDisk!ListedIn(i)) = 1
        BY <4>1, FS_Singleton
      <4> QED  BY <2>2, <3>2, <4>2
    <3> QED  BY <3>1, <3>2
  <2>5. ASSUME disk.inode[i].type = "FILE"
        PROVE  disk.inode[i].link_count >= Cardinality(LinksOnDisk(i)) + Cardinality(OnDisk!ListedIn(i))
    <3> DEFINE k == disk.inode[i].link_count  a == Cardinality(NamedLinks(disk.inode, disk.dirent, i))
               o == One(disk, i)  l == Cardinality(OnDisk!ListedIn(i))
    <3>1. k >= a + o
      BY <1>1, <2>1, <2>2, <2>5 DEF Counts
    <3>2. k \in Nat /\ a \in Nat /\ o \in Nat
      BY <1>1, <2>2, NumbersType
    <3>3. l <= o /\ l \in Nat
      <4>1. IsFiniteSet(OnDisk!ListedIn(i))
        <5> DEFINE parent == disk.inode[i].parent  listed == OnDisk!ListedIn(i)
        <5>1. listed \subseteq {parent}
          BY <2>2
        <5> HIDE DEF parent, listed
        <5>2. IsFiniteSet({parent})
          BY FS_Singleton
        <5>3. IsFiniteSet(listed)
          BY <5>1, <5>2, FS_Subset
        <5> QED  BY <5>3 DEF listed
      <4> QED  BY <2>4, <4>1, FS_CardinalityType
    <3>4. LinksOnDisk(i) = NamedLinks(disk.inode, disk.dirent, i)
      BY <2>2
    <3> HIDE DEF k, a, o, l
    <3>5. k >= a + l
      BY <3>1, <3>2, <3>3
    <3> QED  BY <3>4, <3>5 DEF k, a, l
  <2> QED  BY <2>3, <2>5
<1>8. Durable
  <2>1. SUFFICES ASSUME pending = <<>>
                 PROVE  /\ disk.inode_bitmap = inode_bitmap /\ disk.block_bitmap = block_bitmap
                        /\ disk.dirent = dirent
                        /\ \A i \in (inode_bitmap \cup {0}) \ dirty : disk.inode[i] = inode[i]
    BY DEF Durable
  <2>2. Agrees(disk, Memory, dirty)
    BY <2>1, AtRest
  <2> QED  BY <2>2, MemoryFields DEF Agrees
<1> QED  BY <1>4, <1>5, <1>6, <1>7, <1>8

-----------------------------------------------------------------------------
(* For a user who makes hard links to files only and removes neither the     *)
(* current directory nor the root, with no power cut in the middle of an     *)
(* unlink and room in a link count for one more link each power cut.         *)

(* Before every sector that a command writes, what is on the disk is a file  *)
(* system that fs_mount can read, and what the command still writes leads it *)
(* to the one in memory.                                                     *)
THEOREM WritesStayATrail ==
  ASSUME LinkTargets \subseteq {"FILE"}, BusyRmdir = FALSE, UnlinkCut = FALSE,
         MAX_INODES + MAX_RESTARTS < LINK_MOD
  PROVE  TransferSpec => []CrashInv
<1>1. CrashInv /\ [TransferNext]_transferVars => CrashInv'
  BY CrashStep
<1> QED  BY <1>1, InitCrash, PTL DEF TransferSpec

(* Wherever the power goes, no directory on the disk names an inode that     *)
(* alloc_inode would hand out after the restart.                             *)
THEOREM ListedStayOnDisk ==
  ASSUME LinkTargets \subseteq {"FILE"}, BusyRmdir = FALSE, UnlinkCut = FALSE,
         MAX_INODES + MAX_RESTARTS < LINK_MOD
  PROVE  TransferSpec => []ListedOnDisk
<1>1. CrashInv => ListedOnDisk
  BY CrashInvHolds
<1> QED  BY <1>1, WritesStayATrail, PTL

(* create_inode and its like save an inode before the entry that leads to    *)
(* it: no entry on the disk leads to an inode from before it was made.       *)
THEOREM ParentsStayOnDisk ==
  ASSUME LinkTargets \subseteq {"FILE"}, BusyRmdir = FALSE, UnlinkCut = FALSE,
         MAX_INODES + MAX_RESTARTS < LINK_MOD
  PROVE  TransferSpec => []ParentsOnDisk
<1>1. CrashInv => ParentsOnDisk
  BY CrashInvHolds
<1> QED  BY <1>1, WritesStayATrail, PTL

(* alloc_block saves the bitmap before the inode that takes the block, and   *)
(* fs_remove_file the entry before the bitmap that frees it: after a restart *)
(* no two files that a path leads to share a block, and all are marked.      *)
THEOREM BlocksStayOnDisk ==
  ASSUME LinkTargets \subseteq {"FILE"}, BusyRmdir = FALSE, UnlinkCut = FALSE,
         MAX_INODES + MAX_RESTARTS < LINK_MOD
  PROVE  TransferSpec => []BlocksOnDisk
<1>1. CrashInv => BlocksOnDisk
  BY CrashInvHolds
<1> QED  BY <1>1, WritesStayATrail, PTL

(* fs_create_hardlink saves the count before the link and fs_remove_file     *)
(* lowers it after the entry is gone: the count on the disk covers the names *)
(* there, so that rm and unlink after a restart free no file with a name.    *)
THEOREM CountsStayOnDisk ==
  ASSUME LinkTargets \subseteq {"FILE"}, BusyRmdir = FALSE, UnlinkCut = FALSE,
         MAX_INODES + MAX_RESTARTS < LINK_MOD
  PROVE  TransferSpec => []CountOnDisk
<1>1. CrashInv => CountOnDisk
  BY CrashInvHolds
<1> QED  BY <1>1, WritesStayATrail, PTL

(* When a command returns to the shell the bitmaps, the directories and all  *)
(* inodes that a write did not leave dirty are on the disk as in memory.     *)
THEOREM ReturnedStaysDurable ==
  ASSUME LinkTargets \subseteq {"FILE"}, BusyRmdir = FALSE, UnlinkCut = FALSE,
         MAX_INODES + MAX_RESTARTS < LINK_MOD
  PROVE  TransferSpec => []Durable
<1>1. CrashInv => Durable
  BY CrashInvHolds
<1> QED  BY <1>1, WritesStayATrail, PTL

-----------------------------------------------------------------------------
(* What the sectors that a call writes hold                                  *)

(* S has the sectors of memory as the call leaves it.                        *)
Permits(S) ==
  /\ \A i \in Inodes : InodeSector(i, inode'[i]) \in S
  /\ \A b \in Blocks : DirSector(b) \in S
  /\ \A B \in SUBSET Inodes : InodeBitmap(B) \in S
  /\ \A B \in SUBSET Blocks : BlockBitmap(B) \in S

LEMMA MarksOf ==
  ASSUME TypeOK, NEW S, Permits(S), NEW B \in SUBSET Blocks
  PROVE  Allocations(B) \in Seq(S) /\ Releases(B) \in Seq(S)
<1> DEFINE n == Cardinality(B)
<1>1. n \in Nat /\ \A k : Lowest(k, B) \subseteq B
  BY LowestCounts
<1>2. \A k : BlockBitmap(block_bitmap \cup Lowest(k, B)) \in S /\ BlockBitmap(block_bitmap \ Lowest(k, B)) \in S
  BY <1>1 DEF Permits, TypeOK
<1> DEFINE more(k) == BlockBitmap(block_bitmap \cup Lowest(k, B))
           less(k) == BlockBitmap(block_bitmap \ Lowest(k, B))
<1>3. /\ Allocations(B) = [k \in 1 .. n |-> more(k)] /\ Releases(B) = [k \in 1 .. n |-> less(k)]
      /\ \A k \in 1 .. n : more(k) \in S /\ less(k) \in S
  BY <1>2 DEF Allocations, Releases
<1> HIDE DEF n, more, less
<1>4. [k \in 1 .. n |-> more(k)] \in Seq(S) /\ [k \in 1 .. n |-> less(k)] \in Seq(S)
  BY <1>1, <1>3
<1> QED  BY <1>3, <1>4

(* A call enters the new inode id, filled in as in ino, in dir.              *)
Enrols(ino, id, dir) ==
  /\ id \in FreeInodes /\ id = Least(FreeInodes) /\ dir \in Named
  /\ ino \in [Inodes -> InodeRec] /\ AddChild(ino, dir, id) /\ ino[id].parent = dir
  /\ \A j \in Inodes : ino[j].blocks \subseteq inode[j].blocks
  /\ \A j \in Inodes \ {id} :
       /\ ino[j].type = inode[j].type /\ ino[j].blocks = inode[j].blocks
       /\ ino[j].first_child_block = inode[j].first_child_block

LEMMA EntryAddedOf ==
  ASSUME TypeOK, TypeOK', NEW S, Permits(S), NEW d \in Inodes, NEW c,
         NEW ino \in [Inodes -> InodeRec], AddChild(ino, d, c)
  PROVE  EntryAdded(d) \in Seq(S)
<1>1. \/ dirent' = dirent /\ block_bitmap' = block_bitmap
      \/ inode'[d].first_child_block \in Blocks
  <2>1. ino[d].first_child_block \in Blocks \cup {NONE}
    BY DEF InodeRec
  <2>2. ASSUME NEW b \in FreeBlocks, inode' = [ino EXCEPT ![d].first_child_block = b]
        PROVE  inode'[d].first_child_block \in Blocks
    BY <2>2 DEF FreeBlocks, InodeRec
  <2>3. CASE ino[d].first_child_block # NONE /\ inode' = ino
    BY <2>1, <2>3
  <2> QED  BY <2>2, <2>3 DEF AddChild
<1>2. CASE inode'[d].first_child_block \in Blocks
  <2>1. Allocations(block_bitmap' \ block_bitmap) \in Seq(S)
    <3>1. block_bitmap' \ block_bitmap \in SUBSET Blocks
      BY DEF TypeOK
    <3> QED  BY <3>1, MarksOf
  <2>2. <<DirSector(inode'[d].first_child_block), InodeSector(d, inode'[d])>> \in Seq(S)
    BY <1>2 DEF Permits
  <2>3. <<>> \in Seq(S)
    OBVIOUS
  <2> QED  BY <2>1, <2>2, <2>3, ConcatProperties DEF EntryAdded
<1> QED  BY <1>1, <1>2 DEF EntryAdded

LEMMA EntryRemovedOf ==
  ASSUME TypeOK, NEW S, Permits(S), NEW d \in Inodes
  PROVE  EntryRemoved(d) \in Seq(S)
<1>1. inode[d].first_child_block \in Blocks \cup {NONE}
  BY DEF TypeOK, InodeRec
<1> QED  BY <1>1 DEF EntryRemoved, Permits

LEMMA MadeOf ==
  ASSUME TypeOK, TypeOK', NEW S, Permits(S), NEW ino, NEW id, NEW dir, Enrols(ino, id, dir)
  PROVE  /\ MadeWrites \in Seq(S)
         /\ LET t == inode'[id].target_inode
            IN  InodeSector(t, [inode'[t] EXCEPT !.first_child_block = inode[t].first_child_block]) \in S
                  => LinkWrites \in Seq(S)
<1>1. id \in Inodes /\ dir \in Inodes /\ inode_bitmap' \in SUBSET Inodes
  BY NamedType DEF Enrols, FreeInodes, TypeOK
<1>2. inode'[id].parent = dir
  BY <1>1 DEF Enrols, AddChild, InodeRec
<1>3. EntryAdded(dir) \in Seq(S)
  BY <1>1, EntryAddedOf DEF Enrols
<1>4. InodeBitmap(inode_bitmap') \in S /\ InodeSector(id, inode'[id]) \in S
  BY <1>1 DEF Permits
<1>5. Least(FreeInodes) = id
  BY DEF Enrols
<1> DEFINE t == inode'[id].target_inode
           w == InodeSector(t, [inode'[t] EXCEPT !.first_child_block = inode[t].first_child_block])
<1>6. MadeWrites \in Seq(S)
  <2>1. <<InodeBitmap(inode_bitmap'), InodeSector(id, inode'[id])>> \in Seq(S)
    BY <1>4
  <2> QED  BY <1>2, <1>3, <1>5, <2>1, ConcatProperties DEF MadeWrites
<1>7. ASSUME w \in S  PROVE LinkWrites \in Seq(S)
  <2>1. <<InodeBitmap(inode_bitmap'), w, InodeSector(id, inode'[id])>> \in Seq(S)
    BY <1>4, <1>7
  <2> QED  BY <1>2, <1>3, <1>5, <2>1, ConcatProperties DEF LinkWrites
<1> QED  BY <1>6, <1>7

LEMMA DataOf ==
  ASSUME TypeOK, TypeOK', NEW S, Permits(S), NEW i \in Inodes, NEW n
  PROVE  DataWrites(i, n) \in Seq(S)
<1>1. block_bitmap' \ block_bitmap \in SUBSET Blocks
  BY DEF TypeOK
<1>2. Allocations(block_bitmap' \ block_bitmap) \in Seq(S)
  BY <1>1, MarksOf
<1>3. (IF Complete(i, n) THEN <<InodeSector(i, inode'[i])>> ELSE <<>>) \in Seq(S)
  BY DEF Permits
<1> QED  BY <1>2, <1>3, ConcatProperties DEF DataWrites

LEMMA RemovalOf ==
  ASSUME TypeOK, TypeOK', NEW S, Permits(S), NEW id \in Inodes
  PROVE  /\ RemoveWrites(id) \in Seq(S) /\ RmdirWrites(id) \in Seq(S)
         /\ LET t == inode[id].target_inode
            IN  InodeSector(t, [inode[t] EXCEPT !.link_count = inode'[t].link_count]) \in S
                  => UnlinkWrites(id) \in Seq(S)
<1>1. inode[id].parent \in Inodes /\ inode_bitmap' \in SUBSET Inodes /\ inode_bitmap \ {id} \in SUBSET Inodes
      /\ block_bitmap \ block_bitmap' \in SUBSET Blocks
  BY DEF TypeOK, InodeRec
<1>2. EntryRemoved(inode[id].parent) \in Seq(S)
  BY <1>1, EntryRemovedOf
<1>3. Releases(block_bitmap \ block_bitmap') \in Seq(S)
  BY <1>1, MarksOf
<1>4. /\ <<InodeSector(id, inode'[id])>> \in Seq(S) /\ <<InodeBitmap(inode_bitmap')>> \in Seq(S)
      /\ <<InodeBitmap(inode_bitmap \ {id})>> \in Seq(S) /\ <<>> \in Seq(S)
  BY <1>1 DEF Permits
<1> DEFINE t == inode[id].target_inode
           w == InodeSector(t, [inode[t] EXCEPT !.link_count = inode'[t].link_count])
<1>5. RmdirWrites(id) \in Seq(S)
  BY <1>2, <1>4, ConcatProperties DEF RmdirWrites
<1>6. RemoveWrites(id) \in Seq(S)
  <2> DEFINE first == EntryRemoved(inode[id].parent) \o Releases(block_bitmap \ block_bitmap')
             last == IF inode[id].type = "FILE" /\ inode[id].link_count > 0
                     THEN <<InodeSector(id, inode'[id])>> ELSE <<InodeBitmap(inode_bitmap')>>
  <2>1. first \in Seq(S)
    BY <1>2, <1>3, ConcatProperties
  <2>2. last \in Seq(S)
    BY <1>4
  <2>3. RemoveWrites(id) = first \o last
    BY DEF RemoveWrites
  <2> HIDE DEF first, last
  <2> QED  BY <2>1, <2>2, <2>3, ConcatProperties
<1>7. ASSUME w \in S  PROVE UnlinkWrites(id) \in Seq(S)
  <2> DEFINE a == EntryRemoved(inode[id].parent)
             b == <<InodeBitmap(inode_bitmap \ {id})>>
             c == Releases(block_bitmap \ block_bitmap')
             e == IF inode'[t].link_count = 0 THEN <<InodeBitmap(inode_bitmap')>> ELSE <<>>
  <2>1. <<w>> \in Seq(S) /\ e \in Seq(S)
    BY <1>4, <1>7
  <2>2. UnlinkWrites(id) = <<w>> \o a \o b \o c \o e
    BY DEF UnlinkWrites
  <2>3. a \in Seq(S) /\ b \in Seq(S) /\ c \in Seq(S)
    BY <1>2, <1>3, <1>4
  <2> DEFINE v == <<w>>
  <2>4. v \in Seq(S)
    BY <2>1
  <2> HIDE DEF a, b, c, e, v
  <2>5. v \o a \in Seq(S)
    BY <2>3, <2>4, ConcatProperties
  <2>6. v \o a \o b \in Seq(S)
    BY <2>3, <2>5, ConcatProperties
  <2>7. v \o a \o b \o c \in Seq(S)
    BY <2>3, <2>6, ConcatProperties
  <2>8. v \o a \o b \o c \o e \in Seq(S)
    BY <2>1, <2>7, ConcatProperties
  <2> QED  BY <2>2, <2>8 DEF v
<1> QED  BY <1>5, <1>6, <1>7

(* The lowest n of a set are n at most. *)
LEMMA LowestAreFew ==
  ASSUME NEW S \in SUBSET Blocks, NEW n \in Int
  PROVE  Cardinality(Lowest(n, S)) <= (IF n > 0 THEN n ELSE 0)
<1> DEFINE L == Lowest(n, S)  Below(m) == {k \in S : k < m}
<1>1. /\ L \subseteq S /\ IsFiniteSet(S) /\ S \subseteq Blocks
      /\ \A m \in L : Cardinality(Below(m)) < n
  BY LowestCounts DEF Lowest
<1>2. CASE L = {}
  BY <1>2, FS_EmptySet
<1>3. CASE L # {}
  <2> HIDE DEF L
  <2>1. L \in SUBSET (0 .. TOTAL_BLOCKS) /\ TOTAL_BLOCKS \in Nat
    BY <1>1, MfsAssumption DEF Blocks, MfsAssumption
  <2>2. PICK m \in L : \A k \in L : m >= k
    BY <1>3, <2>1, GreatestExists
  <2> DEFINE B == Below(m)
  <2>3. L \ {m} \in SUBSET B /\ B \in SUBSET S
    BY <1>1, <2>1, <2>2
  <2>4. Cardinality(B) < n
    BY <1>1, <2>2
  <2> HIDE DEF B
  <2>5. IsFiniteSet(B) /\ IsFiniteSet(L)
    BY <1>1, <2>3, FS_Subset
  <2>6. Cardinality(L \ {m}) <= Cardinality(B)
    BY <2>3, <2>5, FS_Subset
  <2>7. Cardinality(L \ {m}) = Cardinality(L) - 1
    BY <2>2, <2>5, FS_RemoveElement
  <2>8. Cardinality(B) \in Nat /\ Cardinality(L) \in Nat
    BY <2>5, FS_CardinalityType
  <2>9. Cardinality(L) <= n /\ n > 0
    BY <2>4, <2>6, <2>7, <2>8
  <2> QED  BY <2>9 DEF L
<1> QED  BY <1>2, <1>3

-----------------------------------------------------------------------------
(* No file has more direct blocks than an inode has room for.                *)

Slim(record) == Cardinality(record.blocks) <= MAX_BLOCKS_PER_FILE

SlimSectors == {w \in Sectors(Inodes) : w.of = "inode" => Slim(w.record)}

SlimInv ==
  /\ \A i \in Inodes : Slim(inode[i]) /\ Slim(disk.inode[i])
  /\ pending \in Seq(SlimSectors)

LEMMA Slimmer ==
  ASSUME NEW q, NEW p, p.blocks \in SUBSET Blocks, q.blocks \subseteq p.blocks, Slim(p)
  PROVE  Slim(q)
<1>1. IsFiniteSet(p.blocks) /\ Cardinality(p.blocks) \in Nat
  BY LowestCounts
<1>2. Cardinality(q.blocks) <= Cardinality(p.blocks) /\ Cardinality(q.blocks) \in Nat
  BY <1>1, FS_Subset, FS_CardinalityType
<1> QED  BY <1>1, <1>2, MfsAssumption DEF Slim, MfsAssumption

LEMMA PermitsSlim ==
  ASSUME TypeOK', \A i \in Inodes : Slim(inode'[i])
  PROVE  Permits(SlimSectors)
<1>1. \A i \in Inodes : inode'[i] \in InodeRec
  BY DEF TypeOK
<1>2. /\ \A i \in Inodes : InodeSector(i, inode'[i]) \in Sectors(Inodes)
      /\ \A B \in SUBSET Inodes : InodeBitmap(B) \in Sectors(Inodes)
      /\ \A B \in SUBSET Blocks : BlockBitmap(B) \in Sectors(Inodes)
      /\ \A b \in Blocks : DirSector(b) \in Sectors(Inodes)
  BY <1>1, SectorTypes
<1> QED  BY <1>2 DEF Permits, SlimSectors, InodeSector, DirSector, InodeBitmap, BlockBitmap

LEMMA SlimRecord ==
  ASSUME NEW i \in Inodes, NEW q \in InodeRec, Slim(q)
  PROVE  InodeSector(i, q) \in SlimSectors
<1>1. InodeSector(i, q) \in Sectors(Inodes)
  BY SectorTypes
<1> QED  BY <1>1 DEF SlimSectors, InodeSector

LEMMA WriteStaysSlim ==
  ASSUME TypeOK, \A i \in Inodes : Slim(inode[i]), NEW i \in Inodes, NEW n \in Nat, WriteData(i, n)
  PROVE  \A j \in Inodes : Slim(inode'[j])
<1> DEFINE limit  == MAX_BLOCKS_PER_FILE + INDIRECT_SLOTS
           last   == IF n < limit THEN n ELSE limit
           near   == (IF last < MAX_BLOCKS_PER_FILE THEN last ELSE MAX_BLOCKS_PER_FILE)
                       - Cardinality(inode[i].blocks)
<1>1. inode[i] \in InodeRec /\ inode[i].blocks \in SUBSET Blocks
  BY DEF TypeOK, InodeRec
<1>2. IsFiniteSet(inode[i].blocks) /\ Cardinality(inode[i].blocks) \in Nat
  BY <1>1, LowestCounts
<1>3. PICK got \in SUBSET Blocks :
        inode' = [inode EXCEPT ![i] =
                    [@ EXCEPT !.size = Larger(inode[i].size, n),
                              !.blocks = inode[i].blocks \cup Lowest(near, got),
                              !.far = inode[i].far \cup (got \ Lowest(near, got))]]
  BY DEF WriteData, Lowest, FreeBlocks
<1>4. near \in Int /\ Cardinality(inode[i].blocks) + (IF near > 0 THEN near ELSE 0) <= MAX_BLOCKS_PER_FILE
  BY <1>2, MfsAssumption DEF MfsAssumption, Slim
<1> HIDE DEF near
<1> DEFINE direct == Lowest(near, got)
<1>5. direct \subseteq Blocks /\ Cardinality(direct) <= (IF near > 0 THEN near ELSE 0)
      /\ IsFiniteSet(direct) /\ Cardinality(direct) \in Nat
  <2>1. direct \subseteq got
    BY LowestCounts
  <2>2. direct \in SUBSET Blocks
    BY <2>1
  <2> QED  BY <1>4, <2>2, LowestAreFew, LowestCounts
<1>6. inode'[i].blocks = inode[i].blocks \cup direct /\ \A j \in Inodes \ {i} : inode'[j] = inode[j]
  BY <1>1, <1>3 DEF TypeOK, InodeRec
<1> HIDE DEF direct
<1>7. Cardinality(inode[i].blocks \cup direct) <= Cardinality(inode[i].blocks) + Cardinality(direct)
  <2> DEFINE A == inode[i].blocks
  <2>1. IsFiniteSet(A)
    BY <1>2
  <2> HIDE DEF A
  <2>2. Cardinality(A \cup direct) = Cardinality(A) + Cardinality(direct) - Cardinality(A \cap direct)
    BY <1>5, <2>1, FS_Union
  <2>3. A \cap direct \in SUBSET A
    OBVIOUS
  <2>4. Cardinality(A \cap direct) \in Nat /\ Cardinality(A) \in Nat
    BY <2>1, <2>3, FS_Subset, FS_CardinalityType
  <2>5. Cardinality(A \cup direct) <= Cardinality(A) + Cardinality(direct)
    BY <1>5, <2>2, <2>4
  <2> QED  BY <2>5 DEF A
<1>8. Cardinality(inode[i].blocks \cup direct) <= MAX_BLOCKS_PER_FILE
  <2>1. inode[i].blocks \cup direct \in SUBSET Blocks
    BY <1>1, <1>5
  <2>2. Cardinality(inode[i].blocks \cup direct) \in Nat
    BY <2>1, LowestCounts
  <2> QED  BY <1>2, <1>4, <1>5, <1>7, <2>2, MfsAssumption DEF MfsAssumption
<1> QED  BY <1>6, <1>8 DEF Slim

(* What makes a new inode enrols it. *)
LEMMA MakingEnrols ==
  ASSUME TreeInv, NEW p \in Paths, CreateFile(p) \/ CreateDir(p) \/ (\E t \in SymlinkTexts : CreateSymlink(t, p))
  PROVE  \E ino, id, dir : Enrols(ino, id, dir)
<1>1. TypeOK /\ At(DirPart(p)) \subseteq Named /\ BasePart(p) \in Stored
  BY PathsLeadToNames, StoredName DEF TreeInv
<1>2. PICK dir \in At(DirPart(p)), id \in FreeInodes, type \in NodeType, count \in 0 .. LINK_MOD - 1, link \in Path :
        /\ id = Least(FreeInodes)
        /\ AddChild(NewInode(id, BasePart(p), type, dir, count, link, inode[id].target_inode), dir, id)
  <2>1. CASE CreateFile(p) \/ CreateDir(p)
    <3>1. PICK dir \in At(DirPart(p)), type \in {"FILE", "DIR"} : Create(BasePart(p), type, dir)
      BY <2>1 DEF CreateFile, CreateDir
    <3>2. PICK id \in FreeInodes :
            /\ id = Least(FreeInodes)
            /\ AddChild(NewInode(id, BasePart(p), type, dir, IF type = "FILE" THEN 1 ELSE 0,
                                 inode[id].symlink_target, inode[id].target_inode), dir, id)
      BY <3>1 DEF Create
    <3>3. (IF type = "FILE" THEN 1 ELSE 0) \in 0 .. LINK_MOD - 1 /\ type \in NodeType
      BY MfsAssumption DEF MfsAssumption, NodeType
    <3>4. inode[id].symlink_target \in Path
      BY <1>1 DEF FreeInodes, TypeOK, InodeRec
    <3> QED  BY <3>2, <3>3, <3>4
  <2>2. ASSUME NEW t \in SymlinkTexts, CreateSymlink(t, p)
        PROVE  \E dir \in At(DirPart(p)), id \in FreeInodes, type \in NodeType, count \in 0 .. LINK_MOD - 1, link \in Path :
                 /\ id = Least(FreeInodes)
                 /\ AddChild(NewInode(id, BasePart(p), type, dir, count, link, inode[id].target_inode), dir, id)
    <3>1. PICK dir \in At(DirPart(p)), id \in FreeInodes :
            /\ id = Least(FreeInodes)
            /\ AddChild(NewInode(id, BasePart(p), "SYMLINK", dir, inode[id].link_count,
                                 t, inode[id].target_inode), dir, id)
      BY <2>2 DEF CreateSymlink
    <3>2. inode[id].link_count \in 0 .. LINK_MOD - 1 /\ "SYMLINK" \in NodeType /\ t \in Path
      BY <1>1, MfsAssumption DEF FreeInodes, TypeOK, InodeRec, NodeType, MfsAssumption
    <3> QED  BY <3>1, <3>2
  <2> QED  BY <2>1, <2>2
<1> DEFINE ino == NewInode(id, BasePart(p), type, dir, count, link, inode[id].target_inode)
<1>3. dir \in Named /\ dir \in Inodes /\ id \in Inodes /\ inode[id].target_inode \in Inodes
  BY <1>1, NamedType DEF FreeInodes, TypeOK, InodeRec
<1>4. /\ ino \in [Inodes -> InodeRec]
      /\ \A i \in Inodes \ {id} : ino[i] = inode[i]
      /\ ino[id].parent = dir /\ ino[id].blocks = {}
  BY <1>1, <1>3, NewInodeIs
<1>5. AddChild(ino, dir, id)
  BY <1>2
<1> HIDE DEF ino
<1>6. \A j \in Inodes : ino[j].blocks \subseteq inode[j].blocks
  BY <1>4
<1>7. Enrols(ino, id, dir)
  BY <1>2, <1>3, <1>4, <1>5, <1>6 DEF Enrols
<1> QED  BY <1>7

LEMMA LinkingEnrols ==
  ASSUME TreeInv, NEW p \in Paths, NEW t \in Paths, CreateHardlink(t, p)
  PROVE  \E ino, id, dir : Enrols(ino, id, dir) /\ ino[id].target_inode \in Inodes
<1>1. TypeOK /\ At(DirPart(p)) \subseteq Named /\ BasePart(p) \in Stored
  BY PathsLeadToNames, StoredName DEF TreeInv
<1>2. PICK target \in At(t), dir \in At(DirPart(p)), id \in FreeInodes :
        LET new == NewInode(id, BasePart(p), "HARDLINK", dir, inode[id].link_count,
                            inode[id].symlink_target, target)
            links == (new[target].link_count + 1) % LINK_MOD
        IN  /\ id = Least(FreeInodes)
            /\ AddChild([new EXCEPT ![target].link_count = links], dir, id)
  BY DEF CreateHardlink
<1> DEFINE new == NewInode(id, BasePart(p), "HARDLINK", dir, inode[id].link_count,
                           inode[id].symlink_target, target)
           links == (new[target].link_count + 1) % LINK_MOD
           ino == [new EXCEPT ![target].link_count = links]
<1>3. dir \in Named /\ dir \in Inodes /\ id \in Inodes /\ target \in Inodes /\ inode[id] \in InodeRec
  BY <1>1, NamedType DEF FreeInodes, TypeOK, At
<1>4. /\ inode[id].link_count \in 0 .. LINK_MOD - 1 /\ "HARDLINK" \in NodeType
      /\ inode[id].symlink_target \in Path
  BY <1>3 DEF InodeRec, NodeType
<1>5. /\ new \in [Inodes -> InodeRec]
      /\ \A i \in Inodes \ {id} : new[i] = inode[i]
      /\ new[id].parent = dir /\ new[id].blocks = {} /\ new[id].target_inode = target
  BY <1>1, <1>3, <1>4, NewInodeIs
<1>6. AddChild(ino, dir, id) /\ id = Least(FreeInodes)
  BY <1>2
<1> HIDE DEF new
<1>7. new[target] \in InodeRec /\ new[target].link_count \in Nat
  BY <1>3, <1>5 DEF InodeRec
<1>8. links \in 0 .. LINK_MOD - 1
  BY <1>7, MfsAssumption DEF MfsAssumption
<1> HIDE DEF links
<1>9. ino \in [Inodes -> InodeRec]
  BY <1>3, <1>5, <1>7, <1>8, SetLinkCount
<1>10. ASSUME NEW j \in Inodes
       PROVE  /\ ino[j].blocks = new[j].blocks /\ ino[j].type = new[j].type /\ ino[j].parent = new[j].parent
              /\ ino[j].first_child_block = new[j].first_child_block
              /\ ino[j].target_inode = new[j].target_inode
  <2>1. new[j] \in InodeRec
    BY <1>5
  <2> QED  BY <1>3, <1>5, <2>1 DEF InodeRec
<1> HIDE DEF ino
<1>11. Enrols(ino, id, dir)
  BY <1>3, <1>5, <1>6, <1>9, <1>10 DEF Enrols
<1>12. ino[id].target_inode \in Inodes
  BY <1>3, <1>5, <1>10
<1> QED  BY <1>11, <1>12

(* What dir_add_child leaves of the inodes, and of those but the new one. *)
LEMMA EnrolledBlocks ==
  ASSUME TypeOK, NEW ino, NEW id, NEW dir, Enrols(ino, id, dir)
  PROVE  /\ \A j \in Inodes : inode'[j].blocks \subseteq inode[j].blocks
         /\ \A j \in Inodes \ {id} : inode'[j].blocks = inode[j].blocks /\ inode'[j].type = inode[j].type
         /\ \A j \in Inodes : inode'[j].target_inode = ino[j].target_inode
         /\ \A j \in Inodes \ {id} : \/ inode'[j].first_child_block = inode[j].first_child_block
                                     \/ inode[j].first_child_block = NONE
<1>1. ino \in [Inodes -> InodeRec] /\ dir \in Inodes
  BY NamedType DEF Enrols
<1>2. \A j \in Inodes : /\ inode'[j].blocks = ino[j].blocks /\ inode'[j].type = ino[j].type
                        /\ inode'[j].target_inode = ino[j].target_inode
                        /\ \/ inode'[j].first_child_block = ino[j].first_child_block
                           \/ ino[j].first_child_block = NONE
  <2>1. CASE inode' = ino
    BY <2>1
  <2>2. ASSUME NEW b, inode' = [ino EXCEPT ![dir].first_child_block = b], ino[dir].first_child_block = NONE
        PROVE  \A j \in Inodes : /\ inode'[j].blocks = ino[j].blocks /\ inode'[j].type = ino[j].type
                                 /\ inode'[j].target_inode = ino[j].target_inode
                                 /\ \/ inode'[j].first_child_block = ino[j].first_child_block
                                    \/ ino[j].first_child_block = NONE
    <3>1. \A j \in Inodes : ino[j] \in InodeRec
      BY <1>1
    <3> QED  BY <1>1, <2>2, <3>1 DEF InodeRec
  <2> QED  BY <2>1, <2>2 DEF Enrols, AddChild
<1> QED  BY <1>2 DEF Enrols

LEMMA CrashInvType ==
  /\ CrashInv => TypeOK /\ TreeInv /\ disk \in Image
  /\ CrashInv' => TypeOK'
<1>1. CrashInv => TypeOK /\ TreeInv
  BY DEF CrashInv, Kept, TreeInv
<1>2. CrashInv => disk \in Image
  <2>1. SUFFICES ASSUME CrashInv PROVE disk \in Image
    OBVIOUS
  <2>2. disk \in Between
    BY <2>1, TrailEnds DEF CrashInv
  <2> QED  BY <2>2 DEF Between, Whole, Safe
<1>3. CrashInv' => TypeOK'
  BY DEF CrashInv, Kept
<1> QED  BY <1>1, <1>2, <1>3

(* A call that leaves memory slim and writes what memory has. *)
LEMMA SlimGiven ==
  ASSUME SlimInv, \A i \in Inodes : Slim(inode'[i]), disk' = disk, pending' \in Seq(SlimSectors)
  PROVE  SlimInv'
<1>1. pending' \in Seq(SlimSectors)'
  BY DEF SlimSectors, Sectors, Slim
<1> QED  BY <1>1 DEF SlimInv, Slim

LEMMA SlimStays ==
  ASSUME TypeOK, \A i \in Inodes : Slim(inode[i]), \A i \in Inodes : inode'[i].blocks \subseteq inode[i].blocks
  PROVE  \A i \in Inodes : Slim(inode'[i])
<1>1. \A i \in Inodes : inode[i].blocks \in SUBSET Blocks
  BY DEF TypeOK, InodeRec
<1> QED  BY <1>1, Slimmer

LEMMA MadeSlim ==
  ASSUME CrashInv, CrashInv', SlimInv, NEW p \in Paths, NEW command,
         \/ /\ CreateFile(p) \/ CreateDir(p) \/ \E t \in SymlinkTexts : CreateSymlink(t, p)
            /\ Gives(command, MadeWrites, {})
         \/ /\ \E t \in Paths : CreateHardlink(t, p)
            /\ Gives(command, LinkWrites, {})
  PROVE  SlimInv'
<1>1. TypeOK /\ TypeOK' /\ TreeInv /\ disk' = disk
  BY CrashInvType DEF Gives
<1>2. PICK ino, id, dir :
        /\ Enrols(ino, id, dir)
        /\ \/ Gives(command, MadeWrites, {})
           \/ ino[id].target_inode \in Inodes /\ Gives(command, LinkWrites, {})
  BY <1>1, MakingEnrols, LinkingEnrols
<1>3. /\ \A j \in Inodes : inode'[j].blocks \subseteq inode[j].blocks
      /\ inode'[id].target_inode = ino[id].target_inode
  BY <1>1, <1>2, EnrolledBlocks DEF Enrols, FreeInodes
<1>4. \A i \in Inodes : Slim(inode'[i])
  BY <1>1, <1>3, SlimStays DEF SlimInv
<1>5. Permits(SlimSectors)
  BY <1>1, <1>4, PermitsSlim
<1>6. MadeWrites \in Seq(SlimSectors)
  BY <1>1, <1>2, <1>5, MadeOf
<1>7. ASSUME ino[id].target_inode \in Inodes
      PROVE  LinkWrites \in Seq(SlimSectors)
  <2> DEFINE t == inode'[id].target_inode
             q == [inode'[t] EXCEPT !.first_child_block = inode[t].first_child_block]
  <2>1. t \in Inodes
    BY <1>3, <1>7
  <2> HIDE DEF t
  <2>2. inode'[t] \in InodeRec /\ inode[t].first_child_block \in Blocks \cup {NONE} /\ Slim(inode'[t])
    BY <1>1, <1>4, <2>1 DEF TypeOK, InodeRec
  <2>3. q \in InodeRec /\ q.blocks = inode'[t].blocks
    BY <2>2 DEF InodeRec
  <2>4. Slim(q)
    BY <2>2, <2>3 DEF Slim
  <2> HIDE DEF q
  <2>5. InodeSector(t, q) \in SlimSectors
    BY <2>1, <2>3, <2>4, SlimRecord
  <2> QED  BY <1>1, <1>2, <1>5, <2>5, MadeOf DEF t, q
<1>8. pending' \in Seq(SlimSectors)
  BY <1>2, <1>6, <1>7 DEF Gives
<1> QED  BY <1>1, <1>4, <1>8, SlimGiven

LEMMA ChangedBlocks ==
  ASSUME \A i \in Inodes : inode[i] \in InodeRec, NEW t \in Inodes,
         \/ inode' = inode
         \/ \E c : inode' = [inode EXCEPT ![t].link_count = c]
         \/ inode' = [inode EXCEPT ![t].blocks = {}]
         \/ inode' = [inode EXCEPT ![t] = [@ EXCEPT !.link_count = 0, !.blocks = {}]]
  PROVE  \A i \in Inodes : /\ inode'[i].blocks \subseteq inode[i].blocks
                           /\ inode'[i].type = inode[i].type
                           /\ inode'[i].first_child_block = inode[i].first_child_block
<1>1. SUFFICES ASSUME NEW i \in Inodes
               PROVE  /\ inode'[i].blocks \subseteq inode[i].blocks
                      /\ inode'[i].type = inode[i].type
                      /\ inode'[i].first_child_block = inode[i].first_child_block
  OBVIOUS
<1>2. inode[i] \in InodeRec
  OBVIOUS
<1>3. CASE inode' = inode
  BY <1>3
<1>4. ASSUME NEW c, inode' = [inode EXCEPT ![t].link_count = c]
      PROVE  /\ inode'[i].blocks \subseteq inode[i].blocks
             /\ inode'[i].type = inode[i].type
             /\ inode'[i].first_child_block = inode[i].first_child_block
  BY <1>2, <1>4 DEF InodeRec
<1>5. CASE inode' = [inode EXCEPT ![t].blocks = {}]
  BY <1>2, <1>5 DEF InodeRec
<1>6. CASE inode' = [inode EXCEPT ![t] = [@ EXCEPT !.link_count = 0, !.blocks = {}]]
  BY <1>2, <1>6 DEF InodeRec
<1> QED  BY <1>3, <1>4, <1>5, <1>6

LEMMA RemovedSlim ==
  ASSUME CrashInv, CrashInv', SlimInv, NEW p \in Paths, NEW command,
         \/ RemoveFile(p) /\ Gives(command, RemoveWrites(Find(p)), {})
         \/ RemoveDir(p) /\ Gives(command, RmdirWrites(Find(p)), {})
         \/ Unlink(p) /\ Gives(command, UnlinkWrites(Find(p)), {})
  PROVE  SlimInv'
<1>1. TypeOK /\ TypeOK' /\ TreeInv /\ disk' = disk
  BY SMTT(30), CrashInvType DEF Gives
<1> DEFINE id == Find(p)
<1>2. id \in Inodes
  BY DEF RemoveFile, RemoveDir, Unlink, At
<1>3. inode[id].target_inode \in Inodes /\ \A i \in Inodes : inode[i] \in InodeRec
  BY <1>1, <1>2 DEF TypeOK, InodeRec
<1>4. \A i \in Inodes : inode'[i].blocks \subseteq inode[i].blocks
  <2>1. CASE RemoveFile(p)
    <3>1. \/ inode' = inode
          \/ \E c : inode' = [inode EXCEPT ![id].link_count = c]
          \/ inode' = [inode EXCEPT ![id].blocks = {}]
      BY <2>1 DEF RemoveFile, At, DropName, DropFile, DropSymlink
    <3> HIDE DEF id
    <3> QED  BY <1>2, <1>3, <3>1, ChangedBlocks
  <2>2. CASE RemoveDir(p)
    <3>1. inode' = [inode EXCEPT ![id] =
                      [@ EXCEPT !.type = "FILE", !.size = 0, !.blocks = {}, !.first_child_block = NONE]]
      BY <2>2 DEF RemoveDir, At
    <3> HIDE DEF id
    <3>2. ASSUME NEW i \in Inodes
          PROVE  inode'[i].blocks \subseteq inode[i].blocks
      <4>1. inode[i] \in InodeRec
        BY <1>3
      <4> QED  BY <1>2, <3>1, <4>1 DEF InodeRec
    <3> QED  BY <3>2
  <2>3. CASE Unlink(p)
    <3> DEFINE t == inode[id].target_inode
    <3>1. \/ \E c : inode' = [inode EXCEPT ![t].link_count = c]
          \/ inode' = [inode EXCEPT ![t] = [@ EXCEPT !.link_count = 0, !.blocks = {}]]
      BY <2>3 DEF Unlink, At
    <3>2. t \in Inodes
      BY <1>3
    <3> HIDE DEF t
    <3> QED  BY ZenonT(60), <1>3, <3>1, <3>2, ChangedBlocks
  <2> QED  BY <2>1, <2>2, <2>3
<1>5. \A i \in Inodes : Slim(inode'[i])
  BY <1>1, <1>4, SlimStays DEF SlimInv
<1>6. Permits(SlimSectors)
  BY <1>1, <1>5, PermitsSlim
<1> DEFINE t == inode[id].target_inode
           q == [inode[t] EXCEPT !.link_count = inode'[t].link_count]
<1>7. InodeSector(t, q) \in SlimSectors
  <2>1. inode[t] \in InodeRec /\ inode'[t] \in InodeRec /\ Slim(inode[t]) /\ t \in Inodes
    BY <1>1, <1>3 DEF TypeOK, SlimInv
  <2> HIDE DEF t
  <2>2. q \in InodeRec /\ q.blocks = inode[t].blocks
    BY <2>1 DEF InodeRec
  <2>3. Slim(q)
    BY <2>1, <2>2 DEF Slim
  <2> QED  BY <2>1, <2>2, <2>3, SlimRecord
<1> HIDE DEF id
<1>8. /\ RemoveWrites(id) \in Seq(SlimSectors) /\ RmdirWrites(id) \in Seq(SlimSectors)
      /\ UnlinkWrites(id) \in Seq(SlimSectors)
  BY <1>1, <1>2, <1>6, <1>7, RemovalOf
<1>9. pending' \in Seq(SlimSectors)
  BY <1>8 DEF Gives, id
<1> QED  BY <1>1, <1>5, <1>9, SlimGiven

LEMMA DataSlim ==
  ASSUME CrashInv, CrashInv', SlimInv, NEW i \in Inodes, NEW n \in Nat, WriteData(i, n),
         NEW command, NEW unsaved, Gives(command, DataWrites(i, n), unsaved)
  PROVE  SlimInv'
<1>1. TypeOK /\ TypeOK' /\ disk' = disk /\ pending' = DataWrites(i, n)
  BY CrashInvType DEF Gives
<1>2. \A j \in Inodes : Slim(inode'[j])
  BY <1>1, WriteStaysSlim DEF SlimInv
<1>3. DataWrites(i, n) \in Seq(SlimSectors)
  BY <1>1, <1>2, PermitsSlim, DataOf
<1> QED  BY <1>1, <1>2, <1>3, SlimGiven

(* dev_write of a sector. *)
LEMMA WrittenIs ==
  ASSUME disk \in Image, NEW S \in SUBSET Sectors(Inodes), pending \in Seq(S), Write
  PROVE  LET w == Head(pending)
         IN  /\ w \in S /\ disk' = Applied(disk, w) /\ pending' \in Seq(S)
             /\ \A i \in Inodes : \/ disk'.inode[i] = disk.inode[i]
                                  \/ w.of = "inode" /\ w.at = i /\ disk'.inode[i] = w.record
             /\ \A b \in Blocks : \/ disk'.dirent[b] = disk.dirent[b]
                                  \/ w.of = "dirent" /\ w.at = b /\ disk'.dirent[b] = w.entries
<1> DEFINE w == Head(pending)
<1>1. w \in S /\ Tail(pending) \in Seq(S) /\ w \in Sectors(Inodes)
  BY DEF Write
<1>2. disk' = Applied(disk, w) /\ pending' = Tail(pending)
  BY DEF Write, Written, Applied
<1> HIDE DEF w
<1>3. \A i \in Inodes : \/ Applied(disk, w).inode[i] = disk.inode[i]
                        \/ w.of = "inode" /\ w.at = i /\ Applied(disk, w).inode[i] = w.record
  <2>1. CASE w.of = "inode"
    BY <1>1, <2>1 DEF Applied, Image
  <2>2. CASE w.of # "inode"
    BY <1>1, <2>2 DEF Applied, Image, Sectors
  <2> QED  BY <2>1, <2>2
<1>4. \A b \in Blocks : \/ Applied(disk, w).dirent[b] = disk.dirent[b]
                        \/ w.of = "dirent" /\ w.at = b /\ Applied(disk, w).dirent[b] = w.entries
  <2>1. CASE w.of = "dirent"
    BY <1>1, <2>1 DEF Applied, Image
  <2>2. CASE w.of # "dirent"
    BY <1>1, <2>2 DEF Applied, Image, Sectors
  <2> QED  BY <2>1, <2>2
<1> QED  BY <1>1, <1>2, <1>3, <1>4 DEF w

LEMMA CommandSlim ==
  ASSUME CrashInv, CrashInv', SlimInv, Command
  PROVE  SlimInv'
<1>1. ASSUME NEW p \in Paths, CreateFile(p) /\ Gives("new", MadeWrites, {})
      PROVE  SlimInv'
  BY <1>1, MadeSlim
<1>2. ASSUME NEW p \in Paths, CreateDir(p) /\ Gives("newdir", MadeWrites, {})
      PROVE  SlimInv'
  BY <1>2, MadeSlim
<1>3. ASSUME NEW t \in SymlinkTexts, NEW p \in Paths, CreateSymlink(t, p) /\ Gives("symlink", MadeWrites, {})
      PROVE  SlimInv'
  BY <1>3, MadeSlim
<1>4. ASSUME NEW t \in Paths, NEW p \in Paths, CreateHardlink(t, p) /\ Gives("hlink", LinkWrites, {})
      PROVE  SlimInv'
  BY <1>4, MadeSlim
<1>5. ASSUME NEW p \in Paths, NEW n \in 1 .. MAX_WRITE, WriteFile(p, n),
             Gives("write", DataWrites(Resolve(Find(p)), n), IF inode' = inode THEN {} ELSE {Resolve(Find(p))})
      PROVE  SlimInv'
  <2>1. PICK i \in Inodes : i = Resolve(Find(p)) /\ WriteData(i, n)
    BY <1>5 DEF WriteFile, At
  <2>2. n \in Nat
    BY MfsAssumption DEF MfsAssumption
  <2> QED  BY <1>5, <2>1, <2>2, DataSlim
<1>6. ASSUME NEW p \in Paths,
             \/ RemoveFile(p) /\ Gives("rm", RemoveWrites(Find(p)), {})
             \/ RemoveDir(p) /\ Gives("rmdir", RmdirWrites(Find(p)), {})
             \/ Unlink(p) /\ Gives("unlink", UnlinkWrites(Find(p)), {})
      PROVE  SlimInv'
  BY <1>6, RemovedSlim
<1>7. ASSUME NEW p \in Paths, ChangeDir(p) /\ Gives("cd", <<>>, {})
      PROVE  SlimInv'
  <2>1. inode' = inode /\ disk' = disk /\ pending' = <<>>
    BY <1>7 DEF ChangeDir, Gives
  <2>2. \A i \in Inodes : Slim(inode'[i])
    BY <2>1 DEF SlimInv
  <2> QED  BY <2>1, <2>2, SlimGiven
<1> QED  BY <1>1, <1>2, <1>3, <1>4, <1>5, <1>6, <1>7 DEF Command, Typed

LEMMA SlimRests ==
  ASSUME SlimInv, UNCHANGED crashVars
  PROVE  SlimInv'
<1>1. inode' = inode /\ disk' = disk /\ pending' = pending
  BY DEF crashVars, vars
<1> QED  BY <1>1, SlimGiven DEF SlimInv

LEMMA SlimStep ==
  ASSUME CrashInv, CrashInv', SlimInv, [TransferNext]_transferVars
  PROVE  SlimInv'
<1>1. CASE Prompt
  <2>1. CASE Command
    BY <2>1, CommandSlim
  <2>2. ASSUME NEW command, NEW p \in Paths, NEW q \in Paths, StartTransfer(command, p, q)
        PROVE  SlimInv'
    BY <2>2, SlimRests DEF StartTransfer
  <2>3. ASSUME NEW p \in Paths, NEW n \in 0 .. 1, AppendFile(p, n)
        PROVE  SlimInv'
    <3>1. PICK i \in FileAt(p) : \E old \in Readable(i) .. inode[i].size : WriteCall(i, old + n)
      BY <2>3 DEF AppendFile
    <3>2. i \in Inodes /\ TypeOK
      BY CrashInvType DEF FileAt, At
    <3>3. PICK old \in Readable(i) .. inode[i].size : WriteCall(i, old + n)
      BY <3>1
    <3>4. old + n \in Nat
      BY <3>2, ReadableType
    <3> DEFINE m == old + n
    <3>5. m \in Nat /\ WriteCall(i, m)
      BY <3>3, <3>4
    <3> HIDE DEF m
    <3> QED  BY <3>2, <3>5, DataSlim DEF WriteCall, Keep
  <2> QED  BY <1>1, <2>1, <2>2, <2>3 DEF Prompt, Typed
<1>2. CASE CreateStep
  <2>1. JobType /\ job.step = "create"
    BY <1>2 DEF CrashInv, CreateStep
  <2>2. job.dst \in Paths
    BY <2>1 DEF JobType, Job, NoJob
  <2>3. CASE CreateFile(job.dst) /\ Gives("new", MadeWrites, {})
    BY <2>2, <2>3, MadeSlim
  <2> QED  BY <1>2, <2>3, SlimRests DEF CreateStep
<1>3. CASE WriteStep
  <2>1. JobType /\ job.step = "write"
    BY <1>3 DEF CrashInv, WriteStep
  <2>2. job.size \in Nat
    BY <2>1 DEF JobType, Job, NoJob
  <2>3. ASSUME NEW i \in FileAt(job.dst), WriteCall(i, job.size)
        PROVE  SlimInv'
    <3>1. i \in Inodes
      BY DEF FileAt, At
    <3> QED  BY <2>2, <2>3, <3>1, DataSlim DEF WriteCall, Keep
  <2> QED  BY <1>3, <2>3, SlimRests DEF WriteStep
<1>4. CASE RemoveStep
  <2>1. JobType /\ job.step = "remove"
    BY <1>4 DEF CrashInv, RemoveStep
  <2>2. job.src \in Paths
    BY <2>1 DEF JobType, Job, NoJob
  <2>3. CASE RemoveFile(job.src) /\ Gives("rm", RemoveWrites(Find(job.src)), {})
    BY <2>2, <2>3, RemovedSlim
  <2> QED  BY <1>4, <2>3, SlimRests DEF RemoveStep
<1>5. CASE MovedStep
  BY <1>5, SlimRests DEF MovedStep
<1>6. CASE Write
  <2>1. disk \in Image /\ SlimSectors \in SUBSET Sectors(Inodes) /\ pending \in Seq(SlimSectors)
    BY CrashInvType DEF SlimSectors, SlimInv
  <2> DEFINE w == Head(pending)
  <2>2. /\ w \in SlimSectors /\ pending' \in Seq(SlimSectors)
        /\ \A i \in Inodes : \/ disk'.inode[i] = disk.inode[i]
                             \/ w.of = "inode" /\ disk'.inode[i] = w.record
    BY <1>6, <2>1, WrittenIs
  <2> HIDE DEF w
  <2>3. \A i \in Inodes : Slim(disk'.inode[i])
    BY <2>2 DEF SlimSectors, SlimInv
  <2>4. inode' = inode
    BY <1>6 DEF Write, vars
  <2>5. pending' \in Seq(SlimSectors)'
    BY <2>2 DEF SlimSectors, Sectors, Slim
  <2> QED  BY <2>3, <2>4, <2>5 DEF SlimInv, Slim
<1>7. CASE Restart
  <2>1. inode' = disk.inode /\ disk' = disk /\ pending' = <<>>
    BY <1>7 DEF Restart
  <2>2. \A i \in Inodes : Slim(inode'[i])
    BY <2>1 DEF SlimInv
  <2> QED  BY <2>1, <2>2, SlimGiven
<1>8. CASE UNCHANGED transferVars
  BY <1>8, SlimRests DEF transferVars
<1> QED  BY <1>1, <1>2, <1>3, <1>4, <1>5, <1>6, <1>7, <1>8 DEF TransferNext

LEMMA InitSlim == TransferInit => SlimInv
<1>1. SUFFICES ASSUME TransferInit PROVE SlimInv
  OBVIOUS
<1>2. \A i \in Inodes : inode[i].blocks = {} /\ disk.inode[i].blocks = {}
  BY <1>1 DEF TransferInit, CrashInit, Init
<1>3. pending \in Seq(SlimSectors)
  BY <1>1 DEF TransferInit, CrashInit
<1>4. Cardinality({}) <= MAX_BLOCKS_PER_FILE
  BY FS_EmptySet, MfsAssumption DEF MfsAssumption
<1>5. \A i \in Inodes : Slim(inode[i]) /\ Slim(disk.inode[i])
  BY <1>2, <1>4 DEF Slim
<1> QED  BY <1>3, <1>5 DEF SlimInv

-----------------------------------------------------------------------------
(* What an mv rests on                                                      *)

(* An entry for i is in memory and, in the same place, on the disk. *)
Shown(i) ==
  \E d \in Inodes, s \in Slots :
    /\ Holds(inode, dirent, d, s, i) /\ Holds(disk.inode, disk.dirent, d, s, i)
    /\ disk.inode[d].first_child_block = inode[d].first_child_block

(* Sectors of inodes and entries as memory has them. *)
MemorySectors ==
  {w \in Sectors(Inodes) : /\ w.of = "inode" => w.record = inode[w.at]
                           /\ w.of = "dirent" => w.entries = dirent[w.at]}

LEMMA PermitsMemory ==
  ASSUME TypeOK'
  PROVE  Permits(MemorySectors')
<1>1. \A i \in Inodes : inode'[i] \in InodeRec
  BY DEF TypeOK
<1>2. Sectors(Inodes)' = Sectors(Inodes)
  BY DEF Sectors, InodeRec
<1>3. /\ \A i \in Inodes : InodeSector(i, inode'[i]) \in Sectors(Inodes)
      /\ \A B \in SUBSET Inodes : InodeBitmap(B) \in Sectors(Inodes)
      /\ \A B \in SUBSET Blocks : BlockBitmap(B) \in Sectors(Inodes)
      /\ \A b \in Blocks : DirSector(b) \in Sectors(Inodes)
  BY <1>1, SectorTypes
<1> QED  BY <1>2, <1>3 DEF Permits, MemorySectors, InodeSector, DirSector, InodeBitmap, BlockBitmap

(* A call that leaves the entries of i where they are. *)
LEMMA ShownStays ==
  ASSUME NEW i, Shown(i), disk' = disk,
         \A d \in Inodes, s \in Slots :
           Holds(inode, dirent, d, s, i) =>
             /\ Holds(inode', dirent', d, s, i)
             /\ inode'[d].first_child_block = inode[d].first_child_block
  PROVE  Shown(i)'
<1>1. PICK d \in Inodes, s \in Slots :
        /\ Holds(inode, dirent, d, s, i) /\ Holds(disk.inode, disk.dirent, d, s, i)
        /\ disk.inode[d].first_child_block = inode[d].first_child_block
  BY DEF Shown
<1>2. /\ Holds(inode', dirent', d, s, i) /\ Holds(disk'.inode, disk'.dirent, d, s, i)
      /\ disk'.inode[d].first_child_block = inode'[d].first_child_block
  BY <1>1
<1> QED  BY <1>2 DEF Shown

LEMMA ShownWritten ==
  ASSUME TypeOK, disk \in Image, pending \in Seq(MemorySectors), Write, NEW i \in Inodes
  PROVE  /\ Shown(i) => Shown(i)'
         /\ disk'.inode[i] = disk.inode[i] \/ disk'.inode[i] = inode[i]
         /\ UNCHANGED vars /\ pending' \in Seq(MemorySectors)'
<1> DEFINE w == Head(pending)
<1>1. UNCHANGED vars
  BY DEF Write
<1>2. MemorySectors \in SUBSET Sectors(Inodes)
  BY DEF MemorySectors
<1>3. /\ w \in MemorySectors /\ pending' \in Seq(MemorySectors)
      /\ \A j \in Inodes : \/ disk'.inode[j] = disk.inode[j]
                           \/ w.of = "inode" /\ w.at = j /\ disk'.inode[j] = w.record
      /\ \A b \in Blocks : \/ disk'.dirent[b] = disk.dirent[b]
                           \/ w.of = "dirent" /\ w.at = b /\ disk'.dirent[b] = w.entries
  BY <1>2, WrittenIs
<1> HIDE DEF w
<1>4. /\ \A j \in Inodes : disk'.inode[j] = disk.inode[j] \/ disk'.inode[j] = inode[j]
      /\ \A b \in Blocks : disk'.dirent[b] = disk.dirent[b] \/ disk'.dirent[b] = dirent[b]
  BY <1>3 DEF MemorySectors
<1>5. ASSUME Shown(i)  PROVE Shown(i)'
  <2>1. PICK d \in Inodes, s \in Slots :
          /\ Holds(inode, dirent, d, s, i) /\ Holds(disk.inode, disk.dirent, d, s, i)
          /\ disk.inode[d].first_child_block = inode[d].first_child_block
    BY <1>5 DEF Shown
  <2> DEFINE b == inode[d].first_child_block
  <2>2. b \in Blocks
    BY <2>1 DEF TypeOK, InodeRec, Holds
  <2>3. disk'.inode[d].type = "DIR" /\ disk'.inode[d].first_child_block = b
    BY <1>4, <2>1 DEF Holds
  <2>4. disk'.dirent[b][s] = i
    BY <1>4, <2>1, <2>2 DEF Holds
  <2>5. b # NONE
    BY <2>1 DEF Holds
  <2>6. Holds(disk'.inode, disk'.dirent, d, s, i)
    BY <2>3, <2>4, <2>5 DEF Holds
  <2>7. inode' = inode /\ dirent' = dirent
    BY <1>1 DEF vars
  <2> QED  BY <2>1, <2>3, <2>6, <2>7 DEF Shown
<1>6. MemorySectors' = MemorySectors
  BY <1>1 DEF MemorySectors, vars, Sectors
<1> QED  BY <1>1, <1>3, <1>4, <1>5, <1>6

(* Between two calls the disk names a file that memory names, and has it but *)
(* for what a failed write left in memory.                                   *)
LEMMA ShownAtRest ==
  ASSUME CrashInv, pending = <<>>, NEW p \in Paths, NEW i \in FileAt(p)
  PROVE  /\ i \in Inodes /\ inode[i].type = "FILE" /\ Shown(i)
         /\ disk.inode[i].blocks \subseteq inode[i].blocks
         /\ i \notin dirty => disk.inode[i] = inode[i]
<1>1. /\ disk \in Image /\ Agrees(disk, Memory, dirty)
  BY AtRest
<1>2. PICK r \in Nat : r = restarts /\ Kept(r)
  BY AtRest
<1>3. i \in At(p) /\ inode[i].type = "FILE"
  BY DEF FileAt
<1>4. i \in Inodes /\ HasName(inode, dirent, i) /\ i # 0 /\ i \in inode_bitmap \cup {0}
  BY <1>2, <1>3, NamedInUse
<1>5. /\ disk.dirent = dirent
      /\ \A j \in inode_bitmap \cup {0} :
           SavedAs(disk.inode[j], inode[j]) /\ (j \notin dirty => disk.inode[j] = inode[j])
  BY <1>1, MemoryFields DEF Agrees
<1>6. PICK d \in Inodes, s \in Slots : Holds(inode, dirent, d, s, i)
  BY <1>4 DEF HasName
<1>7. d \in inode_bitmap \cup {0}
  <2>1. Sound(Memory)
    BY <1>2, KeptGives
  <2> QED  BY <1>6, <2>1, MemoryFields DEF Sound, DirsMarked, Holds
<1>8. disk.inode[d].type = inode[d].type /\ disk.inode[d].first_child_block = inode[d].first_child_block
  BY <1>5, <1>7 DEF SavedAs
<1>9. Shown(i)
  BY <1>5, <1>6, <1>8 DEF Shown, Holds
<1> QED  BY <1>3, <1>4, <1>5, <1>9 DEF SavedAs

(* dir_add_child of a new inode. *)
LEMMA EnrolKeepsEntries ==
  ASSUME NEW r \in Nat, Kept(r), NEW ino, NEW id, NEW dir, Enrols(ino, id, dir),
         NEW d \in Inodes, NEW s \in Slots, NEW c \in Inodes, Holds(inode, dirent, d, s, c)
  PROVE  Holds(inode', dirent', d, s, c) /\ inode'[d].first_child_block = inode[d].first_child_block
<1> DEFINE b == inode[d].first_child_block
<1>1. TypeOK /\ inode[d].type = "DIR" /\ b # NONE /\ dirent[b][s] = c /\ b \in Blocks
  BY KeptGives DEF Holds, TypeOK, InodeRec
<1>2. b \in block_bitmap /\ d \in inode_bitmap \cup {0}
  <2>1. EntryBlocksApart(inode, block_bitmap, d) /\ Sound(Memory)
    BY <1>1, KeptGives
  <2> QED  BY <1>1, <2>1, MemoryFields DEF EntryBlocksApart, Sound, DirsMarked
<1>3. d # id
  BY <1>2 DEF Enrols, FreeInodes
<1>4. inode'[d].type = "DIR" /\ inode'[d].first_child_block = b
  BY <1>1, <1>3, EnrolledBlocks
<1>5. dir \in Inodes /\ ino \in [Inodes -> InodeRec] /\ AddChild(ino, dir, id)
  BY <1>1, NamedType DEF Enrols
<1>6. c # NONE
  BY DEF Inodes, NONE
<1> HIDE DEF b
<1>7. dirent'[b][s] = c
  <2>1. ASSUME NEW e \in FreeBlocks, NEW f, dirent' = [dirent EXCEPT ![e] = f]
        PROVE  dirent'[b][s] = c
    BY <1>1, <1>2, <2>1 DEF FreeBlocks, TypeOK
  <2>2. ASSUME NEW t \in Slots \ Used(ino, dir), ino[dir].first_child_block # NONE,
               dirent' = [dirent EXCEPT ![ino[dir].first_child_block][t] = id]
        PROVE  dirent'[b][s] = c
    <3> DEFINE e == ino[dir].first_child_block
    <3>1. dirent[e][t] = NONE
      BY <2>2 DEF Used
    <3>2. e \in Blocks
      BY <1>5, <2>2 DEF InodeRec
    <3> HIDE DEF e
    <3>3. dirent' = [dirent EXCEPT ![e][t] = id]
      BY <2>2 DEF e
    <3>4. dirent \in [Blocks -> [Slots -> Inodes \cup {NONE}]]
      BY <1>1 DEF TypeOK
    <3> QED  BY <1>1, <1>6, <3>1, <3>2, <3>3, <3>4
  <2>3. CASE dirent' = dirent
    BY <1>1, <2>3
  <2> QED  BY <1>5, <2>1, <2>2, <2>3 DEF AddChild
<1> QED  BY <1>1, <1>4, <1>7 DEF Holds, b

-----------------------------------------------------------------------------
(* The invariant of an mv: until fs_remove_file is called the source has its *)
(* name and its blocks, in memory and on the disk; the file at the           *)
(* destination has all of the text in memory when fs_remove_file is called,  *)
(* and on the disk too, since no call starts before the writes of the last   *)
(* one are made.                                                             *)

SourceHeld ==
  /\ Shown(job.from)
  /\ job.stored \subseteq inode[job.from].blocks /\ job.stored \subseteq disk.inode[job.from].blocks

Roomy(record, n) == n <= Cardinality(record.blocks)

TargetHeld ==
  Shown(job.onto) /\ Roomy(inode[job.onto], job.size) /\ Roomy(disk.inode[job.onto], job.size)

Moving == job \in Job /\ job.command = "mv"

MoveHolds ==
  /\ pending \in Seq(MemorySectors)
  /\ job.size <= MAX_BLOCKS_PER_FILE
  /\ job.step \in {"create", "write"} => job.onto = NONE /\ SourceHeld
  /\ job.step \in {"remove", "removing"} => job.onto \in Inodes
  /\ job.step = "remove" /\ job.onto # job.from =>
       SourceHeld /\ Shown(job.onto) /\ job.onto \notin dirty /\ Roomy(inode[job.onto], job.size)
  /\ job.step = "removing" /\ job.onto # job.from => SourceHeld \/ TargetHeld

MoveInv == Moving => MoveHolds

LEMMA NoJobMoves == job' = NoJob => MoveInv'
<1>1. SUFFICES ASSUME job' = NoJob, Moving' PROVE FALSE
  BY DEF MoveInv
<1>2. job' \in Job
  BY <1>1 DEF Moving, Job
<1> QED  BY <1>1, <1>2 DEF Job, NoJob

LEMMA JobFields ==
  ASSUME Moving
  PROVE  /\ job.step \in {"create", "write", "remove", "removing"} /\ job.from \in Inodes
         /\ job.src \in Paths /\ job.dst \in Paths /\ job.size \in Nat
         /\ job.stored \in SUBSET Blocks /\ job.onto \in Inodes \cup {NONE}
         /\ NONE \notin Inodes
<1>1. NONE \notin Inodes
  BY DEF NONE, Inodes
<1> QED  BY <1>1 DEF Moving, Job

LEMMA MovingIsAJob ==
  ASSUME CrashInv, job.step # "none"
  PROVE  job \in Job
  BY DEF CrashInv, JobType, NoJob

(* A call that leaves the entries of the source and its blocks. *)
LEMMA SourceStays ==
  ASSUME SourceHeld, disk' = disk, job'.from = job.from, job'.stored = job.stored,
         \A d \in Inodes, s \in Slots :
           Holds(inode, dirent, d, s, job.from) =>
             /\ Holds(inode', dirent', d, s, job.from)
             /\ inode'[d].first_child_block = inode[d].first_child_block,
         inode[job.from].blocks \subseteq inode'[job.from].blocks
  PROVE  SourceHeld'
<1>1. PICK i : i = job.from
  OBVIOUS
<1>2. Shown(i)
  BY <1>1 DEF SourceHeld
<1>3. Shown(i)'
  BY <1>1, <1>2, ShownStays
<1>4. Shown(job.from)'
  BY <1>1, <1>3 DEF Shown, Holds
<1> QED  BY <1>4 DEF SourceHeld

(* cp and mv have read the source to its end. *)
LEMMA StartMoves ==
  ASSUME CrashInv, SlimInv, pending = <<>>, NEW command, NEW p \in Paths, NEW q \in Paths,
         StartTransfer(command, p, q)
  PROVE  MoveInv'
<1>1. PICK i \in FileAt(p) :
        job' = [step |-> "create", command |-> command, from |-> i, src |-> p,
                dst |-> q, size |-> Readable(i),
                stored |-> disk.inode[i].blocks, onto |-> NONE]
  BY DEF StartTransfer
<1>2. UNCHANGED crashVars
  BY DEF StartTransfer
<1>3. inode' = inode /\ dirent' = dirent /\ disk' = disk /\ pending' = <<>>
  BY <1>2 DEF crashVars, vars
<1>4. /\ i \in Inodes /\ Shown(i) /\ disk.inode[i].blocks \subseteq inode[i].blocks
  BY ShownAtRest
<1>5. Shown(i)'
  BY <1>3, <1>4, ShownStays
<1>6. Readable(i) <= MAX_BLOCKS_PER_FILE
  <2> DEFINE n == Cardinality(inode[i].blocks)
  <2>1. n <= MAX_BLOCKS_PER_FILE
    BY <1>4 DEF SlimInv, Slim
  <2>2. n \in Nat /\ inode[i].size \in Nat
    <3>1. TypeOK
      BY CrashInvType
    <3>2. inode[i].blocks \in SUBSET Blocks /\ inode[i].size \in Nat
      BY <1>4, <3>1 DEF TypeOK, InodeRec
    <3> QED  BY <3>2, LowestCounts
  <2>3. Readable(i) = IF inode[i].size < n THEN inode[i].size ELSE n
    BY DEF Readable
  <2> HIDE DEF n
  <2> QED  BY <2>1, <2>2, <2>3, MfsAssumption DEF MfsAssumption
<1>7. /\ job'.from = i /\ job'.size = Readable(i) /\ job'.stored = disk.inode[i].blocks
      /\ job'.onto = NONE /\ job'.step = "create"
  BY <1>1
<1>8. SourceHeld'
  <2>1. Shown(job.from)'
    BY <1>5, <1>7 DEF Shown, Holds
  <2> QED  BY <1>3, <1>4, <1>7, <2>1 DEF SourceHeld
<1>9. pending' \in Seq(MemorySectors')
  BY <1>3
<1>10. MoveHolds'
  BY <1>6, <1>7, <1>8, <1>9 DEF MoveHolds
<1> QED  BY <1>10 DEF MoveInv

(* fs_create_file of the destination. *)
LEMMA CreateMoves ==
  ASSUME CrashInv, CrashInv', Moving, MoveHolds, pending = <<>>, job.step = "create",
         CreateFile(job.dst), Gives("new", MadeWrites, {}), job' = [job EXCEPT !.step = "write"]
  PROVE  MoveInv'
<1>1. PICK r \in Nat : r = restarts /\ Kept(r)
  BY AtRest
<1>2. TypeOK /\ TreeInv /\ TypeOK' /\ disk' = disk /\ pending' = MadeWrites
  BY CrashInvType DEF Gives
<1>3. job.dst \in Paths /\ job.from \in Inodes /\ SourceHeld /\ job.onto = NONE
  BY JobFields DEF MoveHolds
<1>4. PICK ino, id, dir : Enrols(ino, id, dir)
  BY <1>2, <1>3, MakingEnrols
<1>5. /\ job'.step = "write" /\ job'.from = job.from /\ job'.stored = job.stored
      /\ job'.size = job.size /\ job'.onto = job.onto
  BY DEF Moving, Job
<1>6. \A d \in Inodes, s \in Slots :
        Holds(inode, dirent, d, s, job.from) =>
          /\ Holds(inode', dirent', d, s, job.from)
          /\ inode'[d].first_child_block = inode[d].first_child_block
  BY <1>1, <1>3, <1>4, EnrolKeepsEntries
<1>7. inode'[job.from].blocks = inode[job.from].blocks
  <2>1. job.from # id
    <3>1. PICK d \in Inodes, s \in Slots : Holds(inode, dirent, d, s, job.from)
      BY <1>3 DEF SourceHeld, Shown
    <3>2. job.from \in inode_bitmap
      BY <1>2, <1>3, <3>1 DEF TreeInv, NamesAgree
    <3> QED  BY <1>4, <3>2 DEF Enrols, FreeInodes
  <2> QED  BY <1>2, <1>3, <1>4, <2>1, EnrolledBlocks
<1>8. SourceHeld'
  BY <1>2, <1>3, <1>5, <1>6, <1>7, SourceStays
<1>9. pending' \in Seq(MemorySectors')
  <2> DEFINE S == MemorySectors'
  <2>1. Permits(S)
    BY <1>2, PermitsMemory
  <2> HIDE DEF S
  <2>2. MadeWrites \in Seq(S)
    BY <1>2, <1>4, <2>1, MadeOf
  <2> QED  BY <1>2, <2>2 DEF S
<1>10. MoveHolds'
  BY <1>3, <1>5, <1>8, <1>9 DEF MoveHolds
<1> QED  BY <1>10 DEF MoveInv

LEMMA LastSaved ==
  ASSUME NEW S, NEW ws \in Seq(S), NEW i, NEW q
  PROVE  i \in Saved(ws \o <<InodeSector(i, q)>>)
<1> DEFINE w == InodeSector(i, q)  n == Len(ws) + 1
<1>1. <<w>> \in Seq({w}) /\ w.of = "inode" /\ w.at = i
  BY DEF InodeSector
<1> HIDE DEF w
<1>2. n \in Nat /\ n >= 1 /\ n - Len(ws) = 1 /\ Len(ws) \in Nat
  OBVIOUS
<1>3. Len(ws \o <<w>>) = n /\ (ws \o <<w>>)[n] = w /\ DOMAIN (ws \o <<w>>) = 1 .. n
  OBVIOUS
<1>4. n \in DOMAIN (ws \o <<w>>)
  BY <1>2, <1>3
<1> HIDE DEF n
<1> QED  BY <1>1, <1>3, <1>4 DEF Saved, w

(* fs_write_file of the text to the destination, to its end. *)
LEMMA DataMoves ==
  ASSUME CrashInv, CrashInv', Moving, MoveHolds, pending = <<>>, job.step = "write",
         NEW i \in FileAt(job.dst), WriteCall(i, job.size), Complete(i, job.size), job' = AfterWrite(i)
  PROVE  MoveInv'
<1> DEFINE n == job.size
<1>1. /\ job.dst \in Paths /\ job.from \in Inodes /\ SourceHeld /\ n \in Nat /\ n <= MAX_BLOCKS_PER_FILE
  BY JobFields DEF MoveHolds
<1>2. TypeOK /\ TypeOK' /\ disk' = disk
  BY CrashInvType DEF WriteCall, Gives
<1>3. i \in Inodes /\ Shown(i)
  BY <1>1, ShownAtRest
<1>4. /\ WriteData(i, n) /\ dirent' = dirent /\ pending' = DataWrites(i, n)
      /\ dirty' = (dirty \cup (IF inode' = inode THEN {} ELSE {i})) \ Saved(DataWrites(i, n))
  BY DEF WriteCall, Keep, Gives
<1> HIDE DEF n
<1>5. PICK got : Fills(i, got)
  BY <1>1, <1>2, <1>3, <1>4, WriteFills
<1>6. \A j \in Inodes : /\ inode'[j].type = inode[j].type
                        /\ inode'[j].first_child_block = inode[j].first_child_block
                        /\ inode[j].blocks \subseteq inode'[j].blocks
  BY <1>5 DEF Fills, SavedAs
<1>7. \A c, d \in Inodes, s \in Slots :
        Holds(inode, dirent, d, s, c) =>
          /\ Holds(inode', dirent', d, s, c)
          /\ inode'[d].first_child_block = inode[d].first_child_block
  BY <1>4, <1>6 DEF Holds
<1>8. /\ job'.step \in {"remove", "none"} /\ job'.from = job.from /\ job'.stored = job.stored
      /\ job'.size = job.size /\ job'.onto = i /\ job'.step = "remove"
  BY DEF Moving, Job, AfterWrite
<1>9. SourceHeld'
  BY <1>1, <1>2, <1>6, <1>7, <1>8, SourceStays
<1>10. Shown(job.onto)'
  <2>1. Shown(i)'
    BY <1>2, <1>3, <1>7, ShownStays
  <2> QED  BY <1>8, <2>1 DEF Shown, Holds
<1>11. Permits(MemorySectors')
  BY <1>2, PermitsMemory
<1>12. pending' \in Seq(MemorySectors') /\ i \notin dirty'
  <2> DEFINE S == MemorySectors'  marks == Allocations(block_bitmap' \ block_bitmap)
  <2>1. Permits(S)
    BY <1>11
  <2> HIDE DEF S
  <2>2. DataWrites(i, n) \in Seq(S)
    BY <1>2, <1>3, <2>1, DataOf
  <2>3. marks \in Seq(S)
    <3>1. block_bitmap' \ block_bitmap \in SUBSET Blocks
      BY <1>2 DEF TypeOK
    <3> QED  BY <1>2, <2>1, <3>1, MarksOf
  <2>4. DataWrites(i, n) = marks \o <<InodeSector(i, inode'[i])>>
    BY DEF DataWrites, n
  <2> HIDE DEF marks
  <2>5. i \in Saved(DataWrites(i, n))
    BY <2>3, <2>4, LastSaved
  <2> QED  BY <1>4, <2>2, <2>5 DEF S
<1>13. Roomy(inode'[i], n)
  <2> DEFINE m == Cardinality(inode'[i].blocks)
  <2>1. m >= (IF n < MAX_BLOCKS_PER_FILE THEN n ELSE MAX_BLOCKS_PER_FILE)
    BY DEF Complete, n
  <2>2. m \in Nat
    <3>1. inode'[i].blocks \in SUBSET Blocks
      BY <1>2, <1>3 DEF TypeOK, InodeRec
    <3> QED  BY <3>1, LowestCounts
  <2> HIDE DEF m
  <2>3. n <= m
    BY <1>1, <2>1, <2>2, MfsAssumption DEF MfsAssumption
  <2> QED  BY <2>3 DEF Roomy, m
<1>14. MoveHolds'
  BY <1>1, <1>3, <1>8, <1>9, <1>10, <1>12, <1>13 DEF MoveHolds, Roomy, n
<1> QED  BY <1>14 DEF MoveInv

(* fs_remove_file leaves the entries of other inodes, and those inodes. *)
LEMMA RemovalKeepsOthers ==
  ASSUME NEW r \in Nat, Kept(r), NEW p \in Paths, RemoveFile(p)
  PROVE  LET x == Find(p)
         IN  /\ x \in Inodes
             /\ \A j \in Inodes \ {x} : inode'[j] = inode[j]
             /\ \A c \in Inodes \ {x}, d \in Inodes, s \in Slots :
                  Holds(inode, dirent, d, s, c) =>
                    /\ Holds(inode', dirent', d, s, c)
                    /\ inode'[d].first_child_block = inode[d].first_child_block
<1>1. PICK x \in At(p) : DropName(x) \/ DropFile(x) \/ DropSymlink(x)
  BY DEF RemoveFile
<1>2. /\ x = Find(p) /\ x \in Inodes /\ x \in Named /\ x # 0 /\ inode[x].type # "DIR"
  BY <1>1, NamedInUse DEF DropName, DropFile, DropSymlink
<1>3. /\ TypeOK /\ TreeInv /\ \A d \in Inodes : inode[d].type = "DIR" => EntryBlocksApart(inode, block_bitmap, d)
  BY KeptGives
<1>4. EntryAgreesWithParent
  BY <1>3, TreeInvGives
<1>5. /\ dirent' = Without(inode[x].parent, x)
      /\ \/ inode' = inode
         \/ \E k : inode' = [inode EXCEPT ![x].link_count = k]
         \/ inode' = [inode EXCEPT ![x].blocks = {}]
  BY <1>1 DEF DropName, DropFile, DropSymlink
<1>6. \A j \in Inodes \ {x} : inode'[j] = inode[j]
  BY SMTT(30), <1>3, <1>5 DEF TypeOK
<1>7. \A j \in Inodes : inode'[j].type = inode[j].type /\ inode'[j].first_child_block = inode[j].first_child_block
  <2>1. \A j \in Inodes : inode[j] \in InodeRec
    BY <1>3 DEF TypeOK
  <2> QED  BY <1>2, <1>5, <2>1, ChangedBlocks
<1>8. Clears(inode, dirent, inode', Without(inode[x].parent, x), x)
  BY <1>2, <1>3, <1>4, <1>7, WithoutClears
<1> QED  BY <1>2, <1>5, <1>6, <1>7, <1>8 DEF Clears

(* fs_remove_file of what is at the source's path now. *)
LEMMA RemoveMoves ==
  ASSUME CrashInv, CrashInv', Moving, MoveHolds, pending = <<>>, job.step = "remove",
         RemoveFile(job.src), Gives("rm", RemoveWrites(Find(job.src)), {}),
         job' = [job EXCEPT !.step = "removing"]
  PROVE  MoveInv'
<1> DEFINE x == Find(job.src)
<1>1. PICK r \in Nat : r = restarts /\ Kept(r)
  BY AtRest
<1>2. TypeOK /\ TreeInv /\ TypeOK' /\ disk' = disk /\ pending' = RemoveWrites(x)
  BY CrashInvType DEF Gives
<1>3. /\ job.src \in Paths /\ job.from \in Inodes /\ job.onto \in Inodes /\ job.size <= MAX_BLOCKS_PER_FILE
  BY JobFields DEF MoveHolds
<1>4. /\ job'.step = "removing" /\ job'.from = job.from /\ job'.stored = job.stored
      /\ job'.size = job.size /\ job'.onto = job.onto
  BY DEF Moving, Job
<1>5. /\ x \in Inodes
      /\ \A j \in Inodes \ {x} : inode'[j] = inode[j]
      /\ \A c \in Inodes \ {x}, d \in Inodes, s \in Slots :
           Holds(inode, dirent, d, s, c) =>
             /\ Holds(inode', dirent', d, s, c)
             /\ inode'[d].first_child_block = inode[d].first_child_block
  BY <1>1, <1>3, RemovalKeepsOthers
<1>6. pending' \in Seq(MemorySectors')
  <2> DEFINE S == MemorySectors'
  <2>1. Permits(S)
    BY <1>2, PermitsMemory
  <2> HIDE DEF S, x
  <2>2. RemoveWrites(x) \in Seq(S)
    BY <1>2, <1>5, <2>1, RemovalOf
  <2> QED  BY <1>2, <2>2 DEF S
<1> HIDE DEF x
<1>7. ASSUME job.onto # job.from
      PROVE  SourceHeld' \/ TargetHeld'
  <2>1. SourceHeld /\ Shown(job.onto) /\ job.onto \notin dirty /\ Roomy(inode[job.onto], job.size)
    BY <1>7 DEF MoveHolds
  <2>2. CASE x # job.from
    BY <1>2, <1>3, <1>4, <1>5, <2>1, <2>2, SourceStays
  <2>3. CASE x = job.from
    <3>1. job.onto \in Inodes \ {x}
      BY <1>3, <1>7, <2>3
    <3>2. PICK i : i = job.onto
      OBVIOUS
    <3>3. Shown(i)'
      BY <1>2, <1>5, <2>1, <3>1, <3>2, ShownStays
    <3>4. disk.inode[i] = inode[i]
      <4>1. Agrees(disk, Memory, dirty)
        BY AtRest
      <4>2. i \in inode_bitmap
        <5>1. PICK d \in Inodes, s \in Slots : Holds(inode, dirent, d, s, i)
          BY <2>1, <3>2 DEF Shown
        <5> QED  BY <1>2, <1>3, <3>2, <5>1 DEF TreeInv, NamesAgree
      <4> QED  BY <2>1, <3>2, <4>1, <4>2, MemoryFields DEF Agrees
    <3>5. inode'[i] = inode[i]
      BY <1>5, <3>1, <3>2
    <3>6. Shown(job.onto)'
      BY <1>4, <3>2, <3>3 DEF Shown, Holds
    <3> QED  BY <1>2, <1>4, <2>1, <3>2, <3>4, <3>5, <3>6 DEF TargetHeld, Roomy
  <2> QED  BY <2>2, <2>3
<1>8. MoveHolds'
  BY <1>3, <1>4, <1>6, <1>7 DEF MoveHolds
<1> QED  BY <1>8 DEF MoveInv

(* dev_write, between two calls of an mv. *)
LEMMA WrittenMoves ==
  ASSUME CrashInv, Moving, MoveHolds, Write, UNCHANGED job
  PROVE  MoveInv'
<1>1. TypeOK /\ disk \in Image /\ pending \in Seq(MemorySectors)
  BY CrashInvType DEF MoveHolds
<1>2. /\ inode' = inode /\ dirent' = dirent /\ pending' \in Seq(MemorySectors)' /\ dirty' = dirty
      /\ \A i \in Inodes : /\ Shown(i) => Shown(i)'
                           /\ disk'.inode[i] = disk.inode[i] \/ disk'.inode[i] = inode[i]
  <2>1. 0 \in Inodes
    BY MfsAssumption DEF Inodes, MfsAssumption
  <2> QED  BY <1>1, <2>1, ShownWritten DEF Write, vars
<1>3. job.from \in Inodes /\ job.onto \in Inodes \cup {NONE}
  BY JobFields
<1>4. SourceHeld => SourceHeld'
  <2>1. SUFFICES ASSUME SourceHeld PROVE SourceHeld'
    OBVIOUS
  <2>2. PICK i \in Inodes : i = job.from
    BY <1>3
  <2>3. Shown(i)'
    BY <1>2, <2>1, <2>2 DEF SourceHeld
  <2>4. Shown(job.from)'
    BY <2>2, <2>3 DEF Shown, Holds
  <2> QED  BY <1>2, <1>3, <2>1, <2>4 DEF SourceHeld
<1>5. job.onto \in Inodes /\ Shown(job.onto) => Shown(job.onto)'
  <2>1. SUFFICES ASSUME job.onto \in Inodes, Shown(job.onto) PROVE Shown(job.onto)'
    OBVIOUS
  <2>2. PICK i \in Inodes : i = job.onto
    BY <2>1
  <2>3. Shown(i)'
    BY <1>2, <2>1, <2>2
  <2> QED  BY <2>2, <2>3 DEF Shown, Holds
<1>6. job.onto \in Inodes /\ TargetHeld => TargetHeld'
  BY <1>2, <1>5 DEF TargetHeld, Roomy
<1>7. MoveHolds'
  BY SMTT(30), <1>2, <1>4, <1>5, <1>6 DEF MoveHolds, Roomy
<1> QED  BY <1>7 DEF MoveInv

LEMMA MoveRests ==
  ASSUME MoveInv, UNCHANGED transferVars
  PROVE  MoveInv'
  BY DEF MoveInv, Moving, MoveHolds, SourceHeld, TargetHeld, Roomy, Shown, Holds, MemorySectors, Sectors,
         Job, transferVars, crashVars, vars

LEMMA MoveStep ==
  ASSUME CrashInv, CrashInv', SlimInv, MoveInv, [TransferNext]_transferVars
  PROVE  MoveInv'
<1>1. ASSUME job = NoJob, job' = job  PROVE MoveInv'
  BY <1>1, NoJobMoves
<1>2. CASE pending = <<>> /\ job = NoJob /\ Prompt
  <2>1. CASE Command /\ UNCHANGED job
    BY <1>1, <1>2, <2>1
  <2>2. ASSUME NEW command, NEW p \in Paths, NEW q \in Paths, StartTransfer(command, p, q)
        PROVE  MoveInv'
    BY <1>2, <2>2, StartMoves
  <2>3. ASSUME NEW p, NEW n, AppendFile(p, n)
        PROVE  MoveInv'
    BY <1>1, <1>2, <2>3 DEF AppendFile
  <2> QED  BY <1>2, <2>1, <2>2, <2>3 DEF Prompt, Typed
<1>3. ASSUME pending = <<>>, CreateStep \/ WriteStep \/ RemoveStep \/ MovedStep
      PROVE  MoveInv'
  <2>1. job \in Job
    BY <1>3, MovingIsAJob DEF CreateStep, WriteStep, RemoveStep, MovedStep
  <2>2. CASE job' = NoJob
    BY <2>2, NoJobMoves
  <2>3. CASE job.command # "mv"
    <3>1. job' = NoJob \/ job'.command # "mv"
      BY <1>3, <2>1, <2>3 DEF CreateStep, WriteStep, RemoveStep, MovedStep, AfterWrite, Job
    <3> QED  BY <3>1, NoJobMoves DEF MoveInv, Moving
  <2>4. CASE job.command = "mv" /\ job' # NoJob
    <3>1. Moving /\ MoveHolds
      BY <2>1, <2>4 DEF Moving, MoveInv
    <3>2. CASE CreateStep
      <4>1. /\ job.step = "create" /\ CreateFile(job.dst) /\ Gives("new", MadeWrites, {})
            /\ job' = [job EXCEPT !.step = "write"]
        BY <2>4, <3>2 DEF CreateStep
      <4> QED  BY <1>3, <3>1, <4>1, CreateMoves
    <3>3. CASE WriteStep
      <4>1. PICK i \in FileAt(job.dst) :
              /\ job.step = "write" /\ WriteCall(i, job.size) /\ Complete(i, job.size)
              /\ job' = AfterWrite(i)
        BY <2>4, <3>3 DEF WriteStep
      <4> QED  BY <1>3, <3>1, <4>1, DataMoves
    <3>4. CASE RemoveStep
      <4>1. /\ job.step = "remove" /\ RemoveFile(job.src) /\ Gives("rm", RemoveWrites(Find(job.src)), {})
            /\ job' = [job EXCEPT !.step = "removing"]
        BY <2>4, <3>4 DEF RemoveStep
      <4> QED  BY <1>3, <3>1, <4>1, RemoveMoves
    <3> QED  BY <1>3, <2>4, <3>2, <3>3, <3>4 DEF MovedStep
  <2> QED  BY <2>2, <2>3, <2>4
<1>4. CASE Write /\ UNCHANGED job
  <2>1. CASE Moving
    BY <1>4, <2>1, WrittenMoves DEF MoveInv
  <2>2. CASE ~Moving
    <3>1. ~Moving'
      BY <1>4, <2>2 DEF Moving, Job
    <3> QED  BY <3>1 DEF MoveInv
  <2> QED  BY <2>1, <2>2
<1>5. CASE Restart /\ job' = NoJob
  BY <1>5, NoJobMoves
<1>6. CASE UNCHANGED transferVars
  BY <1>6, MoveRests
<1> QED  BY <1>2, <1>3, <1>4, <1>5, <1>6 DEF TransferNext

LEMMA InitMoves == TransferInit => MoveInv
  BY DEF TransferInit, MoveInv, Moving, Job, NoJob

LEMMA MoveInvHolds ==
  ASSUME CrashInv, MoveInv
  PROVE  MoveKeepsOne
<1>1. SUFFICES ASSUME job.step # "none", job.command = "mv", job.onto # job.from
               PROVE  \/ job.from \in NamedOnDisk /\ job.stored \subseteq disk.inode[job.from].blocks
                      \/ job.onto \in NamedOnDisk /\ Cardinality(disk.inode[job.onto].blocks) >= job.size
  BY DEF MoveKeepsOne
<1>2. Moving /\ MoveHolds
  BY <1>1, MovingIsAJob DEF Moving, MoveInv
<1>3. disk \in Image
  BY CrashInvType
<1>4. ASSUME NEW i \in Inodes, Shown(i)
      PROVE  i \in NamedOnDisk
  <2>1. PICK d \in Inodes, s \in Slots : Holds(disk.inode, disk.dirent, d, s, i)
    BY <1>4 DEF Shown
  <2>2. s \in OnDisk!Children(d) /\ OnDisk!Entry(d, s) = i
    BY <1>3, <1>4, <2>1, HoldsOnDisk
  <2>3. d \in OnDisk!ListedIn(i)
    BY <2>2 DEF OnDisk!ListedIn, OnDisk!Inodes, Inodes
  <2> QED  BY <1>4, <2>3 DEF NamedOnDisk
<1>5. /\ job.step \in {"create", "write", "remove", "removing"} /\ job.from \in Inodes /\ job.size \in Nat
  BY <1>2, JobFields
<1>6. CASE SourceHeld
  BY <1>4, <1>5, <1>6 DEF SourceHeld
<1>7. CASE job.onto \in Inodes /\ TargetHeld
  <2> DEFINE m == Cardinality(disk.inode[job.onto].blocks)
  <2>1. job.size <= m /\ job.onto \in NamedOnDisk
    BY <1>4, <1>7 DEF TargetHeld, Roomy
  <2>2. m \in Nat
    <3>1. disk.inode[job.onto].blocks \in SUBSET Blocks
      BY <1>3, <1>7 DEF Image, InodeRec
    <3> QED  BY <3>1, LowestCounts
  <2> HIDE DEF m
  <2>3. m >= job.size
    BY <1>5, <2>1, <2>2
  <2> QED  BY <2>1, <2>3 DEF m
<1> QED  BY <1>1, <1>2, <1>5, <1>6, <1>7 DEF MoveHolds

(* mv removes its source only when fs_write_file has saved the inode of the  *)
(* destination with all that was read: whatever the power cut, the disk has  *)
(* the source with its name and the blocks it had, or a named file with room *)
(* for the whole text, unless that file is the source itself.                *)
THEOREM MovedStayWhole ==
  ASSUME LinkTargets \subseteq {"FILE"}, BusyRmdir = FALSE, UnlinkCut = FALSE,
         MAX_INODES + MAX_RESTARTS < LINK_MOD
  PROVE  TransferSpec => []MoveKeepsOne
<1> DEFINE Inv == CrashInv /\ SlimInv /\ MoveInv
<1>1. TransferInit => Inv
  BY InitCrash, InitSlim, InitMoves
<1>2. Inv /\ [TransferNext]_transferVars => Inv'
  <2>1. SUFFICES ASSUME Inv, [TransferNext]_transferVars PROVE Inv'
    OBVIOUS
  <2>2. CrashInv'
    BY <2>1, CrashStep
  <2>3. SlimInv'
    BY <2>1, <2>2, SlimStep
  <2>4. MoveInv'
    BY <2>1, <2>2, MoveStep
  <2> QED  BY <2>2, <2>3, <2>4
<1>3. Inv => MoveKeepsOne
  BY MoveInvHolds
<1> QED  BY <1>1, <1>2, <1>3, PTL DEF TransferSpec
=============================================================================

----------------------------- MODULE MfsProofs -----------------------------
(***************************************************************************)
(* Proofs about Mfs.tla, for every size of the instance and every set of   *)
(* names and paths.                                                        *)
(*                                                                         *)
(* Types and the ownership of blocks need no assumption on what the user   *)
(* types.  The rest is proved for a user who makes no hard link to a link  *)
(* (LinkTargets) and removes neither the current directory nor the root    *)
(* (BusyRmdir): what the code does for others leaves the inode of a file   *)
(* free while a link points at it, or the current directory a file.  The   *)
(* inductive invariant is NamesInv, stated with operators on any inode     *)
(* table and entry blocks, so that one lemma serves all calls that enter   *)
(* an inode, one all that clear an entry, and one each for what they do to *)
(* the link counts.                                                        *)
(***************************************************************************)
EXTENDS Mfs, Extremes, FiniteSetTheorems

USE DEF NONE

-----------------------------------------------------------------------------
(* Types                                                                    *)

LEMMA StoredName ==
  ASSUME NEW p \in Paths
  PROVE  BasePart(p) \in Stored
<1>1. p \in Path
  BY MfsAssumption DEF MfsAssumption
<1>2. p.toks \in Seq(Stored)
  BY <1>1 DEF Path
<1>3. CASE p.toks = <<>>
  BY <1>3 DEF BasePart, Stored
<1>4. CASE p.toks # <<>>
  <2>1. Len(p.toks) \in 1 .. Len(p.toks)
    BY <1>2, <1>4
  <2>2. QED
    BY <1>2, <1>4, <2>1 DEF BasePart
<1>5. QED
  BY <1>3, <1>4

LEMMA NewInodeType ==
  ASSUME TypeOK, NEW id \in Inodes, NEW name \in Stored, NEW type \in NodeType,
         NEW dir \in Inodes, NEW count \in 0 .. LINK_MOD - 1, NEW link \in Path,
         NEW target \in Inodes
  PROVE  NewInode(id, name, type, dir, count, link, target) \in [Inodes -> InodeRec]
<1> DEFINE rec == [name |-> name, type |-> type, size |-> 0, parent |-> dir,
                   first_child_block |-> NONE, blocks |-> {}, far |-> {},
                   symlink_target |-> link, link_count |-> count, target_inode |-> target]
<1>1. rec \in InodeRec
  BY DEF InodeRec
<1>2. QED
  BY <1>1 DEF TypeOK, NewInode

LEMMA AddChildType ==
  ASSUME TypeOK, NEW ino \in [Inodes -> InodeRec], NEW d \in Inodes, NEW c \in Inodes,
         AddChild(ino, d, c)
  PROVE  /\ inode' \in [Inodes -> InodeRec]
         /\ dirent' \in [Blocks -> [Slots -> Inodes \cup {NONE}]]
         /\ block_bitmap' \subseteq Blocks
<1>1. CASE /\ ino[d].first_child_block = NONE
           /\ \E b \in FreeBlocks :
                /\ b = Least(FreeBlocks)
                /\ inode' = [ino EXCEPT ![d].first_child_block = b]
                /\ dirent' = [dirent EXCEPT ![b] = [s \in Slots |-> IF s = 0 THEN c ELSE NONE]]
                /\ block_bitmap' = block_bitmap \cup {b}
  <2>1. PICK b \in FreeBlocks :
             /\ inode' = [ino EXCEPT ![d].first_child_block = b]
             /\ dirent' = [dirent EXCEPT ![b] = [s \in Slots |-> IF s = 0 THEN c ELSE NONE]]
             /\ block_bitmap' = block_bitmap \cup {b}
    BY <1>1
  <2>2. [ino[d] EXCEPT !.first_child_block = b] \in InodeRec
    BY <2>1 DEF InodeRec, FreeBlocks
  <2>3. inode' \in [Inodes -> InodeRec]
    BY <2>1, <2>2
  <2>4. QED
    BY <2>1, <2>3 DEF TypeOK, FreeBlocks
<1>2. CASE /\ ino[d].first_child_block # NONE
           /\ \E s \in Slots \ Used(ino, d) :
                /\ \A k \in Slots \ Used(ino, d) : s <= k
                /\ dirent' = [dirent EXCEPT ![ino[d].first_child_block][s] = c]
           /\ inode' = ino
           /\ UNCHANGED block_bitmap
  <2>1. ino[d].first_child_block \in Blocks
    BY <1>2 DEF InodeRec
  <2>2. QED
    BY <1>2, <2>1 DEF TypeOK
<1>3. CASE /\ inode' = ino
           /\ UNCHANGED <<dirent, block_bitmap>>
  BY <1>3 DEF TypeOK
<1>4. QED
  BY <1>1, <1>2, <1>3 DEF AddChild

LEMMA WithoutType ==
  ASSUME TypeOK, NEW d \in Inodes, NEW c \in Inodes
  PROVE  Without(d, c) \in [Blocks -> [Slots -> Inodes \cup {NONE}]]
  BY DEF TypeOK, Without, InodeRec

LEMMA SetLinkCount ==
  ASSUME NEW r \in InodeRec, NEW count \in 0 .. LINK_MOD - 1
  PROVE  /\ [r EXCEPT !.link_count = count] \in InodeRec
         /\ [r EXCEPT !.link_count = count, !.blocks = {}] \in InodeRec
  BY DEF InodeRec

LEMMA CreateType ==
  ASSUME TypeOK, NEW name \in Stored, NEW type \in NodeType, NEW dir \in Inodes,
         Create(name, type, dir)
  PROVE  TypeOK'
<1>1. PICK id \in FreeInodes :
        /\ inode_bitmap' = inode_bitmap \cup {id}
        /\ AddChild(NewInode(id, name, type, dir, IF type = "FILE" THEN 1 ELSE 0,
                             inode[id].symlink_target, inode[id].target_inode),
                    dir, id)
        /\ UNCHANGED current_dir
  BY DEF Create
<1>2. id \in Inodes /\ inode[id] \in InodeRec
  BY DEF FreeInodes, TypeOK
<1>3. (IF type = "FILE" THEN 1 ELSE 0) \in 0 .. LINK_MOD - 1
  BY MfsAssumption DEF MfsAssumption
<1>4. inode[id].symlink_target \in Path /\ inode[id].target_inode \in Inodes
  BY <1>2 DEF InodeRec
<1>5. NewInode(id, name, type, dir, IF type = "FILE" THEN 1 ELSE 0,
               inode[id].symlink_target, inode[id].target_inode) \in [Inodes -> InodeRec]
  BY <1>2, <1>3, <1>4, NewInodeType
<1>6. QED
  BY <1>1, <1>2, <1>5, AddChildType DEF TypeOK

LEMMA WriteDataType ==
  ASSUME TypeOK, NEW i \in Inodes, NEW n \in Nat, WriteData(i, n)
  PROVE  inode' \in [Inodes -> InodeRec] /\ block_bitmap' \subseteq Blocks
<1>1. PICK got \in SUBSET Blocks, direct \in SUBSET Blocks :
        /\ inode' = [inode EXCEPT ![i] =
                       [@ EXCEPT !.size = Larger(inode[i].size, n),
                                 !.blocks = inode[i].blocks \cup direct,
                                 !.far = inode[i].far \cup (got \ direct)]]
        /\ block_bitmap' = block_bitmap \cup got
  BY DEF WriteData, Lowest, FreeBlocks
<1>2. inode[i] \in InodeRec
  BY DEF TypeOK
<1>3. Larger(inode[i].size, n) \in Nat
  BY <1>2 DEF InodeRec, Larger
<1> DEFINE rec == [inode[i] EXCEPT !.size = Larger(inode[i].size, n),
                                   !.blocks = inode[i].blocks \cup direct,
                                   !.far = inode[i].far \cup (got \ direct)]
<1>4. rec \in InodeRec
  BY <1>2, <1>3 DEF InodeRec
<1>5. inode' = [inode EXCEPT ![i] = rec]
  BY <1>1
<1> HIDE DEF rec
<1>6. QED
  BY <1>1, <1>4, <1>5 DEF TypeOK

LEMMA CallType ==
  ASSUME TypeOK
  PROVE  /\ \A p \in Paths :
              CreateFile(p) \/ CreateDir(p) \/ RemoveFile(p) \/ RemoveDir(p) \/ Unlink(p) \/ ChangeDir(p)
                => TypeOK'
         /\ \A t \in SymlinkTexts, p \in Paths : CreateSymlink(t, p) => TypeOK'
         /\ \A t \in Paths, p \in Paths : CreateHardlink(t, p) => TypeOK'
         /\ \A p \in Paths, n \in 1 .. MAX_WRITE : WriteFile(p, n) => TypeOK'
<1> USE DEF At
<1>1. ASSUME NEW p \in Paths, CreateFile(p)
      PROVE  TypeOK'
  BY <1>1, CreateType, StoredName DEF CreateFile, NodeType
<1>2. ASSUME NEW p \in Paths, CreateDir(p)
      PROVE  TypeOK'
  BY <1>2, CreateType, StoredName DEF CreateDir, NodeType
<1>3. ASSUME NEW t \in SymlinkTexts, NEW p \in Paths, CreateSymlink(t, p)
      PROVE  TypeOK'
  <2>1. PICK dir \in Inodes, id \in FreeInodes :
          /\ inode_bitmap' = inode_bitmap \cup {id}
          /\ AddChild(NewInode(id, BasePart(p), "SYMLINK", dir, inode[id].link_count,
                               t, inode[id].target_inode), dir, id)
    BY <1>3 DEF CreateSymlink
  <2>2. id \in Inodes /\ inode[id] \in InodeRec /\ t \in Path
    BY MfsAssumption DEF FreeInodes, TypeOK, MfsAssumption
  <2>3. inode[id].link_count \in 0 .. LINK_MOD - 1 /\ inode[id].target_inode \in Inodes
    BY <2>2 DEF InodeRec
  <2>4. NewInode(id, BasePart(p), "SYMLINK", dir, inode[id].link_count,
                 t, inode[id].target_inode) \in [Inodes -> InodeRec]
    BY <2>2, <2>3, NewInodeType, StoredName DEF NodeType
  <2>5. QED
    BY <1>3, <2>1, <2>2, <2>4, AddChildType DEF TypeOK, CreateSymlink
<1>4. ASSUME NEW t \in Paths, NEW p \in Paths, CreateHardlink(t, p)
      PROVE  TypeOK'
  <2>1. PICK target \in Inodes, dir \in Inodes, id \in FreeInodes :
          LET ino == NewInode(id, BasePart(p), "HARDLINK", dir, inode[id].link_count,
                              inode[id].symlink_target, target)
              links == (ino[target].link_count + 1) % LINK_MOD
          IN  /\ inode_bitmap' = inode_bitmap \cup {id}
              /\ AddChild([ino EXCEPT ![target].link_count = links], dir, id)
              /\ UNCHANGED current_dir
    BY <1>4 DEF CreateHardlink
  <2> DEFINE ino == NewInode(id, BasePart(p), "HARDLINK", dir, inode[id].link_count,
                             inode[id].symlink_target, target)
             links == (ino[target].link_count + 1) % LINK_MOD
  <2>2. id \in Inodes /\ inode[id] \in InodeRec
    BY DEF FreeInodes, TypeOK
  <2>3. inode[id].link_count \in 0 .. LINK_MOD - 1 /\ inode[id].symlink_target \in Path
    BY <2>2 DEF InodeRec
  <2>4. ino \in [Inodes -> InodeRec]
    BY <2>2, <2>3, NewInodeType, StoredName DEF NodeType
  <2>5. AddChild([ino EXCEPT ![target].link_count = links], dir, id)
    BY <2>1
  <2> HIDE DEF ino
  <2>6. ino[target] \in InodeRec
    BY <2>4
  <2>7. links \in 0 .. LINK_MOD - 1
    BY <2>6, MfsAssumption DEF InodeRec, MfsAssumption
  <2> HIDE DEF links
  <2>8. [ino EXCEPT ![target].link_count = links] \in [Inodes -> InodeRec]
    BY <2>4, <2>6, <2>7, SetLinkCount
  <2>9. QED
    BY <2>1, <2>2, <2>5, <2>8, AddChildType DEF TypeOK
<1>5. ASSUME NEW p \in Paths, NEW n \in 1 .. MAX_WRITE, WriteFile(p, n)
      PROVE  TypeOK'
  <2>1. PICK real \in Inodes : WriteData(real, n) /\ UNCHANGED <<dirent, inode_bitmap, current_dir>>
    BY <1>5 DEF WriteFile
  <2>2. n \in Nat
    BY MfsAssumption DEF MfsAssumption
  <2>3. QED
    BY <2>1, <2>2, WriteDataType DEF TypeOK
<1>6. ASSUME NEW p \in Paths, RemoveFile(p)
      PROVE  TypeOK'
  <2>1. PICK id \in Inodes : /\ DropName(id) \/ DropFile(id) \/ DropSymlink(id)
                             /\ UNCHANGED current_dir
    BY <1>6 DEF RemoveFile
  <2>2. inode[id] \in InodeRec /\ inode[id].parent \in Inodes
    BY DEF TypeOK, InodeRec
  <2>3. Without(inode[id].parent, id) \in [Blocks -> [Slots -> Inodes \cup {NONE}]]
    BY <2>2, WithoutType
  <2>4. CASE DropName(id)
    <3>1. [inode[id] EXCEPT !.link_count = inode[id].link_count - 1] \in InodeRec
      <4>1. inode[id].link_count - 1 \in 0 .. LINK_MOD - 1
        BY <2>2, <2>4, MfsAssumption DEF InodeRec, DropName, MfsAssumption
      <4>2. QED
        BY <2>2, <4>1, SetLinkCount
    <3>2. QED
      BY <2>1, <2>3, <2>4, <3>1 DEF TypeOK, DropName
  <2>5. CASE DropFile(id)
    <3>1. [inode[id] EXCEPT !.blocks = {}] \in InodeRec
      BY <2>2 DEF InodeRec
    <3>2. QED
      BY <2>1, <2>3, <2>5, <3>1 DEF TypeOK, DropFile
  <2>6. CASE DropSymlink(id)
    BY <2>1, <2>3, <2>6 DEF TypeOK, DropSymlink
  <2>7. QED
    BY <2>1, <2>4, <2>5, <2>6
<1>7. ASSUME NEW p \in Paths, RemoveDir(p)
      PROVE  TypeOK'
  <2>1. PICK id \in Inodes :
          /\ dirent' = Without(inode[id].parent, id)
          /\ inode' = [inode EXCEPT ![id] =
                         [@ EXCEPT !.type = "FILE", !.size = 0, !.blocks = {},
                                   !.first_child_block = NONE]]
          /\ UNCHANGED <<inode_bitmap, block_bitmap, current_dir>>
    BY <1>7 DEF RemoveDir
  <2>2. inode[id] \in InodeRec /\ inode[id].parent \in Inodes
    BY DEF TypeOK, InodeRec
  <2>3. [inode[id] EXCEPT !.type = "FILE", !.size = 0, !.blocks = {},
                          !.first_child_block = NONE] \in InodeRec
    BY <2>2 DEF InodeRec, NodeType
  <2>4. QED
    BY <2>1, <2>2, <2>3, WithoutType DEF TypeOK
<1>8. ASSUME NEW p \in Paths, Unlink(p)
      PROVE  TypeOK'
  <2>1. PICK id \in Inodes :
          /\ dirent' = Without(inode[id].parent, id)
          /\ \/ /\ inode' = [inode EXCEPT ![inode[id].target_inode].link_count =
                               (inode[inode[id].target_inode].link_count - 1) % LINK_MOD]
                /\ inode_bitmap' = inode_bitmap \ {id}
                /\ UNCHANGED block_bitmap
             \/ /\ inode' = [inode EXCEPT ![inode[id].target_inode] =
                               [@ EXCEPT !.link_count = 0, !.blocks = {}]]
                /\ inode_bitmap' = inode_bitmap \ {id, inode[id].target_inode}
                /\ block_bitmap' = block_bitmap \ inode[inode[id].target_inode].blocks
          /\ UNCHANGED current_dir
    BY <1>8 DEF Unlink
  <2> DEFINE target == inode[id].target_inode
  <2>2. target \in Inodes /\ inode[id].parent \in Inodes /\ inode[target] \in InodeRec
    BY DEF TypeOK, InodeRec
  <2>3. (inode[target].link_count - 1) % LINK_MOD \in 0 .. LINK_MOD - 1
    BY <2>2, MfsAssumption DEF InodeRec, MfsAssumption
  <2>4. /\ [inode[target] EXCEPT !.link_count = (inode[target].link_count - 1) % LINK_MOD] \in InodeRec
        /\ [inode[target] EXCEPT !.link_count = 0, !.blocks = {}] \in InodeRec
    <3>1. 0 \in 0 .. LINK_MOD - 1
      BY MfsAssumption DEF MfsAssumption
    <3>2. QED
      BY <2>2, <2>3, <3>1, SetLinkCount
  <2>5. QED
    BY <2>1, <2>2, <2>4, WithoutType DEF TypeOK
<1>9. ASSUME NEW p \in Paths, ChangeDir(p)
      PROVE  TypeOK'
  BY <1>9 DEF ChangeDir, TypeOK
<1>10. QED
  BY <1>1, <1>2, <1>3, <1>4, <1>5, <1>6, <1>7, <1>8, <1>9

LEMMA TypeStep ==
  ASSUME TypeOK, [Next]_vars
  PROVE  TypeOK'
<1>1. CASE Next
  BY <1>1, CallType DEF Next, Typed
<1>2. CASE UNCHANGED vars
  BY <1>2 DEF vars, TypeOK
<1> QED  BY <1>1, <1>2

LEMMA InitType == Init => TypeOK
<1>1. 0 \in Inodes /\ 0 \in 0 .. LINK_MOD - 1
  BY MfsAssumption DEF Inodes, MfsAssumption
<1>2. NoTarget \in Path
  BY DEF NoTarget, Path
<1>3. ASSUME NEW i \in Inodes
      PROVE  [name |-> IF i = 0 THEN "/" ELSE "",
              type |-> IF i = 0 THEN "DIR" ELSE "FILE",
              size |-> 0, parent |-> 0, first_child_block |-> NONE,
              blocks |-> {}, far |-> {}, symlink_target |-> NoTarget,
              link_count |-> 0, target_inode |-> 0] \in InodeRec
  BY <1>1, <1>2 DEF InodeRec, Stored, NodeType
<1>4. QED
  BY <1>1, <1>3 DEF Init, TypeOK

(* Every reachable state is well typed: in particular each inode number and  *)
(* block number the calls store is valid, and link_count stays in its width. *)
THEOREM TypeCorrect == Spec => []TypeOK
<1>1. Init => TypeOK
  BY InitType
<1>2. TypeOK /\ [Next]_vars => TypeOK'
  BY TypeStep
<1>3. QED
  BY <1>1, <1>2, PTL DEF Spec

-----------------------------------------------------------------------------
(* Ownership of blocks.  BlocksExclusive is inductive once types are known;  *)
(* Exclusive is the same statement about any inode table, so that it can be  *)
(* used of the table between create_inode's assignments and dir_add_child.   *)

OwnedIn(ino, i) ==
  ino[i].blocks \cup ino[i].far \cup ({ino[i].first_child_block} \ {NONE})

Exclusive(ino, marked) ==
  \A i \in Inodes :
    /\ OwnedIn(ino, i) \subseteq marked
    /\ \A j \in Inodes \ {i} : OwnedIn(ino, i) \cap OwnedIn(ino, j) = {}
    /\ ino[i].blocks \cap ino[i].far = {}
    /\ ino[i].first_child_block \notin ino[i].blocks \cup ino[i].far

LEMMA ExclusiveIsBlocksExclusive ==
  /\ BlocksExclusive <=> Exclusive(inode, block_bitmap)
  /\ BlocksExclusive' <=> Exclusive(inode', block_bitmap')
  BY DEF BlocksExclusive, Exclusive, Owned, OwnedIn

(* Giving blocks up keeps ownership exclusive. *)
LEMMA ExclusiveShrinks ==
  ASSUME NEW ino, NEW less, NEW marked, NEW remaining, Exclusive(ino, marked),
         \A i \in Inodes :
           /\ less[i].blocks \subseteq ino[i].blocks
           /\ less[i].far \subseteq ino[i].far
           /\ less[i].blocks \subseteq Blocks /\ less[i].far \subseteq Blocks
           /\ less[i].first_child_block \in {ino[i].first_child_block, NONE}
           /\ OwnedIn(less, i) \subseteq remaining
  PROVE  Exclusive(less, remaining)
<1>1. NONE \notin Blocks
  BY DEF Blocks
<1>2. \A i \in Inodes : OwnedIn(less, i) \subseteq OwnedIn(ino, i)
  BY DEF OwnedIn
<1>3. QED
  BY <1>1, <1>2 DEF Exclusive

LEMMA AddChildExclusive ==
  ASSUME TypeOK, NEW ino \in [Inodes -> InodeRec], NEW d \in Inodes, NEW c \in Inodes,
         Exclusive(ino, block_bitmap), AddChild(ino, d, c)
  PROVE  Exclusive(inode', block_bitmap')
<1>1. CASE \E b \in FreeBlocks :
             /\ ino[d].first_child_block = NONE
             /\ inode' = [ino EXCEPT ![d].first_child_block = b]
             /\ block_bitmap' = block_bitmap \cup {b}
  <2>1. PICK b \in FreeBlocks :
          /\ ino[d].first_child_block = NONE
          /\ inode' = [ino EXCEPT ![d].first_child_block = b]
          /\ block_bitmap' = block_bitmap \cup {b}
    BY <1>1
  <2>2. b \notin block_bitmap /\ b # NONE
    BY DEF FreeBlocks, Blocks
  <2>3. ASSUME NEW i \in Inodes
        PROVE  /\ inode'[i].blocks = ino[i].blocks
               /\ inode'[i].far = ino[i].far
               /\ inode'[i].first_child_block = IF i = d THEN b ELSE ino[i].first_child_block
    <3>1. ino[i] \in InodeRec
      OBVIOUS
    <3>2. QED
      BY <2>1, <3>1 DEF InodeRec
  <2>4. \A i \in Inodes : OwnedIn(inode', i) = OwnedIn(ino, i) \cup (IF i = d THEN {b} ELSE {})
    BY <2>1, <2>2, <2>3 DEF OwnedIn
  <2>5. \A i \in Inodes : b \notin OwnedIn(ino, i)
    BY <2>2 DEF Exclusive
  <2>6. ASSUME NEW i \in Inodes
        PROVE  /\ OwnedIn(inode', i) \subseteq block_bitmap'
               /\ \A j \in Inodes \ {i} : OwnedIn(inode', i) \cap OwnedIn(inode', j) = {}
    <3>1. OwnedIn(ino, i) \subseteq block_bitmap
      BY DEF Exclusive
    <3>2. ASSUME NEW j \in Inodes \ {i}
          PROVE  OwnedIn(inode', i) \cap OwnedIn(inode', j) = {}
      <4>1. OwnedIn(ino, i) \cap OwnedIn(ino, j) = {}
        BY DEF Exclusive
      <4>2. b \notin OwnedIn(ino, i) /\ b \notin OwnedIn(ino, j)
        BY <2>5
      <4>3. QED
        BY <2>4, <4>1, <4>2
    <3>3. QED
      BY <2>1, <2>4, <3>1, <3>2
  <2>7. ASSUME NEW i \in Inodes
        PROVE  /\ inode'[i].blocks \cap inode'[i].far = {}
               /\ inode'[i].first_child_block \notin inode'[i].blocks \cup inode'[i].far
    <3>1. CASE i = d
      BY <2>3, <2>5, <3>1 DEF Exclusive, OwnedIn
    <3>2. CASE i # d
      <4>1. /\ inode'[i].blocks = ino[i].blocks /\ inode'[i].far = ino[i].far
            /\ inode'[i].first_child_block = ino[i].first_child_block
        BY <2>3, <3>2
      <4>2. QED
        BY <4>1 DEF Exclusive
    <3>3. QED
      BY <3>1, <3>2
  <2>8. QED
    BY <2>6, <2>7 DEF Exclusive
<1>2. CASE inode' = ino /\ UNCHANGED block_bitmap
  BY <1>2
<1>3. QED
  BY <1>1, <1>2 DEF AddChild

LEMMA NewInodeExclusive ==
  ASSUME TypeOK, BlocksExclusive, NEW id \in Inodes, NEW name, NEW type,
         NEW dir, NEW count, NEW link, NEW target
  PROVE  Exclusive(NewInode(id, name, type, dir, count, link, target), block_bitmap)
<1> DEFINE ino == NewInode(id, name, type, dir, count, link, target)
<1>1. ASSUME NEW i \in Inodes
      PROVE  /\ ino[i].blocks = IF i = id THEN {} ELSE inode[i].blocks
             /\ ino[i].far = IF i = id THEN {} ELSE inode[i].far
             /\ ino[i].first_child_block = IF i = id THEN NONE ELSE inode[i].first_child_block
  BY DEF NewInode, TypeOK
<1>2. \A i \in Inodes : inode[i].blocks \subseteq Blocks /\ inode[i].far \subseteq Blocks
  BY DEF TypeOK, InodeRec
<1> HIDE DEF ino
<1>3. \A i \in Inodes : OwnedIn(ino, i) \subseteq block_bitmap
  BY <1>1 DEF BlocksExclusive, Owned, OwnedIn
<1>4. Exclusive(inode, block_bitmap)
  BY ExclusiveIsBlocksExclusive
<1>5. Exclusive(ino, block_bitmap)
  BY <1>1, <1>2, <1>3, <1>4, ExclusiveShrinks
<1>6. QED
  BY <1>5 DEF ino

(* An inode table that differs in other fields only. *)
LEMMA ExclusiveUnchanged ==
  ASSUME NEW ino, NEW same, NEW marked, Exclusive(ino, marked),
         \A i \in Inodes :
           /\ same[i].blocks = ino[i].blocks
           /\ same[i].far = ino[i].far
           /\ same[i].first_child_block = ino[i].first_child_block
  PROVE  Exclusive(same, marked)
<1>1. \A i \in Inodes : OwnedIn(same, i) = OwnedIn(ino, i)
  BY DEF OwnedIn
<1>2. QED
  BY <1>1 DEF Exclusive

(* Freeing the direct blocks of inode i together with its pointers to them. *)
LEMMA FreeDirectBlocks ==
  ASSUME TypeOK, BlocksExclusive, NEW i \in Inodes,
         block_bitmap' = block_bitmap \ inode[i].blocks,
         \A j \in Inodes :
           /\ inode'[j].blocks = IF j = i THEN {} ELSE inode[j].blocks
           /\ inode'[j].far = inode[j].far
           /\ inode'[j].first_child_block = inode[j].first_child_block
  PROVE  BlocksExclusive'
<1>1. Exclusive(inode, block_bitmap)
  BY ExclusiveIsBlocksExclusive
<1>2. \A j \in Inodes : inode[j].blocks \subseteq Blocks /\ inode[j].far \subseteq Blocks
  BY DEF TypeOK, InodeRec
<1>3. ASSUME NEW j \in Inodes
      PROVE  OwnedIn(inode', j) \subseteq block_bitmap'
  <2>1. OwnedIn(inode, j) \subseteq block_bitmap
    BY <1>1 DEF Exclusive
  <2>2. CASE j = i
    <3>1. /\ inode[i].blocks \cap inode[i].far = {}
          /\ inode[i].first_child_block \notin inode[i].blocks
      BY <1>1 DEF Exclusive
    <3>2. QED
      BY <2>1, <2>2, <3>1 DEF OwnedIn
  <2>3. CASE j # i
    <3>1. OwnedIn(inode, i) \cap OwnedIn(inode, j) = {}
      BY <1>1, <2>3 DEF Exclusive
    <3>2. inode[i].blocks \subseteq OwnedIn(inode, i)
      BY DEF OwnedIn
    <3>3. OwnedIn(inode', j) = OwnedIn(inode, j)
      BY <2>3 DEF OwnedIn
    <3>4. QED
      BY <2>1, <3>1, <3>2, <3>3
  <2>4. QED
    BY <2>2, <2>3
<1>4. Exclusive(inode', block_bitmap')
  BY <1>1, <1>2, <1>3, ExclusiveShrinks
<1>5. QED
  BY <1>4, ExclusiveIsBlocksExclusive

LEMMA WriteDataExclusive ==
  ASSUME TypeOK, BlocksExclusive, NEW i \in Inodes, NEW n \in Nat, WriteData(i, n)
  PROVE  BlocksExclusive'
<1>1. PICK got \in SUBSET FreeBlocks, direct \in SUBSET FreeBlocks :
        /\ direct \subseteq got
        /\ inode' = [inode EXCEPT ![i] =
                       [@ EXCEPT !.size = Larger(inode[i].size, n),
                                 !.blocks = inode[i].blocks \cup direct,
                                 !.far = inode[i].far \cup (got \ direct)]]
        /\ block_bitmap' = block_bitmap \cup got
  BY DEF WriteData, Lowest
<1>2. ASSUME NEW j \in Inodes
      PROVE  /\ inode'[j].blocks = IF j = i THEN inode[j].blocks \cup direct ELSE inode[j].blocks
             /\ inode'[j].far = IF j = i THEN inode[j].far \cup (got \ direct) ELSE inode[j].far
             /\ inode'[j].first_child_block = inode[j].first_child_block
  <2>1. inode[j] \in InodeRec
    BY DEF TypeOK
  <2>2. QED
    BY <1>1, <2>1 DEF TypeOK, InodeRec
<1>3. Exclusive(inode, block_bitmap)
  BY ExclusiveIsBlocksExclusive
<1>4. \A j \in Inodes : OwnedIn(inode', j) = OwnedIn(inode, j) \cup (IF j = i THEN got ELSE {})
  <2>1. ASSUME NEW j \in Inodes, j = i
        PROVE  OwnedIn(inode', j) = OwnedIn(inode, j) \cup got
    BY <1>1, <1>2, <2>1 DEF OwnedIn
  <2>2. ASSUME NEW j \in Inodes, j # i
        PROVE  OwnedIn(inode', j) = OwnedIn(inode, j)
    BY <1>2, <2>2 DEF OwnedIn
  <2>3. QED
    BY <2>1, <2>2
<1>5. got \cap block_bitmap = {} /\ NONE \notin got
  <2>1. NONE \notin Blocks
    BY DEF Blocks
  <2>2. QED
    BY <2>1 DEF FreeBlocks
<1>6. ASSUME NEW j \in Inodes
      PROVE  OwnedIn(inode, j) \subseteq block_bitmap /\ OwnedIn(inode, j) \cap got = {}
  BY <1>3, <1>5 DEF Exclusive
<1>7. ASSUME NEW j \in Inodes, NEW k \in Inodes \ {j}
      PROVE  OwnedIn(inode', j) \cap OwnedIn(inode', k) = {}
  <2>1. OwnedIn(inode, j) \cap OwnedIn(inode, k) = {}
    BY <1>3 DEF Exclusive
  <2>2. QED
    BY <1>4, <1>6, <2>1
<1>8. ASSUME NEW j \in Inodes
      PROVE  /\ inode'[j].blocks \cap inode'[j].far = {}
             /\ inode'[j].first_child_block \notin inode'[j].blocks \cup inode'[j].far
  <2>1. /\ inode[j].blocks \cap inode[j].far = {}
        /\ inode[j].first_child_block \notin inode[j].blocks \cup inode[j].far
    BY <1>3 DEF Exclusive
  <2>2. /\ inode[j].blocks \cap got = {} /\ inode[j].far \cap got = {}
        /\ inode[j].first_child_block \notin got
    <3>1. CASE inode[j].first_child_block = NONE
      BY <1>5, <1>6, <3>1 DEF OwnedIn
    <3>2. CASE inode[j].first_child_block # NONE
      BY <1>6, <3>2 DEF OwnedIn
    <3>3. QED
      BY <3>1, <3>2
  <2>3. CASE j = i
    <3>1. /\ inode'[j].blocks = inode[j].blocks \cup direct
          /\ inode'[j].far = inode[j].far \cup (got \ direct)
          /\ inode'[j].first_child_block = inode[j].first_child_block
      BY <1>2, <2>3
    <3>2. QED
      BY <1>1, <2>1, <2>2, <3>1
  <2>4. CASE j # i
    <3>1. /\ inode'[j].blocks = inode[j].blocks /\ inode'[j].far = inode[j].far
          /\ inode'[j].first_child_block = inode[j].first_child_block
      BY <1>2, <2>4
    <3>2. QED
      BY <2>1, <3>1
  <2>5. QED
    BY <2>3, <2>4
<1>9. Exclusive(inode', block_bitmap')
  BY <1>1, <1>4, <1>6, <1>7, <1>8 DEF Exclusive
<1>10. QED
  BY <1>9, ExclusiveIsBlocksExclusive

LEMMA BlocksStep ==
  ASSUME TypeOK, BlocksExclusive, [Next]_vars
  PROVE  BlocksExclusive'
<1> USE DEF Typed, At
<1>a. Exclusive(inode, block_bitmap)
  BY ExclusiveIsBlocksExclusive
<1>b. ASSUME NEW name \in Stored, NEW type \in NodeType, NEW dir \in Inodes,
             Create(name, type, dir)
      PROVE  BlocksExclusive'
  <2>1. PICK id \in FreeInodes :
          AddChild(NewInode(id, name, type, dir, IF type = "FILE" THEN 1 ELSE 0,
                            inode[id].symlink_target, inode[id].target_inode), dir, id)
    BY <1>b DEF Create
  <2>2. id \in Inodes /\ inode[id] \in InodeRec
    BY DEF FreeInodes, TypeOK
  <2>3. /\ (IF type = "FILE" THEN 1 ELSE 0) \in 0 .. LINK_MOD - 1
        /\ inode[id].symlink_target \in Path /\ inode[id].target_inode \in Inodes
    BY <2>2, MfsAssumption DEF MfsAssumption, InodeRec
  <2>4. NewInode(id, name, type, dir, IF type = "FILE" THEN 1 ELSE 0,
                 inode[id].symlink_target, inode[id].target_inode) \in [Inodes -> InodeRec]
    BY <1>b, <2>2, <2>3, NewInodeType
  <2>5. QED
    BY <1>b, <2>1, <2>2, <2>4, NewInodeExclusive, AddChildExclusive, ExclusiveIsBlocksExclusive
<1>1. ASSUME NEW p \in Paths, CreateFile(p)
      PROVE  BlocksExclusive'
  BY <1>1, <1>b, StoredName DEF CreateFile, NodeType
<1>2. ASSUME NEW p \in Paths, CreateDir(p)
      PROVE  BlocksExclusive'
  BY <1>2, <1>b, StoredName DEF CreateDir, NodeType
<1>3. ASSUME NEW t \in SymlinkTexts, NEW p \in Paths, CreateSymlink(t, p)
      PROVE  BlocksExclusive'
  <2>1. PICK dir \in Inodes, id \in FreeInodes :
          AddChild(NewInode(id, BasePart(p), "SYMLINK", dir, inode[id].link_count,
                            t, inode[id].target_inode), dir, id)
    BY <1>3 DEF CreateSymlink
  <2>2. id \in Inodes /\ inode[id] \in InodeRec /\ t \in Path
    BY MfsAssumption DEF FreeInodes, TypeOK, MfsAssumption
  <2>3. inode[id].link_count \in 0 .. LINK_MOD - 1 /\ inode[id].target_inode \in Inodes
    BY <2>2 DEF InodeRec
  <2>4. NewInode(id, BasePart(p), "SYMLINK", dir, inode[id].link_count,
                 t, inode[id].target_inode) \in [Inodes -> InodeRec]
    BY <2>2, <2>3, NewInodeType, StoredName DEF NodeType
  <2>5. QED
    BY <2>1, <2>2, <2>4, NewInodeExclusive, AddChildExclusive, ExclusiveIsBlocksExclusive
<1>4. ASSUME NEW t \in Paths, NEW p \in Paths, CreateHardlink(t, p)
      PROVE  BlocksExclusive'
  <2>1. PICK target \in Inodes, dir \in Inodes, id \in FreeInodes :
          LET ino == NewInode(id, BasePart(p), "HARDLINK", dir, inode[id].link_count,
                              inode[id].symlink_target, target)
              links == (ino[target].link_count + 1) % LINK_MOD
          IN  AddChild([ino EXCEPT ![target].link_count = links], dir, id)
    BY <1>4 DEF CreateHardlink
  <2> DEFINE ino == NewInode(id, BasePart(p), "HARDLINK", dir, inode[id].link_count,
                             inode[id].symlink_target, target)
             links == (ino[target].link_count + 1) % LINK_MOD
             counted == [ino EXCEPT ![target].link_count = links]
  <2>2. id \in Inodes /\ inode[id] \in InodeRec
    BY DEF FreeInodes, TypeOK
  <2>3. inode[id].link_count \in 0 .. LINK_MOD - 1 /\ inode[id].symlink_target \in Path
    BY <2>2 DEF InodeRec
  <2>4. ino \in [Inodes -> InodeRec]
    BY <2>2, <2>3, NewInodeType, StoredName DEF NodeType
  <2>5. Exclusive(ino, block_bitmap)
    BY <2>2, NewInodeExclusive
  <2>6. AddChild(counted, dir, id)
    BY <2>1
  <2> HIDE DEF ino
  <2>7. ino[target] \in InodeRec
    BY <2>4
  <2>8. links \in 0 .. LINK_MOD - 1
    BY <2>7, MfsAssumption DEF InodeRec, MfsAssumption
  <2> HIDE DEF links
  <2>9. counted \in [Inodes -> InodeRec]
    BY <2>4, <2>7, <2>8, SetLinkCount
  <2>10. \A i \in Inodes :
           /\ counted[i].blocks = ino[i].blocks
           /\ counted[i].far = ino[i].far
           /\ counted[i].first_child_block = ino[i].first_child_block
    BY <2>4, <2>7 DEF InodeRec
  <2> HIDE DEF counted
  <2>11. Exclusive(counted, block_bitmap)
    BY <2>5, <2>10, ExclusiveUnchanged
  <2>12. QED
    BY <2>2, <2>6, <2>9, <2>11, AddChildExclusive, ExclusiveIsBlocksExclusive
<1>5. ASSUME NEW p \in Paths, NEW n \in 1 .. MAX_WRITE, WriteFile(p, n)
      PROVE  BlocksExclusive'
  <2>1. n \in Nat
    BY MfsAssumption DEF MfsAssumption
  <2>2. QED
    BY <1>5, <2>1, WriteDataExclusive DEF WriteFile
<1>6. ASSUME NEW p \in Paths, RemoveFile(p)
      PROVE  BlocksExclusive'
  <2>1. PICK id \in Inodes : DropName(id) \/ DropFile(id) \/ DropSymlink(id)
    BY <1>6 DEF RemoveFile
  <2>2. \A i \in Inodes : inode[i] \in InodeRec
    BY DEF TypeOK
  <2>3. CASE DropName(id)
    <3>1. \A i \in Inodes :
            /\ inode'[i].blocks = inode[i].blocks
            /\ inode'[i].far = inode[i].far
            /\ inode'[i].first_child_block = inode[i].first_child_block
      BY <2>2, <2>3 DEF DropName, TypeOK, InodeRec
    <3>2. block_bitmap' = block_bitmap
      BY <2>3 DEF DropName
    <3>3. QED
      BY <1>a, <3>1, <3>2, ExclusiveUnchanged, ExclusiveIsBlocksExclusive
  <2>4. CASE DropFile(id)
    <3>1. \A j \in Inodes :
            /\ inode'[j].blocks = IF j = id THEN {} ELSE inode[j].blocks
            /\ inode'[j].far = inode[j].far
            /\ inode'[j].first_child_block = inode[j].first_child_block
      BY <2>2, <2>4 DEF DropFile, TypeOK, InodeRec
    <3>2. block_bitmap' = block_bitmap \ inode[id].blocks
      BY <2>4 DEF DropFile
    <3>3. QED
      BY <3>1, <3>2, FreeDirectBlocks
  <2>5. CASE DropSymlink(id)
    BY <1>a, <2>5, ExclusiveIsBlocksExclusive DEF DropSymlink
  <2>6. QED
    BY <2>1, <2>3, <2>4, <2>5
<1>7. ASSUME NEW p \in Paths, RemoveDir(p)
      PROVE  BlocksExclusive'
  <2>1. PICK id \in Inodes :
          /\ inode' = [inode EXCEPT ![id] =
                         [@ EXCEPT !.type = "FILE", !.size = 0, !.blocks = {},
                                   !.first_child_block = NONE]]
          /\ block_bitmap' = block_bitmap
    BY <1>7 DEF RemoveDir
  <2>2. ASSUME NEW i \in Inodes
        PROVE  /\ inode'[i].blocks = IF i = id THEN {} ELSE inode[i].blocks
               /\ inode'[i].far = inode[i].far
               /\ inode'[i].first_child_block =
                    IF i = id THEN NONE ELSE inode[i].first_child_block
               /\ inode[i].blocks \subseteq Blocks /\ inode[i].far \subseteq Blocks
    <3>1. inode[i] \in InodeRec
      BY DEF TypeOK
    <3>2. QED
      BY <2>1, <3>1 DEF TypeOK, InodeRec
  <2>3. \A i \in Inodes : OwnedIn(inode', i) \subseteq block_bitmap'
    BY <1>a, <2>1, <2>2 DEF Exclusive, OwnedIn
  <2>4. QED
    BY <1>a, <2>2, <2>3, ExclusiveShrinks, ExclusiveIsBlocksExclusive
<1>8. ASSUME NEW p \in Paths, Unlink(p)
      PROVE  BlocksExclusive'
  <2>1. PICK id \in Inodes :
          \/ /\ inode' = [inode EXCEPT ![inode[id].target_inode].link_count =
                             (inode[inode[id].target_inode].link_count - 1) % LINK_MOD]
             /\ block_bitmap' = block_bitmap
          \/ /\ inode' = [inode EXCEPT ![inode[id].target_inode] =
                            [@ EXCEPT !.link_count = 0, !.blocks = {}]]
             /\ block_bitmap' = block_bitmap \ inode[inode[id].target_inode].blocks
    BY <1>8 DEF Unlink
  <2>2. \A i \in Inodes : inode[i] \in InodeRec
    BY DEF TypeOK
  <2>3. inode[id].target_inode \in Inodes
    BY <2>2 DEF InodeRec
  <2>4. CASE /\ inode' = [inode EXCEPT ![inode[id].target_inode].link_count =
                             (inode[inode[id].target_inode].link_count - 1) % LINK_MOD]
             /\ block_bitmap' = block_bitmap
    <3>1. \A i \in Inodes :
            /\ inode'[i].blocks = inode[i].blocks
            /\ inode'[i].far = inode[i].far
            /\ inode'[i].first_child_block = inode[i].first_child_block
      <4> DEFINE count == (inode[inode[id].target_inode].link_count - 1) % LINK_MOD
      <4>1. inode' = [inode EXCEPT ![inode[id].target_inode].link_count = count]
        BY <2>4
      <4> HIDE DEF count
      <4>2. ASSUME NEW i \in Inodes
            PROVE  /\ inode'[i].blocks = inode[i].blocks
                   /\ inode'[i].far = inode[i].far
                   /\ inode'[i].first_child_block = inode[i].first_child_block
        <5>1. inode[i] \in InodeRec
          BY <2>2
        <5>2. inode'[i] = IF i = inode[id].target_inode
                          THEN [inode[i] EXCEPT !.link_count = count] ELSE inode[i]
          BY <2>3, <4>1 DEF TypeOK
        <5>3. [inode[i] EXCEPT !.link_count = count].blocks = inode[i].blocks
          BY <5>1 DEF InodeRec
        <5>4. [inode[i] EXCEPT !.link_count = count].far = inode[i].far
          BY <5>1 DEF InodeRec
        <5>5. [inode[i] EXCEPT !.link_count = count].first_child_block
                = inode[i].first_child_block
          BY <5>1 DEF InodeRec
        <5>6. QED
          BY <5>2, <5>3, <5>4, <5>5
      <4>3. QED
        BY <4>2
    <3>2. block_bitmap' = block_bitmap
      BY <2>4
    <3>3. QED
      BY <1>a, <3>1, <3>2, ExclusiveUnchanged, ExclusiveIsBlocksExclusive
  <2>5. CASE /\ inode' = [inode EXCEPT ![inode[id].target_inode] =
                            [@ EXCEPT !.link_count = 0, !.blocks = {}]]
             /\ block_bitmap' = block_bitmap \ inode[inode[id].target_inode].blocks
    <3>1. \A j \in Inodes :
            /\ inode'[j].blocks = IF j = inode[id].target_inode THEN {} ELSE inode[j].blocks
            /\ inode'[j].far = inode[j].far
            /\ inode'[j].first_child_block = inode[j].first_child_block
      BY <2>2, <2>3, <2>5 DEF TypeOK, InodeRec
    <3>2. QED
      BY <2>3, <2>5, <3>1, FreeDirectBlocks
  <2>6. QED
    BY <2>1, <2>4, <2>5
<1>9. ASSUME NEW p \in Paths, ChangeDir(p)
      PROVE  BlocksExclusive'
  BY <1>a, <1>9, ExclusiveIsBlocksExclusive DEF ChangeDir
<1>10. CASE UNCHANGED vars
  BY <1>a, <1>10, ExclusiveIsBlocksExclusive DEF vars
<1>11. QED
  BY <1>1, <1>2, <1>3, <1>4, <1>5, <1>6, <1>7, <1>8, <1>9, <1>10 DEF Next

LEMMA InitBlocks == Init => BlocksExclusive
<1>1. ASSUME Init, NEW i \in Inodes
      PROVE  /\ inode[i].blocks = {} /\ inode[i].far = {}
             /\ inode[i].first_child_block = NONE
  BY <1>1 DEF Init
<1>2. QED
  BY <1>1 DEF BlocksExclusive, Owned

(* Whatever the user types - hard links to links, the current directory      *)
(* removed - two inodes never share a block, no block is both directory and  *)
(* data, and alloc_block never hands out a block in use.                     *)
THEOREM BlocksStayExclusive == Spec => []BlocksExclusive
<1>1. Init => BlocksExclusive
  BY InitBlocks
<1>2. TypeOK /\ BlocksExclusive /\ [Next]_vars => BlocksExclusive'
  BY BlocksStep
<1>3. QED
  BY <1>1, <1>2, TypeCorrect, PTL DEF Spec

-----------------------------------------------------------------------------
(* Paths.  The recursive functions that walk them exist, and from a named   *)
(* inode they reach only named inodes.                                      *)

LEMMA LeastIsLeast ==
  ASSUME NEW S \in SUBSET Nat, S # {}
  PROVE  Least(S) \in S /\ \A k \in S : Least(S) <= k
<1>1. \E m \in S : \A k \in S : m <= k
  BY LeastExists
<1> QED  BY <1>1 DEF Least

LEMMA LookupFinds ==
  ASSUME TypeOK, NEW d \in Inodes, NEW name
  PROVE  \/ /\ Lookup(d, name) = NONE
            /\ \A s \in Children(d) : inode[Entry(d, s)].name # name
         \/ \E s \in Children(d) : Lookup(d, name) = Entry(d, s)
<1> DEFINE hits == {s \in Children(d) : inode[Entry(d, s)].name = name}
<1>1. CASE hits = {}
  BY <1>1 DEF Lookup
<1>2. CASE hits # {}
  <2>1. hits \in SUBSET Nat
    BY MfsAssumption DEF Children, Used, Slots, MfsAssumption
  <2>2. Least(hits) \in hits
    BY <1>2, <2>1, LeastIsLeast
  <2> QED  BY <1>2, <2>2 DEF Lookup
<1> QED  BY <1>1, <1>2

LEMMA EntryType ==
  ASSUME TypeOK, NEW d \in Inodes, NEW s \in Children(d)
  PROVE  /\ s \in Slots /\ s \in Nat
         /\ inode[d].type = "DIR" /\ inode[d].first_child_block \in Blocks
         /\ Entry(d, s) \in Inodes
  BY MfsAssumption DEF TypeOK, InodeRec, Children, Used, Entry, Slots, MfsAssumption

LEMMA LookupType ==
  ASSUME TypeOK, NEW d \in Inodes, NEW name
  PROVE  Lookup(d, name) \in Inodes \cup {NONE}
  BY LookupFinds, EntryType

LEMMA StartType ==
  ASSUME TypeOK, NEW p
  PROVE  Start(p) \in Inodes
  BY MfsAssumption DEF Start, TypeOK, Inodes, MfsAssumption

LEMMA WalkOnType ==
  ASSUME TypeOK, NEW walk \in [Walks -> Inodes \cup {NONE}],
         NEW n \in 0 .. MAX_FOLLOW, NEW cur \in Inodes, NEW toks \in Seq(Stored)
  PROVE  WalkOn(walk, n, cur, toks) \in Inodes \cup {NONE}
<1> DEFINE found == Lookup(cur, Head(toks))
           target == inode[found].symlink_target
           resolved == IF n = 0 THEN NONE ELSE walk[<<n - 1, Start(target), target.toks>>]
<1>1. inode[cur].parent \in Inodes
  BY DEF TypeOK, InodeRec
<1>2. found \in Inodes \cup {NONE}
  BY LookupType
<1>3. ASSUME toks # <<>>, NEW i \in Inodes
      PROVE  walk[<<n, i, Tail(toks)>>] \in Inodes \cup {NONE}
  <2>1. Tail(toks) \in Seq(Stored)
    BY <1>3
  <2>2. <<n, i, Tail(toks)>> \in Walks
    BY <2>1 DEF Walks
  <2> QED  BY <2>2
<1>4. ASSUME found # NONE
      PROVE  resolved \in Inodes \cup {NONE}
  <2>1. target \in Path
    BY <1>2, <1>4 DEF TypeOK, InodeRec
  <2>2. Start(target) \in Inodes /\ target.toks \in Seq(Stored)
    BY <2>1, StartType DEF Path
  <2>3. n # 0 => n - 1 \in 0 .. MAX_FOLLOW
    BY MfsAssumption DEF MfsAssumption
  <2> HIDE DEF target
  <2> QED  BY <2>2, <2>3 DEF Walks
<1>5. CASE toks = <<>> \/ Head(toks) = ""
  BY <1>5 DEF WalkOn
<1>6. CASE toks # <<>> /\ Head(toks) # "" /\ Head(toks) \in {".", ".."}
  BY <1>1, <1>3, <1>6 DEF WalkOn
<1>7. CASE toks # <<>> /\ Head(toks) \notin {"", ".", ".."}
  <2>1. WalkOn(walk, n, cur, toks)
          = IF found = NONE THEN NONE
            ELSE IF Len(toks) = 1 \/ inode[found].type # "SYMLINK"
            THEN walk[<<n, found, Tail(toks)>>]
            ELSE IF resolved = NONE THEN NONE
            ELSE IF inode[resolved].type # "DIR" THEN NONE
            ELSE walk[<<n, resolved, Tail(toks)>>]
    BY <1>7 DEF WalkOn
  <2> HIDE DEF found, resolved
  <2> QED  BY <2>1, <1>2, <1>3, <1>4, <1>7
<1> QED  BY <1>5, <1>6, <1>7

(* What WalkOn computes depends on shorter walks only. *)
LEMMA WalkOnLocal ==
  ASSUME TypeOK, NEW g \in [Walks -> Inodes \cup {NONE}],
         NEW h \in [Walks -> Inodes \cup {NONE}],
         NEW n \in 0 .. MAX_FOLLOW, NEW cur \in Inodes, NEW toks \in Seq(Stored),
         \A y \in Walks :
           y[1] < n \/ (y[1] = n /\ Len(y[3]) < Len(toks)) => g[y] = h[y]
  PROVE  WalkOn(g, n, cur, toks) = WalkOn(h, n, cur, toks)
<1> DEFINE found == Lookup(cur, Head(toks))
           target == inode[found].symlink_target
           resolved(w) == IF n = 0 THEN NONE ELSE w[<<n - 1, Start(target), target.toks>>]
<1>1. inode[cur].parent \in Inodes
  BY DEF TypeOK, InodeRec
<1>2. found \in Inodes \cup {NONE}
  BY LookupType
<1>3. ASSUME toks # <<>>, NEW i \in Inodes
      PROVE  g[<<n, i, Tail(toks)>>] = h[<<n, i, Tail(toks)>>]
  <2>1. Tail(toks) \in Seq(Stored) /\ Len(Tail(toks)) < Len(toks)
    BY <1>3
  <2>2. <<n, i, Tail(toks)>> \in Walks
    BY <2>1 DEF Walks
  <2> QED  BY <2>1, <2>2
<1>4. ASSUME found # NONE
      PROVE  resolved(g) = resolved(h) /\ resolved(g) \in Inodes \cup {NONE}
  <2>1. target \in Path
    BY <1>2, <1>4 DEF TypeOK, InodeRec
  <2>2. Start(target) \in Inodes /\ target.toks \in Seq(Stored)
    BY <2>1, StartType DEF Path
  <2>3. n # 0 => n - 1 \in 0 .. MAX_FOLLOW /\ n - 1 < n
    BY MfsAssumption DEF MfsAssumption
  <2> HIDE DEF target
  <2>4. n # 0 => <<n - 1, Start(target), target.toks>> \in Walks
    BY <2>2, <2>3 DEF Walks
  <2> QED  BY <2>3, <2>4
<1>5. CASE toks = <<>> \/ Head(toks) = ""
  BY <1>5 DEF WalkOn
<1>6. CASE toks # <<>> /\ Head(toks) # "" /\ Head(toks) \in {".", ".."}
  BY <1>1, <1>3, <1>6 DEF WalkOn
<1>7. CASE toks # <<>> /\ Head(toks) \notin {"", ".", ".."}
  <2>1. \A w : WalkOn(w, n, cur, toks)
          = IF found = NONE THEN NONE
            ELSE IF Len(toks) = 1 \/ inode[found].type # "SYMLINK"
            THEN w[<<n, found, Tail(toks)>>]
            ELSE IF resolved(w) = NONE THEN NONE
            ELSE IF inode[resolved(w)].type # "DIR" THEN NONE
            ELSE w[<<n, resolved(w), Tail(toks)>>]
    BY <1>7 DEF WalkOn
  <2> HIDE DEF found, resolved
  <2> QED  BY <2>1, <1>2, <1>3, <1>4, <1>7
<1> QED  BY <1>5, <1>6, <1>7

(* Find is the value of a function that satisfies its recursive equation. *)
LEMMA FindUnfolds ==
  ASSUME TypeOK
  PROVE  \E walk :
           /\ walk = [x \in Walks |-> WalkOn(walk, x[1], x[2], x[3])]
           /\ \A p : Find(p) = walk[<<MAX_FOLLOW, Start(p), p.toks>>]
<1> DEFINE Val == Inodes \cup {NONE}
           major == [x \in Walks |-> x[1]]
           minor == [x \in Walks |-> Len(x[3])]
           body == [w \in [Walks -> Val] |-> [x \in Walks |-> WalkOn(w, x[1], x[2], x[3])]]
<1>1. ASSUME NEW x \in Walks
      PROVE  /\ x[1] \in 0 .. MAX_FOLLOW /\ x[1] \in Nat
             /\ x[2] \in Inodes /\ x[3] \in Seq(Stored) /\ Len(x[3]) \in Nat
  BY MfsAssumption DEF Walks, MfsAssumption
<1>2. major \in [Walks -> Nat] /\ minor \in [Walks -> Nat]
  BY <1>1
<1>3. body \in [[Walks -> Val] -> [Walks -> Val]]
  BY <1>1, WalkOnType
<1>4. ASSUME NEW g \in [Walks -> Val], NEW h \in [Walks -> Val], NEW x \in Walks,
             \A y \in Walks : Precedes(major, minor, y, x) => g[y] = h[y]
      PROVE  body[g][x] = body[h][x]
  <2>1. \A y \in Walks : y[1] < x[1] \/ (y[1] = x[1] /\ Len(y[3]) < Len(x[3])) => g[y] = h[y]
    BY <1>4 DEF Precedes
  <2>2. WalkOn(g, x[1], x[2], x[3]) = WalkOn(h, x[1], x[2], x[3])
    BY <2>1, <1>1, WalkOnLocal
  <2> QED  BY <2>2
<1>5. NONE \in Val
  OBVIOUS
<1>6. \E f \in [Walks -> Val] : f = body[f]
  <2>1. \A g, h \in [Walks -> Val] : \A x \in Walks :
          (\A y \in Walks : Precedes(major, minor, y, x) => g[y] = h[y])
            => body[g][x] = body[h][x]
    BY <1>4
  <2>2. Grounded(Walks, Val, major, minor, body)
    <3> HIDE DEF major, minor, body, Val
    <3> QED  BY <1>2, <1>3, <2>1 DEF Grounded
  <2> HIDE DEF major, minor, body, Val
  <2> QED  BY <1>5, <2>2, RecursionExists
<1>7. \E f : f = [x \in Walks |-> WalkOn(f, x[1], x[2], x[3])]
  BY <1>6
<1> DEFINE walk == CHOOSE f : f = [x \in Walks |-> WalkOn(f, x[1], x[2], x[3])]
<1>8. walk = [x \in Walks |-> WalkOn(walk, x[1], x[2], x[3])]
  BY <1>7
<1>9. \A p : Find(p) = walk[<<MAX_FOLLOW, Start(p), p.toks>>]
  BY DEF Find
<1> QED  BY <1>8, <1>9

(* The inodes a path can lead to: the root and what a directory lists. *)
Named == {0} \cup {i \in Inodes : ListedIn(i) # {}}

(* A directory with entries can itself be reached. *)
TreeRooted ==
  /\ inode[0].type = "DIR" /\ inode[0].parent = 0
  /\ current_dir \in Named
  /\ \A d \in Inodes : Children(d) # {} => d \in Named

LEMMA NamedType ==
  TypeOK => Named \subseteq Inodes
  BY MfsAssumption DEF Named, Inodes, MfsAssumption

LEMMA StepsStayNamed ==
  ASSUME TypeOK, EntryAgreesWithParent, TreeRooted, NEW i \in Named, NEW name
  PROVE  inode[i].parent \in Named /\ Lookup(i, name) \in Named \cup {NONE}
<1>1. i \in Inodes
  BY NamedType
<1>2. inode[i].parent \in Named
  <2>1. CASE i = 0
    BY <2>1 DEF TreeRooted, Named
  <2>2. CASE i # 0
    <3>1. PICK d \in Inodes : \E s \in Children(d) : Entry(d, s) = i
      BY <2>2 DEF Named, ListedIn
    <3>2. inode[i].parent = d
      BY <3>1 DEF EntryAgreesWithParent
    <3> QED  BY <3>1, <3>2 DEF TreeRooted
  <2> QED  BY <2>1, <2>2
<1>3. ASSUME NEW s \in Children(i)
      PROVE  Entry(i, s) \in Named
  BY <1>1, EntryType DEF Named, ListedIn
<1>4. Lookup(i, name) \in Named \cup {NONE}
  BY <1>1, <1>3, LookupFinds
<1> QED  BY <1>2, <1>4

LEMMA WalkOnStaysNamed ==
  ASSUME TypeOK, EntryAgreesWithParent, TreeRooted, NEW walk,
         NEW n \in 0 .. MAX_FOLLOW, NEW cur \in Named, NEW toks \in Seq(Stored),
         \A y \in Walks :
           /\ y[1] < n \/ (y[1] = n /\ Len(y[3]) < Len(toks))
           /\ y[2] \in Named
           => walk[y] \in Named \cup {NONE}
  PROVE  WalkOn(walk, n, cur, toks) \in Named \cup {NONE}
<1> DEFINE found == Lookup(cur, Head(toks))
           target == inode[found].symlink_target
           resolved == IF n = 0 THEN NONE ELSE walk[<<n - 1, Start(target), target.toks>>]
<1>1. inode[cur].parent \in Named
  BY StepsStayNamed
<1>2. found \in Named \cup {NONE}
  BY StepsStayNamed
<1>3. ASSUME toks # <<>>, NEW i \in Named
      PROVE  walk[<<n, i, Tail(toks)>>] \in Named \cup {NONE}
  <2>1. Tail(toks) \in Seq(Stored) /\ Len(Tail(toks)) < Len(toks)
    BY <1>3
  <2>2. <<n, i, Tail(toks)>> \in Walks
    BY <2>1, NamedType DEF Walks
  <2> QED  BY <2>1, <2>2
<1>4. ASSUME found # NONE
      PROVE  resolved \in Named \cup {NONE}
  <2>1. target \in Path
    BY <1>2, <1>4, NamedType DEF TypeOK, InodeRec
  <2>2. Start(target) \in Named /\ target.toks \in Seq(Stored)
    BY <2>1 DEF Path, Start, TreeRooted, Named
  <2>3. n # 0 => n - 1 \in 0 .. MAX_FOLLOW /\ n - 1 < n
    BY MfsAssumption DEF MfsAssumption
  <2> HIDE DEF target
  <2>4. n # 0 => <<n - 1, Start(target), target.toks>> \in Walks
    BY <2>2, <2>3, NamedType DEF Walks
  <2> QED  BY <2>2, <2>3, <2>4
<1>5. CASE toks = <<>> \/ Head(toks) = ""
  BY <1>5 DEF WalkOn
<1>6. CASE toks # <<>> /\ Head(toks) # "" /\ Head(toks) \in {".", ".."}
  BY <1>1, <1>3, <1>6 DEF WalkOn
<1>7. CASE toks # <<>> /\ Head(toks) \notin {"", ".", ".."}
  <2>1. WalkOn(walk, n, cur, toks)
          = IF found = NONE THEN NONE
            ELSE IF Len(toks) = 1 \/ inode[found].type # "SYMLINK"
            THEN walk[<<n, found, Tail(toks)>>]
            ELSE IF resolved = NONE THEN NONE
            ELSE IF inode[resolved].type # "DIR" THEN NONE
            ELSE walk[<<n, resolved, Tail(toks)>>]
    BY <1>7 DEF WalkOn
  <2> HIDE DEF found, resolved
  <2> QED  BY <2>1, <1>2, <1>3, <1>4, <1>7
<1> QED  BY <1>5, <1>6, <1>7

LEMMA FindNamed ==
  ASSUME TypeOK, EntryAgreesWithParent, TreeRooted, NEW p \in Path
  PROVE  Find(p) \in Named \cup {NONE}
<1>1. PICK walk :
        /\ walk = [x \in Walks |-> WalkOn(walk, x[1], x[2], x[3])]
        /\ \A q : Find(q) = walk[<<MAX_FOLLOW, Start(q), q.toks>>]
  BY FindUnfolds
<1> DEFINE major == [x \in Walks |-> x[1]]
           minor == [x \in Walks |-> Len(x[3])]
           Lost == {x \in Walks : x[2] \in Named /\ walk[x] \notin Named \cup {NONE}}
<1>2. ASSUME NEW x \in Walks
      PROVE  /\ x[1] \in 0 .. MAX_FOLLOW /\ x[1] \in Nat
             /\ x[2] \in Inodes /\ x[3] \in Seq(Stored) /\ Len(x[3]) \in Nat
  BY MfsAssumption DEF Walks, MfsAssumption
<1>3. major \in [Walks -> Nat] /\ minor \in [Walks -> Nat]
  BY <1>2
<1>4. Lost = {}
  <2>1. SUFFICES ASSUME Lost # {}  PROVE FALSE
    OBVIOUS
  <2>2. PICK x \in Lost : \A y \in Lost : ~Precedes(major, minor, y, x)
    <3>1. Lost \in SUBSET Walks
      OBVIOUS
    <3> HIDE DEF major, minor, Lost
    <3> QED  BY <1>3, <2>1, <3>1, FirstExists
  <2>3. ASSUME NEW y \in Walks, y[1] < x[1] \/ (y[1] = x[1] /\ Len(y[3]) < Len(x[3])),
               y[2] \in Named
        PROVE  walk[y] \in Named \cup {NONE}
    BY <2>2, <2>3 DEF Precedes
  <2>4. WalkOn(walk, x[1], x[2], x[3]) \in Named \cup {NONE}
    BY <2>3, <1>2, WalkOnStaysNamed
  <2>5. walk[x] = WalkOn(walk, x[1], x[2], x[3])
    BY <1>1
  <2> QED  BY <2>4, <2>5
<1>5. Start(p) \in Named /\ p.toks \in Seq(Stored)
  BY DEF Path, Start, TreeRooted, Named
<1>6. MAX_FOLLOW \in 0 .. MAX_FOLLOW
  BY MfsAssumption DEF MfsAssumption
<1>7. <<MAX_FOLLOW, Start(p), p.toks>> \in Walks
  BY <1>5, <1>6, NamedType DEF Walks
<1> QED  BY <1>1, <1>4, <1>5, <1>7

(* The path of an inode is made of names. *)
LEMMA PwdType ==
  ASSUME TypeOK, NEW i \in Inodes
  PROVE  Pwd(i) \in Seq(Stored)
<1> DEFINE Val == Seq(Stored)
           Climb(w, x) == IF x[2] = 0 \/ x[1] = 0 THEN <<>>
                          ELSE Append(w[<<x[1] - 1, inode[x[2]].parent>>], inode[x[2]].name)
           major == [x \in Climbs |-> x[1]]
           minor == [x \in Climbs |-> 0]
           body == [w \in [Climbs -> Val] |-> [x \in Climbs |-> Climb(w, x)]]
<1>1. ASSUME NEW x \in Climbs
      PROVE  x[1] \in 0 .. MAX_INODES /\ x[1] \in Nat /\ x[2] \in Inodes
  BY MfsAssumption DEF Climbs, MfsAssumption
<1>2. ASSUME NEW x \in Climbs, x[1] # 0
      PROVE  /\ <<x[1] - 1, inode[x[2]].parent>> \in Climbs
             /\ x[1] - 1 < x[1] /\ inode[x[2]].name \in Stored
  <2>1. inode[x[2]].parent \in Inodes /\ inode[x[2]].name \in Stored
    BY <1>1 DEF TypeOK, InodeRec
  <2>2. x[1] - 1 \in 0 .. MAX_INODES /\ x[1] - 1 < x[1]
    BY <1>1, <1>2, MfsAssumption DEF MfsAssumption
  <2> QED  BY <2>1, <2>2 DEF Climbs
<1>3. Grounded(Climbs, Val, major, minor, body)
  <2>1. major \in [Climbs -> Nat] /\ minor \in [Climbs -> Nat]
    BY <1>1
  <2>2. ASSUME NEW w \in [Climbs -> Val], NEW x \in Climbs
        PROVE  Climb(w, x) \in Val
    BY <1>1, <1>2
  <2>3. body \in [[Climbs -> Val] -> [Climbs -> Val]]
    BY <2>2
  <2>4. ASSUME NEW g \in [Climbs -> Val], NEW h \in [Climbs -> Val], NEW x \in Climbs,
               \A y \in Climbs : Precedes(major, minor, y, x) => g[y] = h[y]
        PROVE  body[g][x] = body[h][x]
    <3>1. \A y \in Climbs : y[1] < x[1] => g[y] = h[y]
      BY <2>4 DEF Precedes
    <3>2. Climb(g, x) = Climb(h, x)
      BY <3>1, <1>1, <1>2
    <3> QED  BY <3>2
  <2>5. \A g, h \in [Climbs -> Val] : \A x \in Climbs :
          (\A y \in Climbs : Precedes(major, minor, y, x) => g[y] = h[y])
            => body[g][x] = body[h][x]
    BY <2>4
  <2> HIDE DEF major, minor, body, Val
  <2> QED  BY <2>1, <2>3, <2>5 DEF Grounded
<1>4. \E f \in [Climbs -> Val] : f = body[f]
  <2>1. <<>> \in Val
    OBVIOUS
  <2> HIDE DEF major, minor, body, Val
  <2> QED  BY <1>3, <2>1, RecursionExists
<1> DEFINE up == CHOOSE f : f = [x \in Climbs |-> Climb(f, x)]
<1>5. up = [x \in Climbs |-> Climb(up, x)]
  <2>1. \E f : f = [x \in Climbs |-> Climb(f, x)]
    BY <1>4
  <2> QED  BY <2>1
<1>6. Pwd(i) = up[<<MAX_INODES, i>>]
  BY DEF Pwd
<1> HIDE DEF up
<1> DEFINE Wrong == {x \in Climbs : up[x] \notin Seq(Stored)}
<1>7. Wrong = {}
  <2>1. SUFFICES ASSUME Wrong # {}  PROVE FALSE
    OBVIOUS
  <2>2. PICK x \in Wrong : \A y \in Wrong : ~Precedes(major, minor, y, x)
    <3>1. Wrong \in SUBSET Climbs /\ major \in [Climbs -> Nat] /\ minor \in [Climbs -> Nat]
      BY <1>1
    <3> HIDE DEF major, minor, Wrong
    <3> QED  BY <2>1, <3>1, FirstExists
  <2>3. ASSUME NEW y \in Climbs, y[1] < x[1]
        PROVE  up[y] \in Seq(Stored)
    BY <2>2, <2>3 DEF Precedes
  <2>4. Climb(up, x) \in Seq(Stored)
    BY <2>3, <1>1, <1>2
  <2> QED  BY <2>4, <1>5
<1>8. <<MAX_INODES, i>> \in Climbs
  BY MfsAssumption DEF Climbs, MfsAssumption
<1> QED  BY <1>6, <1>7, <1>8

LEMMA LinkPathType ==
  ASSUME TypeOK, NEW i \in Inodes
  PROVE  LinkPath(i) \in Path
<1>1. inode[i].symlink_target \in Path /\ inode[i].parent \in Inodes
  BY DEF TypeOK, InodeRec
<1>2. Pwd(inode[i].parent) \in Seq(Stored)
  BY <1>1, PwdType
<1>3. Pwd(inode[i].parent) \o inode[i].symlink_target.toks \in Seq(Stored)
  BY <1>1, <1>2 DEF Path
<1> QED  BY <1>1, <1>3 DEF LinkPath, Path

LEMMA ResolveOnceNamed ==
  ASSUME TypeOK, EntryAgreesWithParent, TreeRooted, NEW i \in Named
  PROVE  ResolveOnce(i) \in Named \cup {NONE}
  BY NamedType, LinkPathType, FindNamed DEF ResolveOnce

(* What Resolve follows from a named inode are named inodes, and the target *)
(* of a hard link at the end.                                               *)
LEMMA ResolveReaches ==
  ASSUME TypeOK, EntryAgreesWithParent, TreeRooted, NEW i \in Named
  PROVE  \/ Resolve(i) \in Named \cup {NONE}
         \/ \E h \in Named : /\ inode[h].type = "HARDLINK"
                             /\ Resolve(i) = inode[h].target_inode
<1> DEFINE Val == Inodes \cup {NONE}
           major == [x \in Follows |-> MAX_LINK_DEPTH + 1 - x[1]]
           minor == [x \in Follows |-> 0]
           body == [w \in [Follows -> Val] |-> [x \in Follows |-> FollowOn(w, x[1], x[2])]]
<1>1. ASSUME NEW x \in Follows
      PROVE  /\ x[1] \in 0 .. MAX_LINK_DEPTH + 1 /\ MAX_LINK_DEPTH + 1 - x[1] \in Nat
             /\ x[2] \in Inodes \cup {NONE}
  BY MfsAssumption DEF Follows, MfsAssumption
<1>2. ASSUME NEW x \in Follows, x[1] <= MAX_LINK_DEPTH, x[2] # NONE
      PROVE  /\ <<x[1] + 1, Find(LinkPath(x[2]))>> \in Follows
             /\ MAX_LINK_DEPTH + 1 - (x[1] + 1) < MAX_LINK_DEPTH + 1 - x[1]
             /\ Find(LinkPath(x[2])) \in Named \cup {NONE}
             /\ inode[x[2]].target_inode \in Inodes
  <2>1. x[2] \in Inodes
    BY <1>1, <1>2
  <2>2. Find(LinkPath(x[2])) \in Named \cup {NONE}
    BY <2>1, LinkPathType, FindNamed
  <2>3. x[1] + 1 \in 0 .. MAX_LINK_DEPTH + 1
    BY <1>1, <1>2, MfsAssumption DEF MfsAssumption
  <2>4. inode[x[2]].target_inode \in Inodes
    BY <2>1 DEF TypeOK, InodeRec
  <2>5. MAX_LINK_DEPTH + 1 - (x[1] + 1) < MAX_LINK_DEPTH + 1 - x[1]
    BY <1>1, MfsAssumption DEF MfsAssumption
  <2> QED  BY <2>2, <2>3, <2>4, <2>5, NamedType DEF Follows
<1>a. ASSUME NEW w, NEW x \in Follows
      PROVE  FollowOn(w, x[1], x[2])
               = IF x[2] = NONE \/ ~(x[1] <= MAX_LINK_DEPTH) THEN NONE
                 ELSE IF inode[x[2]].type = "SYMLINK"
                 THEN w[<<x[1] + 1, Find(LinkPath(x[2]))>>]
                 ELSE IF inode[x[2]].type = "HARDLINK" THEN inode[x[2]].target_inode
                 ELSE x[2]
  <2>1. x[1] \in Int /\ MAX_LINK_DEPTH \in Int
    BY <1>1, MfsAssumption DEF MfsAssumption
  <2>2. x[1] > MAX_LINK_DEPTH <=> ~(x[1] <= MAX_LINK_DEPTH)
    BY <2>1
  <2> QED  BY <2>2 DEF FollowOn
<1>3. Grounded(Follows, Val, major, minor, body)
  <2>1. major \in [Follows -> Nat] /\ minor \in [Follows -> Nat]
    BY <1>1
  <2>2. ASSUME NEW w \in [Follows -> Val], NEW x \in Follows
        PROVE  FollowOn(w, x[1], x[2]) \in Val
    <3>1. CASE x[2] # NONE /\ x[1] <= MAX_LINK_DEPTH
      BY <3>1, <1>1, <1>2, <1>a
    <3>2. CASE ~(x[2] # NONE /\ x[1] <= MAX_LINK_DEPTH)
      BY <3>2, <1>a
    <3> QED  BY <3>1, <3>2
  <2>3. body \in [[Follows -> Val] -> [Follows -> Val]]
    BY <2>2
  <2>4. ASSUME NEW g \in [Follows -> Val], NEW h \in [Follows -> Val], NEW x \in Follows,
               \A y \in Follows : Precedes(major, minor, y, x) => g[y] = h[y]
        PROVE  body[g][x] = body[h][x]
    <3>1. \A y \in Follows :
            MAX_LINK_DEPTH + 1 - y[1] < MAX_LINK_DEPTH + 1 - x[1] => g[y] = h[y]
      BY <2>4 DEF Precedes
    <3>2. FollowOn(g, x[1], x[2]) = FollowOn(h, x[1], x[2])
      <4>1. CASE x[2] # NONE /\ x[1] <= MAX_LINK_DEPTH
        <5>1. g[<<x[1] + 1, Find(LinkPath(x[2]))>>] = h[<<x[1] + 1, Find(LinkPath(x[2]))>>]
          BY <4>1, <3>1, <1>2
        <5> QED  BY <4>1, <5>1, <1>a
      <4>2. CASE ~(x[2] # NONE /\ x[1] <= MAX_LINK_DEPTH)
        BY <4>2, <1>a
      <4> QED  BY <4>1, <4>2
    <3> QED  BY <3>2
  <2>5. \A g, h \in [Follows -> Val] : \A x \in Follows :
          (\A y \in Follows : Precedes(major, minor, y, x) => g[y] = h[y])
            => body[g][x] = body[h][x]
    BY <2>4
  <2> HIDE DEF major, minor, body, Val
  <2> QED  BY <2>1, <2>3, <2>5 DEF Grounded
<1>4. \E f \in [Follows -> Val] : f = body[f]
  <2>1. NONE \in Val
    OBVIOUS
  <2> HIDE DEF major, minor, body, Val
  <2> QED  BY <1>3, <2>1, RecursionExists
<1> DEFINE follow == CHOOSE f : f = [x \in Follows |-> FollowOn(f, x[1], x[2])]
<1>5. follow = [x \in Follows |-> FollowOn(follow, x[1], x[2])]
  <2>1. \E f : f = [x \in Follows |-> FollowOn(f, x[1], x[2])]
    BY <1>4
  <2> QED  BY <2>1
<1>6. Resolve(i) = follow[<<0, i>>]
  BY DEF Resolve
<1> HIDE DEF follow
<1> DEFINE Reached == Named \cup {NONE} \cup
             {inode[h].target_inode : h \in {k \in Named : inode[k].type = "HARDLINK"}}
           Lost == {x \in Follows : x[2] \in Named \cup {NONE} /\ follow[x] \notin Reached}
<1>7. Lost = {}
  <2>1. SUFFICES ASSUME Lost # {}  PROVE FALSE
    OBVIOUS
  <2>2. PICK x \in Lost : \A y \in Lost : ~Precedes(major, minor, y, x)
    <3>1. Lost \in SUBSET Follows /\ major \in [Follows -> Nat] /\ minor \in [Follows -> Nat]
      BY <1>1
    <3> HIDE DEF major, minor, Lost
    <3> QED  BY <2>1, <3>1, FirstExists
  <2>3. ASSUME NEW y \in Follows, y[2] \in Named \cup {NONE},
               MAX_LINK_DEPTH + 1 - y[1] < MAX_LINK_DEPTH + 1 - x[1]
        PROVE  follow[y] \in Reached
    BY <2>2, <2>3 DEF Precedes
  <2>4. FollowOn(follow, x[1], x[2]) \in Reached
    <3>1. CASE x[2] # NONE /\ x[1] <= MAX_LINK_DEPTH
      <4>1. follow[<<x[1] + 1, Find(LinkPath(x[2]))>>] \in Reached
        <5> HIDE DEF Reached
        <5> QED  BY <2>3, <1>2, <3>1
      <4>2. x[2] \in Named
        BY <3>1
      <4> QED  BY <4>1, <4>2, <3>1, <1>a
    <3>2. CASE ~(x[2] # NONE /\ x[1] <= MAX_LINK_DEPTH)
      BY <3>2, <1>a
    <3> QED  BY <3>1, <3>2
  <2> QED  BY <2>4, <1>5
<1>8. <<0, i>> \in Follows
  BY NamedType, MfsAssumption DEF Follows, MfsAssumption
<1>9. Resolve(i) \in Reached
  BY <1>6, <1>7, <1>8
<1> QED  BY <1>9

-----------------------------------------------------------------------------
(* Entries.  Holds says of any inode table and any directory blocks what    *)
(* Children and Entry say of the current ones, so that it can be used of    *)
(* the tables before and after a call alike.                                *)

Holds(ino, ent, d, s, c) ==
  /\ ino[d].type = "DIR"
  /\ ino[d].first_child_block # NONE
  /\ ent[ino[d].first_child_block][s] = c

(* Between two tables c is entered in a free slot of d, or nowhere. *)
Enters(ino, ent, ino2, ent2, d, c) ==
  \E free :
    /\ free \in Slots => \A x \in Inodes : ~Holds(ino, ent, d, free, x)
    /\ \A e \in Inodes, s \in Slots, x \in Inodes :
         Holds(ino2, ent2, e, s, x)
           <=> \/ Holds(ino, ent, e, s, x)
               \/ e = d /\ s = free /\ x = c /\ ino[d].type = "DIR"

(* Between two tables the entries of c are cleared. *)
Clears(ino, ent, ino2, ent2, c) ==
  \A e \in Inodes, s \in Slots, x \in Inodes :
    Holds(ino2, ent2, e, s, x) <=> Holds(ino, ent, e, s, x) /\ x # c

(* Two tables differ in the name, type and parent of inode c at most. *)
SameNodes(ino, ino2, c) ==
  \A i \in Inodes \ {c} : /\ ino2[i].name = ino[i].name
                          /\ ino2[i].type = ino[i].type
                          /\ ino2[i].parent = ino[i].parent

LEMMA HoldsIsEntry ==
  ASSUME TypeOK, NEW d \in Inodes, NEW s
  PROVE  /\ s \in Children(d) <=> s \in Slots /\ \E c \in Inodes : Holds(inode, dirent, d, s, c)
         /\ s \in Children(d) =>
              \A c : Holds(inode, dirent, d, s, c) <=> Entry(d, s) = c
<1>1. inode[d].first_child_block \in Blocks \cup {NONE}
  BY DEF TypeOK, InodeRec
<1>2. ASSUME s \in Slots, inode[d].first_child_block # NONE
      PROVE  dirent[inode[d].first_child_block][s] \in Inodes \cup {NONE}
  BY <1>1, <1>2 DEF TypeOK
<1>3. NONE \notin Inodes
  BY DEF Inodes
<1> QED  BY <1>2, <1>3 DEF Children, Used, Entry, Holds

LEMMA HoldsIsEntryNext ==
  ASSUME TypeOK', NEW d \in Inodes, NEW s
  PROVE  /\ s \in Children(d)' <=> s \in Slots /\ \E c \in Inodes : Holds(inode', dirent', d, s, c)
         /\ s \in Children(d)' =>
              \A c : Holds(inode', dirent', d, s, c) <=> Entry(d, s)' = c
<1>1. inode'[d].first_child_block \in Blocks \cup {NONE}
  BY DEF TypeOK, InodeRec
<1>2. ASSUME s \in Slots, inode'[d].first_child_block # NONE
      PROVE  dirent'[inode'[d].first_child_block][s] \in Inodes \cup {NONE}
  BY <1>1, <1>2 DEF TypeOK
<1>3. NONE \notin Inodes
  BY DEF Inodes
<1> QED  BY <1>2, <1>3 DEF Children, Used, Entry, Holds

(* The entry blocks of directories are marked, and none is that of inode d. *)
EntryBlocksApart(ino, marked, d) ==
  \A e \in Inodes :
    ino[e].type = "DIR" /\ ino[e].first_child_block # NONE =>
      /\ ino[e].first_child_block \in marked
      /\ e # d => ino[e].first_child_block # ino[d].first_child_block

LEMMA ExclusiveIsApart ==
  ASSUME NEW ino, NEW marked, Exclusive(ino, marked), NEW d \in Inodes
  PROVE  EntryBlocksApart(ino, marked, d)
  BY DEF Exclusive, OwnedIn, EntryBlocksApart

(* dir_add_child enters c in one free slot of d, or nowhere, and leaves all *)
(* other entries alone.                                                     *)
LEMMA AddChildEnters ==
  ASSUME TypeOK, NEW ino \in [Inodes -> InodeRec], NEW d \in Inodes, NEW c \in Inodes,
         EntryBlocksApart(ino, block_bitmap, d), AddChild(ino, d, c)
  PROVE  /\ \A i \in Inodes : inode'[i] = [ino[i] EXCEPT !.first_child_block =
                                               inode'[i].first_child_block]
         /\ Enters(ino, dirent, inode', dirent', d, c)
<1>0. NONE \notin Inodes /\ NONE \notin Blocks
  BY DEF Inodes, Blocks
<1>a. ASSUME NEW i \in Inodes
      PROVE  ino[i] \in InodeRec /\ ino[i].first_child_block \in Blocks \cup {NONE}
  BY DEF InodeRec
<1>b. ASSUME NEW e \in Inodes, ino[e].type = "DIR", ino[e].first_child_block # NONE
      PROVE  /\ e # d => ino[e].first_child_block # ino[d].first_child_block
             /\ ino[e].first_child_block \in block_bitmap
  BY <1>b DEF EntryBlocksApart
<1>1. CASE /\ ino[d].first_child_block = NONE
           /\ \E b \in FreeBlocks :
                /\ b = Least(FreeBlocks)
                /\ inode' = [ino EXCEPT ![d].first_child_block = b]
                /\ dirent' = [dirent EXCEPT ![b] = [s \in Slots |-> IF s = 0 THEN c ELSE NONE]]
                /\ block_bitmap' = block_bitmap \cup {b}
  <2>1. PICK b \in FreeBlocks :
             /\ inode' = [ino EXCEPT ![d].first_child_block = b]
             /\ dirent' = [dirent EXCEPT ![b] = [s \in Slots |-> IF s = 0 THEN c ELSE NONE]]
    BY <1>1
  <2>2. b \in Blocks /\ b \notin block_bitmap /\ b # NONE
    BY <1>0 DEF FreeBlocks
  <2>3. ASSUME NEW i \in Inodes
        PROVE  /\ inode'[i] = [ino[i] EXCEPT !.first_child_block = inode'[i].first_child_block]
               /\ inode'[i].type = ino[i].type
               /\ inode'[i].first_child_block = IF i = d THEN b ELSE ino[i].first_child_block
    BY <2>1, <1>a DEF InodeRec
  <2>4. ASSUME NEW e \in Inodes, NEW s \in Slots, NEW x \in Inodes
        PROVE  Holds(inode', dirent', e, s, x)
                 <=> \/ Holds(ino, dirent, e, s, x)
                     \/ e = d /\ s = 0 /\ x = c /\ ino[d].type = "DIR"
    <3>1. CASE e = d
      <4>1. dirent'[b][s] = IF s = 0 THEN c ELSE NONE
        BY <2>1, <2>2 DEF TypeOK
      <4> QED  BY <1>0, <1>1, <2>2, <2>3, <3>1, <4>1 DEF Holds
    <3>2. CASE e # d
      <4>1. /\ inode'[e].first_child_block = ino[e].first_child_block
            /\ inode'[e].type = ino[e].type
        BY <2>3, <3>2
      <4>2. ino[e].type = "DIR" /\ ino[e].first_child_block # NONE => ino[e].first_child_block # b
        BY <1>b, <2>2, <3>2
      <4>3. ino[e].type = "DIR" /\ ino[e].first_child_block # NONE =>
              dirent'[ino[e].first_child_block] = dirent[ino[e].first_child_block]
        BY <2>1, <4>2, <1>a DEF TypeOK
      <4> QED  BY <3>2, <4>1, <4>3 DEF Holds
    <3> QED  BY <3>1, <3>2
  <2>5. \A x \in Inodes : ~Holds(ino, dirent, d, 0, x)
    BY <1>1 DEF Holds
  <2>6. Enters(ino, dirent, inode', dirent', d, c)
    BY <2>4, <2>5 DEF Enters
  <2> QED  BY <2>3, <2>6
<1>2. CASE /\ ino[d].first_child_block # NONE
           /\ \E s \in Slots \ Used(ino, d) :
                /\ \A k \in Slots \ Used(ino, d) : s <= k
                /\ dirent' = [dirent EXCEPT ![ino[d].first_child_block][s] = c]
           /\ inode' = ino
           /\ UNCHANGED block_bitmap
  <2> DEFINE b == ino[d].first_child_block
  <2>1. b \in Blocks
    BY <1>2, <1>a
  <2>2. PICK free \in Slots \ Used(ino, d) : dirent' = [dirent EXCEPT ![b][free] = c]
    BY <1>2
  <2>3. dirent[b][free] = NONE
    BY <1>2, <2>2 DEF Used
  <2>4. ASSUME NEW e \in Inodes, NEW s \in Slots, NEW x \in Inodes
        PROVE  Holds(inode', dirent', e, s, x)
                 <=> \/ Holds(ino, dirent, e, s, x)
                     \/ e = d /\ s = free /\ x = c /\ ino[d].type = "DIR"
    <3>1. CASE e = d
      <4>1. dirent'[b][s] = IF s = free THEN c ELSE dirent[b][s]
        BY <2>1, <2>2 DEF TypeOK
      <4> QED  BY <1>0, <1>2, <2>3, <3>1, <4>1 DEF Holds
    <3>2. CASE e # d
      <4>1. ino[e].type = "DIR" /\ ino[e].first_child_block # NONE => ino[e].first_child_block # b
        BY <1>b, <3>2
      <4>2. ino[e].type = "DIR" /\ ino[e].first_child_block # NONE =>
              dirent'[ino[e].first_child_block] = dirent[ino[e].first_child_block]
        BY <2>2, <4>1, <1>a DEF TypeOK
      <4> QED  BY <1>2, <3>2, <4>2 DEF Holds
    <3> QED  BY <3>1, <3>2
  <2>5. \A x \in Inodes : ~Holds(ino, dirent, d, free, x)
    BY <1>0, <2>3 DEF Holds
  <2>6. ASSUME NEW i \in Inodes
        PROVE  inode'[i] = [ino[i] EXCEPT !.first_child_block = inode'[i].first_child_block]
    BY <1>2, <1>a DEF InodeRec
  <2>7. Enters(ino, dirent, inode', dirent', d, c)
    BY <2>4, <2>5 DEF Enters
  <2> QED  BY <2>6, <2>7
<1>3. CASE /\ inode' = ino
           /\ UNCHANGED <<dirent, block_bitmap>>
           /\ IF ino[d].first_child_block = NONE THEN FreeBlocks = {} ELSE Used(ino, d) = Slots
  <2>1. ASSUME NEW i \in Inodes
        PROVE  inode'[i] = [ino[i] EXCEPT !.first_child_block = inode'[i].first_child_block]
    BY <1>3, <1>a DEF InodeRec
  <2>2. NONE \notin Slots
    BY DEF Slots
  <2>3. ASSUME NEW e \in Inodes, NEW s \in Slots, NEW x \in Inodes
        PROVE  Holds(inode', dirent', e, s, x)
                 <=> \/ Holds(ino, dirent, e, s, x)
                     \/ e = d /\ s = NONE /\ x = c /\ ino[d].type = "DIR"
    BY <1>3, <2>2
  <2>4. Enters(ino, dirent, inode', dirent', d, c)
    BY <2>2, <2>3 DEF Enters
  <2> QED  BY <2>1, <2>4
<1> QED  BY <1>1, <1>2, <1>3 DEF AddChild

(* dir_remove_child finds the one entry of a named inode, and clears it     *)
(* only.                                                                    *)
LEMMA WithoutClears ==
  ASSUME TypeOK, EntryAgreesWithParent,
         \A d \in Inodes : inode[d].type = "DIR" => EntryBlocksApart(inode, block_bitmap, d),
         NEW id \in Named, id # 0, NEW ino,
         \A d \in Inodes :
           \/ /\ ino[d].type = inode[d].type
              /\ ino[d].first_child_block = inode[d].first_child_block
           \/ d = id /\ Children(id) = {} /\ ino[id].type # "DIR"
  PROVE  Clears(inode, dirent, ino, Without(inode[id].parent, id), id)
<1> DEFINE ent == Without(inode[id].parent, id)
<1>0. NONE \notin Inodes /\ NONE \notin Blocks
  BY DEF Inodes, Blocks
<1>1. PICK d0 \in Inodes : \E s \in Children(d0) : Entry(d0, s) = id
  BY DEF Named, ListedIn
<1>2. PICK s0 \in Children(d0) : Entry(d0, s0) = id
  BY <1>1
<1>3. inode[id].parent = d0 /\ \A k \in Children(d0) : Entry(d0, k) = id => k = s0
  BY <1>2 DEF EntryAgreesWithParent
<1> DEFINE b == inode[d0].first_child_block
<1>4. inode[d0].type = "DIR" /\ b \in Blocks /\ s0 \in Slots /\ s0 \in Nat
  BY EntryType
<1>5. {s \in Used(inode, d0) : Entry(d0, s) = id} = {s0}
  BY <1>2, <1>3, <1>4 DEF Children
<1>6. Least({s0}) = s0
  BY <1>4, LeastIsLeast
<1>7. ent = [dirent EXCEPT ![b][s0] = NONE]
  BY <1>3, <1>5, <1>6 DEF Without
<1>8. ASSUME NEW s \in Slots
      PROVE  ent[b][s] = IF s = s0 THEN NONE ELSE dirent[b][s]
  BY <1>4, <1>7 DEF TypeOK
<1>9. \A x \in Blocks \ {b} : ent[x] = dirent[x]
  BY <1>7 DEF TypeOK
<1> HIDE DEF ent
<1>10. ASSUME NEW d \in Inodes, NEW s \in Slots, NEW c \in Inodes
       PROVE  Holds(inode, ent, d, s, c) <=> Holds(inode, dirent, d, s, c) /\ c # id
  <2>1. CASE d = d0
    <3>1. dirent[b][s0] = id
      BY <1>2 DEF Entry
    <3>2. s # s0 => dirent[b][s] # id
      <4>1. ASSUME s # s0, dirent[b][s] = id  PROVE FALSE
        <5>1. s \in Children(d0) /\ Entry(d0, s) = id
          BY <1>0, <1>4, <4>1, NamedType DEF Children, Used, Entry
        <5> QED  BY <1>3, <4>1, <5>1
      <4> QED  BY <4>1
    <3> QED  BY <2>1, <1>0, <1>4, <1>8, <3>1, <3>2 DEF Holds
  <2>2. CASE d # d0
    <3>1. Holds(inode, ent, d, s, c) <=> Holds(inode, dirent, d, s, c)
      <4>1. inode[d].first_child_block \in Blocks \cup {NONE}
        BY DEF TypeOK, InodeRec
      <4>2. inode[d].type = "DIR" /\ inode[d].first_child_block # NONE =>
              inode[d].first_child_block # b
        BY <2>2, <1>4 DEF EntryBlocksApart
      <4> QED  BY <4>1, <4>2, <1>9 DEF Holds
    <3>2. Holds(inode, dirent, d, s, id) => FALSE
      <4>1. ASSUME Holds(inode, dirent, d, s, id)  PROVE FALSE
        <5>1. s \in Children(d) /\ Entry(d, s) = id
          BY <4>1, HoldsIsEntry, NamedType
        <5> QED  BY <5>1, <1>3, <2>2 DEF EntryAgreesWithParent
      <4> QED  BY <4>1
    <3> QED  BY <3>1, <3>2
  <2> QED  BY <2>1, <2>2
<1>11. ASSUME NEW d \in Inodes, NEW s \in Slots, NEW c \in Inodes
       PROVE  Holds(ino, ent, d, s, c) <=> Holds(inode, dirent, d, s, c) /\ c # id
  <2>1. CASE /\ ino[d].type = inode[d].type
             /\ ino[d].first_child_block = inode[d].first_child_block
    <3>1. Holds(ino, ent, d, s, c) <=> Holds(inode, ent, d, s, c)
      BY <2>1 DEF Holds
    <3> QED  BY <3>1, <1>10
  <2>2. CASE d = id /\ Children(id) = {} /\ ino[id].type # "DIR"
    <3>1. ~Holds(inode, dirent, id, s, c)
      BY <2>2, HoldsIsEntry, NamedType
    <3>2. ~Holds(ino, ent, id, s, c)
      BY <2>2 DEF Holds
    <3> QED  BY <2>2, <3>1, <3>2
  <2> QED  BY <2>1, <2>2
<1> QED  BY <1>11 DEF ent, Clears

-----------------------------------------------------------------------------
(* The names as a statement about any table, blocks, bitmap and current     *)
(* directory.                                                               *)

(* No directory is below itself: entries lead to higher ranks. *)
Ranked(ino, ent) ==
  \E rank \in [Inodes -> Nat] :
    \A d \in Inodes, s \in Slots, c \in Inodes :
      Holds(ino, ent, d, s, c) => rank[d] < rank[c]

HasName(ino, ent, i) ==
  i = 0 \/ \E d \in Inodes, s \in Slots : Holds(ino, ent, d, s, i)

NamesAgree(ino, ent, used, cwd) ==
  /\ ino[0].type = "DIR" /\ ino[0].parent = 0 /\ 0 \notin used
  /\ ino[cwd].type = "DIR" /\ HasName(ino, ent, cwd)
  /\ \A d \in Inodes, s \in Slots, c \in Inodes :
       Holds(ino, ent, d, s, c) =>
         /\ c \in used
         /\ ino[c].parent = d
         /\ HasName(ino, ent, d)
         /\ \A k \in Slots : Holds(ino, ent, d, k, c) => k = s
         /\ \A k \in Slots \ {s}, x \in Inodes :
              Holds(ino, ent, d, k, x) /\ ino[c].name = ino[x].name
                => "HARDLINK" \in {ino[c].type, ino[x].type}
  /\ Ranked(ino, ent)

LEMMA LessIsRanked ==
  ASSUME NEW ino, NEW ent, NEW ino2, NEW ent2, Ranked(ino, ent),
         \A d \in Inodes, s \in Slots, c \in Inodes :
           Holds(ino2, ent2, d, s, c) => Holds(ino, ent, d, s, c)
  PROVE  Ranked(ino2, ent2)
  BY DEF Ranked

(* A call that enters a new inode id in the named inode dir keeps it. *)
LEMMA EnteringKeepsNames ==
  ASSUME NEW ino, NEW ent, NEW used, NEW cwd \in Inodes, NEW ino2, NEW ent2,
         NamesAgree(ino, ent, used, cwd), 0 \in Inodes,
         NEW id \in Inodes, id # 0, id \notin used,
         NEW dir \in Inodes, HasName(ino, ent, dir),
         Enters(ino, ent, ino2, ent2, dir, id), SameNodes(ino, ino2, id),
         ino2[id].parent = dir,
         \/ ino2[id].type = "HARDLINK"
         \/ \A s \in Slots, c \in Inodes : Holds(ino, ent, dir, s, c) => ino[c].name # ino2[id].name
  PROVE  NamesAgree(ino2, ent2, used \cup {id}, cwd)
<1> USE DEF SameNodes
<1>0. PICK free :
        /\ free \in Slots => \A x \in Inodes : ~Holds(ino, ent, dir, free, x)
        /\ \A d \in Inodes, s \in Slots, c \in Inodes :
             Holds(ino2, ent2, d, s, c)
               <=> \/ Holds(ino, ent, d, s, c)
                   \/ d = dir /\ s = free /\ c = id /\ ino[dir].type = "DIR"
  BY DEF Enters
<1>1. \A d \in Inodes, s \in Slots : ~Holds(ino, ent, d, s, id)
  BY DEF NamesAgree
<1>2. cwd # id /\ dir # id
  BY <1>1 DEF NamesAgree, HasName
<1>3. \A i \in Inodes : HasName(ino, ent, i) => HasName(ino2, ent2, i)
  BY <1>0 DEF HasName
<1>4. /\ ino2[0].type = "DIR" /\ ino2[0].parent = 0 /\ 0 \notin used \cup {id}
      /\ ino2[cwd].type = "DIR" /\ HasName(ino2, ent2, cwd)
  BY <1>2, <1>3 DEF NamesAgree
<1>5. ASSUME NEW d \in Inodes, NEW s \in Slots, NEW c \in Inodes, Holds(ino2, ent2, d, s, c)
      PROVE  /\ c \in used \cup {id}
             /\ ino2[c].parent = d
             /\ HasName(ino2, ent2, d)
             /\ \A k \in Slots : Holds(ino2, ent2, d, k, c) => k = s
             /\ \A k \in Slots \ {s}, x \in Inodes :
                  Holds(ino2, ent2, d, k, x) /\ ino2[c].name = ino2[x].name
                    => "HARDLINK" \in {ino2[c].type, ino2[x].type}
  <2>1. CASE Holds(ino, ent, d, s, c)
    <3>1. c # id
      BY <2>1, <1>1
    <3>2. c \in used /\ ino[c].parent = d /\ HasName(ino, ent, d)
      BY <2>1 DEF NamesAgree
    <3>3. \A k \in Slots : Holds(ino2, ent2, d, k, c) => k = s
      BY <1>0, <2>1, <3>1 DEF NamesAgree
    <3>4. ASSUME NEW k \in Slots \ {s}, NEW x \in Inodes,
                 Holds(ino2, ent2, d, k, x), ino2[c].name = ino2[x].name
          PROVE  "HARDLINK" \in {ino2[c].type, ino2[x].type}
      <4>1. CASE Holds(ino, ent, d, k, x)
        <5>1. x # id
          BY <4>1, <1>1
        <5> QED  BY <2>1, <3>1, <3>4, <4>1, <5>1 DEF NamesAgree
      <4>2. CASE ~Holds(ino, ent, d, k, x)
        <5>1. d = dir /\ x = id
          BY <1>0, <3>4, <4>2
        <5> QED  BY <2>1, <3>1, <3>4, <5>1
      <4> QED  BY <4>1, <4>2
    <3> QED  BY <3>1, <3>2, <3>3, <3>4, <1>3
  <2>2. CASE ~Holds(ino, ent, d, s, c)
    <3>1. d = dir /\ s = free /\ c = id
      BY <1>0, <1>5, <2>2
    <3>2. \A k \in Slots : Holds(ino2, ent2, d, k, c) => k = s
      BY <1>0, <3>1, <1>1
    <3>3. ASSUME NEW k \in Slots \ {s}, NEW x \in Inodes,
                 Holds(ino2, ent2, d, k, x), ino2[c].name = ino2[x].name
          PROVE  "HARDLINK" \in {ino2[c].type, ino2[x].type}
      <4>1. Holds(ino, ent, dir, k, x)
        BY <1>0, <3>1, <3>3
      <4>2. x # id
        BY <4>1, <1>1
      <4> QED  BY <3>1, <3>3, <4>1, <4>2
    <3> QED  BY <3>1, <3>2, <3>3, <1>3
  <2> QED  BY <2>1, <2>2
<1>6. Ranked(ino2, ent2)
  <2>1. PICK rank \in [Inodes -> Nat] :
          \A d \in Inodes, s \in Slots, c \in Inodes :
            Holds(ino, ent, d, s, c) => rank[d] < rank[c]
    BY DEF NamesAgree, Ranked
  <2> DEFINE higher == [rank EXCEPT ![id] = rank[dir] + 1]
  <2>2. /\ higher \in [Inodes -> Nat] /\ higher[id] = rank[dir] + 1
        /\ \A i \in Inodes \ {id} : higher[i] = rank[i]
    OBVIOUS
  <2> HIDE DEF higher
  <2>3. ASSUME NEW d \in Inodes, NEW s \in Slots, NEW c \in Inodes, Holds(ino2, ent2, d, s, c)
        PROVE  higher[d] < higher[c]
    <3>1. CASE Holds(ino, ent, d, s, c)
      <4>1. c # id /\ d # id
        BY <1>1, <3>1 DEF NamesAgree, HasName
      <4> QED  BY <2>1, <2>2, <3>1, <4>1
    <3>2. CASE d = dir /\ c = id
      BY <1>2, <2>2, <3>2
    <3> QED  BY <1>0, <2>3, <3>1, <3>2
  <2> QED  BY <2>2, <2>3 DEF Ranked
<1> QED  BY <1>4, <1>5, <1>6 DEF NamesAgree

(* A call that clears the entries of inode id, and frees no inode that has  *)
(* a name but id, keeps it.                                                 *)
LEMMA ClearingKeepsNames ==
  ASSUME NEW ino, NEW ent, NEW used, NEW cwd \in Inodes, NEW ino2, NEW ent2, NEW used2,
         NamesAgree(ino, ent, used, cwd),
         NEW id \in Inodes, id # 0, id # cwd,
         \A s \in Slots, c \in Inodes : ~Holds(ino, ent, id, s, c),
         used2 \subseteq used,
         \A c \in used \ used2 : c = id \/ ~HasName(ino, ent, c),
         Clears(ino, ent, ino2, ent2, id), SameNodes(ino, ino2, id)
  PROVE  NamesAgree(ino2, ent2, used2, cwd)
<1> USE DEF Clears, SameNodes
<1>1. \A i \in Inodes \ {id} : HasName(ino, ent, i) => HasName(ino2, ent2, i)
  BY DEF HasName
<1>2. /\ ino2[0].type = "DIR" /\ ino2[0].parent = 0 /\ 0 \notin used2
      /\ ino2[cwd].type = "DIR" /\ HasName(ino2, ent2, cwd)
  BY <1>1, MfsAssumption DEF NamesAgree, Inodes, MfsAssumption
<1>3. ASSUME NEW d \in Inodes, NEW s \in Slots, NEW c \in Inodes, Holds(ino2, ent2, d, s, c)
      PROVE  /\ c \in used2
             /\ ino2[c].parent = d
             /\ HasName(ino2, ent2, d)
             /\ \A k \in Slots : Holds(ino2, ent2, d, k, c) => k = s
             /\ \A k \in Slots \ {s}, x \in Inodes :
                  Holds(ino2, ent2, d, k, x) /\ ino2[c].name = ino2[x].name
                    => "HARDLINK" \in {ino2[c].type, ino2[x].type}
  <2>1. Holds(ino, ent, d, s, c) /\ c # id /\ d # id
    BY <1>3
  <2>2. c \in used /\ ino[c].parent = d /\ HasName(ino, ent, d)
    BY <2>1 DEF NamesAgree
  <2>3. c \in used2
    BY <2>1, <2>2 DEF HasName
  <2>4. \A k \in Slots : Holds(ino2, ent2, d, k, c) => k = s
    BY <2>1 DEF NamesAgree
  <2>5. ASSUME NEW k \in Slots \ {s}, NEW x \in Inodes,
               Holds(ino2, ent2, d, k, x), ino2[c].name = ino2[x].name
        PROVE  "HARDLINK" \in {ino2[c].type, ino2[x].type}
    BY <2>1, <2>5 DEF NamesAgree
  <2> QED  BY <1>1, <2>1, <2>2, <2>3, <2>4, <2>5
<1>4. Ranked(ino2, ent2)
  BY LessIsRanked DEF NamesAgree
<1> QED  BY <1>2, <1>3, <1>4 DEF NamesAgree

-----------------------------------------------------------------------------
(* Counts of links, as a statement about any table.                         *)

Links(ino, used, i) ==
  {h \in used : ino[h].type = "HARDLINK" /\ ino[h].target_inode = i}

(* The links to a file and its own name, if it still has one, are counted;  *)
(* the count is never higher than the links and one name.                   *)
LinksAgree(ino, ent, used) ==
  /\ \A h \in used :
       ino[h].type = "HARDLINK" =>
         ino[h].target_inode \in used /\ ino[ino[h].target_inode].type = "FILE"
  /\ \A i \in used :
       /\ ino[i].type = "FILE" =>
            /\ ino[i].link_count >= Cardinality(Links(ino, used, i))
                                      + (IF HasName(ino, ent, i) THEN 1 ELSE 0)
            /\ ino[i].link_count <= Cardinality(Links(ino, used, i)) + 1
       /\ ino[i].type = "DIR" => ino[i].link_count = 0

LEMMA InodesFinite ==
  ASSUME NEW S \in SUBSET Inodes
  PROVE  IsFiniteSet(S) /\ Cardinality(S) \in Nat /\ Cardinality(S) <= MAX_INODES
<1>1. IsFiniteSet(Inodes) /\ Cardinality(Inodes) = MAX_INODES
  BY FS_Interval, MfsAssumption DEF Inodes, MfsAssumption
<1> QED  BY <1>1, FS_Subset, FS_CardinalityType

LEMMA LinksFinite ==
  ASSUME NEW used \in SUBSET Inodes, NEW ino, NEW i
  PROVE  /\ IsFiniteSet(Links(ino, used, i))
         /\ Cardinality(Links(ino, used, i)) \in Nat
  BY InodesFinite DEF Links

(* An inode that is not marked has no links. *)
LEMMA NoLinksToFree ==
  ASSUME NEW used \in SUBSET Inodes, NEW ino, NEW ent, LinksAgree(ino, ent, used),
         NEW i, i \notin used \/ ino[i].type # "FILE"
  PROVE  Links(ino, used, i) = {} /\ Cardinality(Links(ino, used, i)) = 0
<1>1. Links(ino, used, i) = {}
  BY DEF Links, LinksAgree
<1> QED  BY <1>1, FS_EmptySet

(* Entering an inode that is not a hard link. *)
LEMMA EnteringKeepsCounts ==
  ASSUME NEW used \in SUBSET Inodes, NEW ino, NEW ent, NEW ino2, NEW ent2,
         LinksAgree(ino, ent, used),
         NEW id \in Inodes, id \notin used,
         \A i \in used :
           /\ ino2[i].type = ino[i].type /\ ino2[i].target_inode = ino[i].target_inode
           /\ ino2[i].link_count = ino[i].link_count
           /\ HasName(ino2, ent2, i) <=> HasName(ino, ent, i),
         ino2[id].type # "HARDLINK",
         ino2[id].type = "FILE" => ino2[id].link_count = 1,
         ino2[id].type = "DIR" => ino2[id].link_count = 0
  PROVE  LinksAgree(ino2, ent2, used \cup {id})
<1>1. \A i : Links(ino2, used \cup {id}, i) = Links(ino, used, i)
  BY DEF Links
<1>2. Cardinality(Links(ino, used, id)) = 0
  BY NoLinksToFree
<1>3. ASSUME NEW h \in used \cup {id}, ino2[h].type = "HARDLINK"
      PROVE  /\ ino2[h].target_inode \in used \cup {id}
             /\ ino2[ino2[h].target_inode].type = "FILE"
  BY <1>3 DEF LinksAgree
<1>4. ASSUME NEW i \in used \cup {id}
      PROVE  /\ ino2[i].type = "FILE" =>
                  /\ ino2[i].link_count >= Cardinality(Links(ino2, used \cup {id}, i))
                                            + (IF HasName(ino2, ent2, i) THEN 1 ELSE 0)
                  /\ ino2[i].link_count <= Cardinality(Links(ino2, used \cup {id}, i)) + 1
             /\ ino2[i].type = "DIR" => ino2[i].link_count = 0
  <2>1. CASE i = id
    BY <1>1, <1>2, <2>1
  <2>2. CASE i # id
    BY <1>1, <2>2 DEF LinksAgree
  <2> QED  BY <2>1, <2>2
<1> QED  BY <1>3, <1>4 DEF LinksAgree

(* Entering a hard link to a file, which counts it. *)
LEMMA LinkingKeepsCounts ==
  ASSUME NEW used \in SUBSET Inodes, NEW ino, NEW ent, NEW ino2, NEW ent2,
         LinksAgree(ino, ent, used),
         \A i \in used : ino[i].link_count \in Int,
         NEW id \in Inodes, id \notin used,
         NEW target \in used, ino[target].type = "FILE",
         \A i \in used :
           /\ ino2[i].type = ino[i].type /\ ino2[i].target_inode = ino[i].target_inode
           /\ ino2[i].link_count = ino[i].link_count + (IF i = target THEN 1 ELSE 0)
           /\ HasName(ino2, ent2, i) <=> HasName(ino, ent, i),
         ino2[id].type = "HARDLINK", ino2[id].target_inode = target
  PROVE  LinksAgree(ino2, ent2, used \cup {id})
<1>1. \A i \in used : Links(ino2, used \cup {id}, i)
                        = Links(ino, used, i) \cup (IF i = target THEN {id} ELSE {})
  BY DEF Links
<1>2. Cardinality(Links(ino, used, target) \cup {id}) = Cardinality(Links(ino, used, target)) + 1
  <2>1. IsFiniteSet(Links(ino, used, target))
    BY LinksFinite
  <2>2. id \notin Links(ino, used, target)
    BY DEF Links
  <2> QED  BY <2>1, <2>2, FS_AddElement
<1>3. ASSUME NEW h \in used \cup {id}, ino2[h].type = "HARDLINK"
      PROVE  /\ ino2[h].target_inode \in used \cup {id}
             /\ ino2[ino2[h].target_inode].type = "FILE"
  BY <1>3 DEF LinksAgree
<1>4. ASSUME NEW i \in used \cup {id}
      PROVE  /\ ino2[i].type = "FILE" =>
                  /\ ino2[i].link_count >= Cardinality(Links(ino2, used \cup {id}, i))
                                            + (IF HasName(ino2, ent2, i) THEN 1 ELSE 0)
                  /\ ino2[i].link_count <= Cardinality(Links(ino2, used \cup {id}, i)) + 1
             /\ ino2[i].type = "DIR" => ino2[i].link_count = 0
  <2>1. CASE i = id
    BY <2>1
  <2>2. CASE i = target
    <3>1. Cardinality(Links(ino2, used \cup {id}, i)) = Cardinality(Links(ino, used, i)) + 1
      BY <1>1, <1>2, <2>2
    <3>2. Cardinality(Links(ino, used, i)) \in Nat
      BY LinksFinite
    <3> QED  BY <2>2, <3>1, <3>2 DEF LinksAgree
  <2>3. CASE i # id /\ i # target
    <3>1. Links(ino2, used \cup {id}, i) = Links(ino, used, i)
      BY <1>1, <2>3
    <3>2. ino2[i].link_count = ino[i].link_count
      BY <2>3
    <3> QED  BY <2>3, <3>1, <3>2 DEF LinksAgree
  <2> QED  BY <2>1, <2>2, <2>3
<1> QED  BY <1>3, <1>4 DEF LinksAgree

(* Taking the name of a file off: it loses one count. *)
LEMMA UnnamingKeepsCounts ==
  ASSUME NEW used \in SUBSET Inodes, NEW ino, NEW ent, NEW ino2, NEW ent2,
         LinksAgree(ino, ent, used),
         \A i \in used : ino[i].link_count \in Int,
         NEW id \in used, ino[id].type = "FILE", HasName(ino, ent, id),
         \A i \in used :
           /\ ino2[i].type = ino[i].type /\ ino2[i].target_inode = ino[i].target_inode
           /\ ino2[i].link_count = ino[i].link_count - (IF i = id THEN 1 ELSE 0)
           /\ HasName(ino2, ent2, i) <=> HasName(ino, ent, i) /\ i # id
  PROVE  LinksAgree(ino2, ent2, used)
<1>1. \A i : Links(ino2, used, i) = Links(ino, used, i)
  BY DEF Links
<1>2. \A i : Cardinality(Links(ino, used, i)) \in Nat
  BY LinksFinite
<1>3. ASSUME NEW i \in used
      PROVE  /\ ino2[i].type = "FILE" =>
                  /\ ino2[i].link_count >= Cardinality(Links(ino2, used, i))
                                            + (IF HasName(ino2, ent2, i) THEN 1 ELSE 0)
                  /\ ino2[i].link_count <= Cardinality(Links(ino2, used, i)) + 1
             /\ ino2[i].type = "DIR" => ino2[i].link_count = 0
  <2>1. CASE i = id
    BY <1>1, <1>2, <2>1 DEF LinksAgree
  <2>2. CASE i # id
    <3>1. ino2[i].link_count = ino[i].link_count
      BY <2>2
    <3> QED  BY <1>1, <2>2, <3>1 DEF LinksAgree
  <2> QED  BY <2>1, <2>2
<1> QED  BY <1>3 DEF LinksAgree

(* Taking away a symbolic link or an empty directory, which counts nothing. *)
LEMMA DroppingKeepsCounts ==
  ASSUME NEW used \in SUBSET Inodes, NEW ino, NEW ent, NEW ino2, NEW ent2, NEW used2,
         LinksAgree(ino, ent, used),
         NEW id \in used,
         \/ ino[id].type = "SYMLINK" /\ used2 = used \ {id}
         \/ /\ ino[id].type = "DIR" /\ used2 = used
            /\ ino2[id].type = "FILE" /\ ino2[id].link_count = ino[id].link_count
            /\ ~HasName(ino2, ent2, id),
         \A i \in used \ {id} :
           /\ ino2[i].type = ino[i].type /\ ino2[i].target_inode = ino[i].target_inode
           /\ ino2[i].link_count = ino[i].link_count
           /\ HasName(ino2, ent2, i) <=> HasName(ino, ent, i)
  PROVE  LinksAgree(ino2, ent2, used2)
<1>1. \A i : Links(ino2, used2, i) = Links(ino, used, i)
  BY DEF Links
<1>2. Cardinality(Links(ino, used, id)) = 0
  <2>1. ino[id].type # "FILE"
    OBVIOUS
  <2>2. Links(ino, used, id) = {}
    BY <2>1 DEF Links, LinksAgree
  <2> QED  BY <2>2, FS_EmptySet
<1>3. ASSUME NEW h \in used2, ino2[h].type = "HARDLINK"
      PROVE  /\ ino2[h].target_inode \in used2
             /\ ino2[ino2[h].target_inode].type = "FILE"
  BY <1>3 DEF LinksAgree
<1>4. ASSUME NEW i \in used2
      PROVE  /\ ino2[i].type = "FILE" =>
                  /\ ino2[i].link_count >= Cardinality(Links(ino2, used2, i))
                                            + (IF HasName(ino2, ent2, i) THEN 1 ELSE 0)
                  /\ ino2[i].link_count <= Cardinality(Links(ino2, used2, i)) + 1
             /\ ino2[i].type = "DIR" => ino2[i].link_count = 0
  <2>1. CASE i = id
    BY <1>1, <1>2, <2>1 DEF LinksAgree
  <2>2. CASE i # id
    BY <1>1, <2>2 DEF LinksAgree
  <2> QED  BY <2>1, <2>2
<1> QED  BY <1>3, <1>4 DEF LinksAgree

(* The link counted last: the file it points at has no name any more. *)
LEMMA LastLink ==
  ASSUME NEW used \in SUBSET Inodes, NEW ino, NEW ent, LinksAgree(ino, ent, used),
         \A i \in used : ino[i].link_count \in Int,
         NEW id \in used, ino[id].type = "HARDLINK",
         NEW target, target = ino[id].target_inode
  PROVE  /\ target \in used /\ ino[target].type = "FILE" /\ target # id
         /\ ino[target].link_count >= 1
         /\ ino[target].link_count = 1 =>
              Links(ino, used, target) = {id} /\ ~HasName(ino, ent, target)
<1>1. target \in used /\ ino[target].type = "FILE" /\ target # id
  BY DEF LinksAgree
<1>2. /\ IsFiniteSet(Links(ino, used, target)) /\ id \in Links(ino, used, target)
      /\ Cardinality(Links(ino, used, target)) \in Nat
  <2>1. id \in Links(ino, used, target)
    BY DEF Links
  <2> QED  BY <2>1, LinksFinite
<1>3. /\ IsFiniteSet(Links(ino, used, target) \ {id})
      /\ Cardinality(Links(ino, used, target) \ {id}) = Cardinality(Links(ino, used, target)) - 1
      /\ Cardinality(Links(ino, used, target) \ {id}) \in Nat
  BY <1>2, FS_RemoveElement, FS_CardinalityType
<1>4. ino[target].link_count >= 1
  BY <1>1, <1>2, <1>3 DEF LinksAgree
<1>5. ASSUME ino[target].link_count = 1
      PROVE  Links(ino, used, target) = {id} /\ ~HasName(ino, ent, target)
  <2>1. /\ Cardinality(Links(ino, used, target)) = 1
        /\ ~HasName(ino, ent, target)
    BY <1>1, <1>2, <1>3, <1>5 DEF LinksAgree
  <2>2. Links(ino, used, target) \ {id} = {}
    BY <2>1, <1>3, FS_EmptySet
  <2> QED  BY <2>1, <2>2, <1>2
<1> QED  BY <1>1, <1>4, <1>5

(* Taking away a hard link: its target loses one count, and is freed when   *)
(* it counts none any more.                                                 *)
LEMMA UnlinkingKeepsCounts ==
  ASSUME NEW used \in SUBSET Inodes, NEW ino, NEW ent, NEW ino2, NEW ent2, NEW used2,
         LinksAgree(ino, ent, used),
         \A i \in used : ino[i].link_count \in Int,
         NEW id \in used, ino[id].type = "HARDLINK",
         NEW target, target = ino[id].target_inode,
         \/ used2 = used \ {id}
         \/ used2 = used \ {id, target} /\ ino[target].link_count = 1,
         \A i \in used \ {id} :
           /\ ino2[i].type = ino[i].type /\ ino2[i].target_inode = ino[i].target_inode
           /\ ino2[i].link_count = ino[i].link_count - (IF i = target THEN 1 ELSE 0)
           /\ HasName(ino2, ent2, i) <=> HasName(ino, ent, i)
  PROVE  LinksAgree(ino2, ent2, used2)
<1>1. target \in used /\ ino[target].type = "FILE" /\ target # id
  BY LastLink
<1>2. \A i : IsFiniteSet(Links(ino, used, i)) /\ Cardinality(Links(ino, used, i)) \in Nat
  BY LinksFinite
<1>3. Cardinality(Links(ino, used, target) \ {id}) = Cardinality(Links(ino, used, target)) - 1
  <2>1. id \in Links(ino, used, target)
    BY DEF Links
  <2>2. IsFiniteSet(Links(ino, used, target))
    BY <1>2
  <2> QED  BY <2>1, <2>2, FS_RemoveElement
<1>5. ino[target].link_count = 1 => Links(ino, used, target) = {id}
  BY LastLink
<1>6. \A i \in used2 :
        /\ i = target => Links(ino2, used2, i) = Links(ino, used, i) \ {id}
        /\ i # target => Links(ino2, used2, i) = Links(ino, used, i)
  <2>1. \A i \in used2 : \A h \in used2 :
          h \in Links(ino2, used2, i) <=> h \in Links(ino, used, i)
    BY DEF Links
  <2>2. \A i \in used2 : \A h \in Links(ino, used, i) : h # target
    BY <1>1 DEF Links
  <2>3. \A i \in used2 : i # target => id \notin Links(ino, used, i)
    BY DEF Links
  <2>4. \A i : Links(ino2, used2, i) \subseteq used2 /\ Links(ino, used, i) \subseteq used
    BY DEF Links
  <2> QED  BY <2>1, <2>2, <2>3, <2>4
<1>7. ASSUME NEW h \in used2, ino2[h].type = "HARDLINK"
      PROVE  /\ ino2[h].target_inode \in used2
             /\ ino2[ino2[h].target_inode].type = "FILE"
  <2>1. h \in used \ {id} /\ ino[h].type = "HARDLINK"
    BY <1>7
  <2>2. ino2[h].target_inode = ino[h].target_inode
    BY <2>1
  <2>3. ino[h].target_inode \in used /\ ino[ino[h].target_inode].type = "FILE"
    BY <2>1 DEF LinksAgree
  <2>4. ino[h].target_inode # id
    BY <2>3
  <2>5. ino[target].link_count = 1 => ino[h].target_inode # target
    BY <1>5, <2>1 DEF Links
  <2> QED  BY <2>2, <2>3, <2>4, <2>5
<1>8. ASSUME NEW i \in used2
      PROVE  /\ ino2[i].type = "FILE" =>
                  /\ ino2[i].link_count >= Cardinality(Links(ino2, used2, i))
                                            + (IF HasName(ino2, ent2, i) THEN 1 ELSE 0)
                  /\ ino2[i].link_count <= Cardinality(Links(ino2, used2, i)) + 1
             /\ ino2[i].type = "DIR" => ino2[i].link_count = 0
  <2>1. i \in used \ {id}
    OBVIOUS
  <2>2. CASE i = target
    <3>1. Cardinality(Links(ino2, used2, i)) = Cardinality(Links(ino, used, i)) - 1
      BY <1>3, <1>6, <2>2
    <3> QED  BY <1>2, <2>1, <2>2, <3>1 DEF LinksAgree
  <2>3. CASE i # target
    <3>1. Links(ino2, used2, i) = Links(ino, used, i)
      BY <1>6, <2>3
    <3>2. ino2[i].link_count = ino[i].link_count
      BY <2>1, <2>3
    <3> QED  BY <2>1, <3>1, <3>2 DEF LinksAgree
  <2> QED  BY <2>2, <2>3
<1> QED  BY <1>7, <1>8 DEF LinksAgree

-----------------------------------------------------------------------------
(* The inductive invariant                                                  *)

(* Data only in files in use. *)
DataInFiles(ino, used) ==
  \A i \in Inodes : i \notin used \/ ino[i].type # "FILE" => ino[i].blocks = {}

NamesHold ==
  /\ NamesAgree(inode, dirent, inode_bitmap, current_dir)
  /\ LinksAgree(inode, dirent, inode_bitmap)
  /\ DataInFiles(inode, inode_bitmap)

NamesInv == TypeOK /\ BlocksExclusive /\ NamesHold

LEMMA NamedHasName ==
  ASSUME TypeOK, NEW i \in Inodes
  PROVE  i \in Named <=> HasName(inode, dirent, i)
  BY HoldsIsEntry, EntryType DEF Named, ListedIn, HasName

(* The part of it that finding paths, entering and clearing rest on. *)
TreeInv == TypeOK /\ NamesAgree(inode, dirent, inode_bitmap, current_dir)

LEMMA TreeInvGives ==
  ASSUME TreeInv
  PROVE  /\ ListedAllocated /\ EntryAgreesWithParent /\ SiblingNames /\ TreeRooted
         /\ Named \subseteq {0} \cup inode_bitmap /\ 0 \notin inode_bitmap
<1>1. TypeOK /\ NamesAgree(inode, dirent, inode_bitmap, current_dir)
  BY DEF TreeInv
<1>2. ASSUME NEW d \in Inodes, NEW s \in Children(d)
      PROVE  /\ s \in Slots /\ Entry(d, s) \in Inodes
             /\ Holds(inode, dirent, d, s, Entry(d, s))
  BY <1>1, HoldsIsEntry, EntryType
<1>3. ListedAllocated
  BY <1>1, <1>2 DEF ListedAllocated, NamesAgree
<1>4. EntryAgreesWithParent
  BY <1>1, <1>2 DEF EntryAgreesWithParent, NamesAgree
<1>5. SiblingNames
  BY <1>1, <1>2 DEF SiblingNames, NamesAgree
<1>6. current_dir \in Inodes
  BY <1>1 DEF TypeOK
<1>7. TreeRooted
  BY <1>1, <1>2, <1>6, NamedHasName DEF TreeRooted, NamesAgree
<1>8. Named \subseteq {0} \cup inode_bitmap
  BY <1>3 DEF ListedAllocated, Named, ListedIn
<1> QED  BY <1>1, <1>3, <1>4, <1>5, <1>7, <1>8 DEF NamesAgree

LEMMA NamesInvIsTree ==
  NamesInv => TreeInv
  BY DEF NamesInv, NamesHold, TreeInv

LEMMA NamesInvGives ==
  ASSUME NamesInv
  PROVE  /\ ListedAllocated /\ EntryAgreesWithParent /\ SiblingNames /\ TreeRooted
         /\ Named \subseteq {0} \cup inode_bitmap /\ 0 \notin inode_bitmap
  BY NamesInvIsTree, TreeInvGives

LEMMA NamesInvCounts ==
  NamesInv => LinkCountCovers
<1> SUFFICES ASSUME NamesInv  PROVE LinkCountCovers
  OBVIOUS
<1>1. TypeOK /\ LinksAgree(inode, dirent, inode_bitmap) /\ EntryAgreesWithParent
  BY NamesInvGives DEF NamesInv, NamesHold
<1>2. \A i : LinksTo(i) = Links(inode, inode_bitmap, i)
  BY DEF LinksTo, Links
<1>3. ASSUME NEW i \in inode_bitmap, inode[i].type = "FILE"
      PROVE  inode[i].link_count >= Cardinality(LinksTo(i)) + Cardinality(ListedIn(i))
  <2>1. i \in Inodes /\ i # 0
    BY <1>1, NamesInvGives DEF TypeOK
  <2>2. Cardinality(ListedIn(i)) = IF HasName(inode, dirent, i) THEN 1 ELSE 0
    <3>1. CASE ListedIn(i) = {}
      <4>1. ~HasName(inode, dirent, i)
        BY <1>1, <2>1, <3>1, NamedHasName DEF Named
      <4> QED  BY <3>1, <4>1, FS_EmptySet
    <3>2. CASE ListedIn(i) # {}
      <4>1. HasName(inode, dirent, i)
        BY <1>1, <2>1, <3>2, NamedHasName DEF Named
      <4>2. ListedIn(i) = {inode[i].parent}
        BY <1>1, <3>2 DEF ListedIn, EntryAgreesWithParent
      <4> QED  BY <4>1, <4>2, FS_Singleton
    <3> QED  BY <3>1, <3>2
  <2> QED  BY <1>1, <1>2, <1>3, <2>2 DEF LinksAgree
<1> QED  BY <1>1, <1>3 DEF LinkCountCovers, LinksAgree

LEMMA InitNames ==
  Init => NamesInv
<1> SUFFICES ASSUME Init  PROVE NamesInv
  OBVIOUS
<1>1. TypeOK /\ BlocksExclusive
  BY InitType, InitBlocks
<1>2. \A i \in Inodes : /\ inode[i].type = IF i = 0 THEN "DIR" ELSE "FILE"
                        /\ inode[i].first_child_block = NONE
                        /\ inode[i].parent = 0 /\ inode[i].blocks = {}
  BY DEF Init
<1>3. \A d \in Inodes, s \in Slots, c \in Inodes : ~Holds(inode, dirent, d, s, c)
  BY <1>2 DEF Holds
<1>4. 0 \in Inodes
  BY MfsAssumption DEF Inodes, MfsAssumption
<1>5. inode_bitmap = {} /\ current_dir = 0
  BY DEF Init
<1>6. NamesAgree(inode, dirent, inode_bitmap, current_dir)
  <2>1. [i \in Inodes |-> 0] \in [Inodes -> Nat]
    OBVIOUS
  <2>2. Ranked(inode, dirent)
    BY <1>3, <2>1 DEF Ranked
  <2> QED  BY <1>2, <1>3, <1>4, <1>5, <2>2 DEF NamesAgree, HasName
<1> QED  BY <1>1, <1>2, <1>5, <1>6 DEF NamesInv, NamesHold, LinksAgree, DataInFiles

(* What the paths of a command lead to. *)
LEMMA PathsLeadToNames ==
  ASSUME TreeInv, NEW p \in Paths
  PROVE  /\ At(p) \subseteq Named /\ At(DirPart(p)) \subseteq Named
         /\ p \in Path
<1>1. TypeOK /\ EntryAgreesWithParent /\ TreeRooted
  BY TreeInvGives DEF TreeInv
<1>2. p \in Path
  BY MfsAssumption DEF MfsAssumption
<1>3. DirPart(p) \in Path
  <2>1. p.toks \in Seq(Stored)
    BY <1>2 DEF Path
  <2>2. SubSeq(p.toks, 1, Len(p.toks) - 1) \in Seq(Stored)
    BY <2>1
  <2> QED  BY <1>2, <2>2 DEF DirPart, Path
<1>4. NONE \notin Inodes
  BY DEF Inodes
<1> QED  BY <1>1, <1>2, <1>3, <1>4, FindNamed DEF At

(* A call that enters a new inode. *)
LEMMA EnterNames ==
  ASSUME TreeInv, NEW id \in FreeInodes, NEW dir \in Named,
         NEW ino \in [Inodes -> InodeRec], EntryBlocksApart(ino, block_bitmap, dir),
         AddChild(ino, dir, id),
         inode_bitmap' = inode_bitmap \cup {id}, current_dir' = current_dir,
         \A i \in Inodes \ {id} :
           /\ ino[i].type = inode[i].type /\ ino[i].name = inode[i].name
           /\ ino[i].parent = inode[i].parent
           /\ ino[i].first_child_block = inode[i].first_child_block,
         ino[id].parent = dir, ino[id].first_child_block = NONE,
         ino[id].type = "HARDLINK" \/ Lookup(dir, ino[id].name) = NONE
  PROVE  /\ NamesAgree(inode', dirent', inode_bitmap', current_dir')
         /\ Enters(inode, dirent, inode', dirent', dir, id)
         /\ \A i \in inode_bitmap : HasName(inode', dirent', i) <=> HasName(inode, dirent, i)
         /\ \A i \in Inodes :
              /\ inode'[i].type = ino[i].type /\ inode'[i].link_count = ino[i].link_count
              /\ inode'[i].target_inode = ino[i].target_inode
              /\ inode'[i].name = ino[i].name /\ inode'[i].parent = ino[i].parent
              /\ inode'[i].blocks = ino[i].blocks /\ inode'[i].far = ino[i].far
<1>1. TypeOK /\ NamesAgree(inode, dirent, inode_bitmap, current_dir)
  BY DEF TreeInv
<1>2. id \in Inodes /\ id # 0 /\ id \notin inode_bitmap /\ dir \in Inodes /\ 0 \in Inodes
  BY <1>1, NamedType, MfsAssumption DEF FreeInodes, Inodes, MfsAssumption
<1>3. HasName(inode, dirent, dir) /\ ~HasName(inode, dirent, id)
  <2>1. id \notin Named
    BY <1>2, TreeInvGives
  <2> QED  BY <1>1, <1>2, <2>1, NamedHasName
<1>4. /\ \A i \in Inodes : inode'[i] = [ino[i] EXCEPT !.first_child_block =
                                                       inode'[i].first_child_block]
      /\ Enters(ino, dirent, inode', dirent', dir, id)
  BY <1>1, <1>2, AddChildEnters
<1>5. ASSUME NEW i \in Inodes
      PROVE  /\ inode'[i].type = ino[i].type /\ inode'[i].link_count = ino[i].link_count
             /\ inode'[i].target_inode = ino[i].target_inode
             /\ inode'[i].name = ino[i].name /\ inode'[i].parent = ino[i].parent
             /\ inode'[i].blocks = ino[i].blocks /\ inode'[i].far = ino[i].far
  <2>1. ino[i] \in InodeRec
    OBVIOUS
  <2> QED  BY <1>4, <2>1 DEF InodeRec
<1>6. ASSUME NEW d \in Inodes, NEW s \in Slots, NEW c \in Inodes
      PROVE  Holds(ino, dirent, d, s, c) <=> Holds(inode, dirent, d, s, c)
  <2>1. CASE d = id
    <3>1. ~Holds(inode, dirent, id, s, c)
      BY <1>1, <1>2, <1>3, <2>1 DEF NamesAgree
    <3> QED  BY <2>1, <3>1 DEF Holds
  <2>2. CASE d # id
    BY <2>2 DEF Holds
  <2> QED  BY <2>1, <2>2
<1>7. Enters(inode, dirent, inode', dirent', dir, id)
  <2>1. dir # id
    BY <1>3
  <2>2. ino[dir].type = inode[dir].type
    BY <1>2, <2>1
  <2>3. PICK free :
          /\ free \in Slots => \A x \in Inodes : ~Holds(ino, dirent, dir, free, x)
          /\ \A e \in Inodes, s \in Slots, x \in Inodes :
               Holds(inode', dirent', e, s, x)
                 <=> \/ Holds(ino, dirent, e, s, x)
                     \/ e = dir /\ s = free /\ x = id /\ ino[dir].type = "DIR"
    BY <1>4 DEF Enters
  <2>4. free \in Slots => \A x \in Inodes : ~Holds(inode, dirent, dir, free, x)
    BY <1>2, <1>6, <2>3
  <2>5. \A e \in Inodes, s \in Slots, x \in Inodes :
          Holds(inode', dirent', e, s, x)
            <=> \/ Holds(inode, dirent, e, s, x)
                \/ e = dir /\ s = free /\ x = id /\ inode[dir].type = "DIR"
    BY <1>6, <2>2, <2>3
  <2> QED  BY <2>4, <2>5 DEF Enters
<1>8. \/ ino[id].type = "HARDLINK"
      \/ \A s \in Slots, c \in Inodes :
           Holds(inode, dirent, dir, s, c) => inode[c].name # ino[id].name
  <2>1. NONE \notin Inodes
    BY DEF Inodes
  <2>2. ASSUME Lookup(dir, ino[id].name) = NONE,
               NEW s \in Slots, NEW c \in Inodes, Holds(inode, dirent, dir, s, c)
        PROVE  inode[c].name # ino[id].name
    <3>1. s \in Children(dir) /\ Entry(dir, s) = c
      BY <1>1, <1>2, <2>2, HoldsIsEntry
    <3>2. \A k \in Children(dir) : Entry(dir, k) \in Inodes
      BY <1>1, <1>2, EntryType
    <3> QED  BY <1>1, <1>2, <2>1, <2>2, <3>1, <3>2, LookupFinds
  <2> QED  BY <2>2
<1>9. NamesAgree(inode', dirent', inode_bitmap \cup {id}, current_dir)
  <2>1. current_dir \in Inodes
    BY <1>1 DEF TypeOK
  <2>2. SameNodes(inode, inode', id)
    BY <1>5 DEF SameNodes
  <2>3. inode'[id].parent = dir /\ inode'[id].name = ino[id].name /\ inode'[id].type = ino[id].type
    BY <1>2, <1>5
  <2> QED  BY <1>1, <1>2, <1>3, <1>7, <1>8, <2>1, <2>2, <2>3, EnteringKeepsNames
<1>10. \A i \in inode_bitmap : HasName(inode', dirent', i) <=> HasName(inode, dirent, i)
  <2>1. inode_bitmap \subseteq Inodes
    BY <1>1 DEF TypeOK
  <2> QED  BY <1>2, <1>7, <2>1 DEF HasName, Enters
<1> QED  BY <1>5, <1>7, <1>9, <1>10

LEMMA EnterStep ==
  ASSUME NamesInv, NEW id \in FreeInodes, NEW dir \in Named,
         NEW ino \in [Inodes -> InodeRec], Exclusive(ino, block_bitmap),
         AddChild(ino, dir, id),
         inode_bitmap' = inode_bitmap \cup {id}, current_dir' = current_dir,
         \A i \in Inodes \ {id} :
           /\ ino[i].type = inode[i].type /\ ino[i].name = inode[i].name
           /\ ino[i].parent = inode[i].parent /\ ino[i].blocks = inode[i].blocks
           /\ ino[i].first_child_block = inode[i].first_child_block,
         ino[id].parent = dir, ino[id].blocks = {}, ino[id].first_child_block = NONE,
         ino[id].type = "HARDLINK" \/ Lookup(dir, ino[id].name) = NONE
  PROVE  /\ NamesAgree(inode', dirent', inode_bitmap', current_dir')
         /\ DataInFiles(inode', inode_bitmap')
         /\ \A i \in inode_bitmap : HasName(inode', dirent', i) <=> HasName(inode, dirent, i)
         /\ \A i \in Inodes :
              /\ inode'[i].type = ino[i].type /\ inode'[i].link_count = ino[i].link_count
              /\ inode'[i].target_inode = ino[i].target_inode
<1>1. TreeInv /\ DataInFiles(inode, inode_bitmap) /\ TypeOK
  BY NamesInvIsTree DEF NamesInv, NamesHold
<1>2. id \in Inodes /\ id \notin inode_bitmap /\ dir \in Inodes
  BY <1>1, NamedType DEF FreeInodes
<1>3. EntryBlocksApart(ino, block_bitmap, dir)
  BY <1>2, ExclusiveIsApart
<1>4. /\ NamesAgree(inode', dirent', inode_bitmap', current_dir')
      /\ \A i \in inode_bitmap : HasName(inode', dirent', i) <=> HasName(inode, dirent, i)
      /\ \A i \in Inodes :
           /\ inode'[i].type = ino[i].type /\ inode'[i].link_count = ino[i].link_count
           /\ inode'[i].target_inode = ino[i].target_inode /\ inode'[i].blocks = ino[i].blocks
  BY <1>1, <1>3, EnterNames
<1>5. DataInFiles(inode', inode_bitmap')
  BY <1>1, <1>2, <1>4 DEF DataInFiles
<1> QED  BY <1>4, <1>5

(* From the current directory the parents lead to the root: ranks go down   *)
(* along them, so that no inode comes twice and MAX_INODES steps are enough. *)
LEMMA NamesInvCwd ==
  NamesInv => CwdIsNamed
<1> SUFFICES ASSUME NamesInv  PROVE CwdIsNamed
  OBVIOUS
<1>1. /\ TypeOK /\ NamesAgree(inode, dirent, inode_bitmap, current_dir)
      /\ EntryAgreesWithParent /\ TreeRooted /\ current_dir \in Inodes
  BY NamesInvGives DEF NamesInv, NamesHold, TypeOK
<1> DEFINE Up(w, x) == \/ x[2] = 0
                       \/ /\ x[1] > 0
                          /\ inode[x[2]].parent \in ListedIn(x[2])
                          /\ w[<<x[1] - 1, inode[x[2]].parent>>]
           major == [x \in Climbs |-> x[1]]
           minor == [x \in Climbs |-> 0]
           body == [w \in [Climbs -> BOOLEAN] |-> [x \in Climbs |-> Up(w, x)]]
<1>2. ASSUME NEW x \in Climbs
      PROVE  x[1] \in 0 .. MAX_INODES /\ x[1] \in Nat /\ x[2] \in Inodes
  BY MfsAssumption DEF Climbs, MfsAssumption
<1>3. ASSUME NEW x \in Climbs, x[1] > 0
      PROVE  <<x[1] - 1, inode[x[2]].parent>> \in Climbs /\ x[1] - 1 < x[1]
  <2>1. inode[x[2]].parent \in Inodes
    BY <1>1, <1>2 DEF TypeOK, InodeRec
  <2>2. x[1] - 1 \in 0 .. MAX_INODES /\ x[1] - 1 < x[1]
    BY <1>2, <1>3, MfsAssumption DEF MfsAssumption
  <2> QED  BY <2>1, <2>2 DEF Climbs
<1>4. Grounded(Climbs, BOOLEAN, major, minor, body)
  <2>1. major \in [Climbs -> Nat] /\ minor \in [Climbs -> Nat]
    BY <1>2
  <2>2. ASSUME NEW w \in [Climbs -> BOOLEAN], NEW x \in Climbs
        PROVE  Up(w, x) \in BOOLEAN
    OBVIOUS
  <2>3. body \in [[Climbs -> BOOLEAN] -> [Climbs -> BOOLEAN]]
    BY <2>2
  <2>4. ASSUME NEW g \in [Climbs -> BOOLEAN], NEW h \in [Climbs -> BOOLEAN], NEW x \in Climbs,
               \A y \in Climbs : Precedes(major, minor, y, x) => g[y] = h[y]
        PROVE  body[g][x] = body[h][x]
    <3>1. \A y \in Climbs : y[1] < x[1] => g[y] = h[y]
      BY <2>4 DEF Precedes
    <3>2. Up(g, x) = Up(h, x)
      <4>1. CASE x[1] > 0
        <5>1. g[<<x[1] - 1, inode[x[2]].parent>>] = h[<<x[1] - 1, inode[x[2]].parent>>]
          BY <3>1, <1>3, <4>1
        <5> QED  BY <5>1
      <4>2. CASE ~(x[1] > 0)
        BY <4>2
      <4> QED  BY <4>1, <4>2
    <3> QED  BY <3>2
  <2>5. \A g, h \in [Climbs -> BOOLEAN] : \A x \in Climbs :
          (\A y \in Climbs : Precedes(major, minor, y, x) => g[y] = h[y])
            => body[g][x] = body[h][x]
    BY <2>4
  <2> HIDE DEF major, minor, body
  <2> QED  BY <2>1, <2>3, <2>5 DEF Grounded
<1>5. \E f : f = [x \in Climbs |-> Up(f, x)]
  <2>1. \E f \in [Climbs -> BOOLEAN] : f = body[f]
    <3>1. BOOLEAN # {}
      OBVIOUS
    <3> HIDE DEF major, minor, body
    <3> QED  BY <1>4, <3>1, RecursionExists
  <2> QED  BY <2>1
<1> DEFINE up == CHOOSE f : f = [x \in Climbs |-> Up(f, x)]
<1>6. up = [x \in Climbs |-> Up(up, x)]
  BY <1>5
<1>7. CwdIsNamed <=> inode[current_dir].type = "DIR" /\ up[<<MAX_INODES, current_dir>>]
  BY DEF CwdIsNamed
<1> HIDE DEF up
<1>8. PICK rank \in [Inodes -> Nat] :
        \A d \in Inodes, s \in Slots, c \in Inodes :
          Holds(inode, dirent, d, s, c) => rank[d] < rank[c]
  BY <1>1 DEF NamesAgree, Ranked
(* The parent of a named inode names it and has a lower rank. *)
<1>9. ASSUME NEW j \in Named \ {0}
      PROVE  /\ inode[j].parent \in ListedIn(j) /\ inode[j].parent \in Named
             /\ inode[j].parent \in Inodes /\ j \in Inodes
             /\ rank[inode[j].parent] < rank[j]
  <2>1. j \in Inodes /\ inode[j].parent \in Named /\ inode[j].parent \in Inodes
    BY <1>1, NamedType, StepsStayNamed
  <2>2. PICK d \in ListedIn(j) : TRUE
    BY DEF Named
  <2>3. PICK s \in Children(d) : d \in Inodes /\ Entry(d, s) = j
    BY <2>2 DEF ListedIn
  <2>4. inode[j].parent = d
    BY <1>1, <2>3 DEF EntryAgreesWithParent
  <2>5. s \in Slots /\ Holds(inode, dirent, d, s, j)
    BY <1>1, <2>3, HoldsIsEntry
  <2> QED  BY <1>8, <2>1, <2>2, <2>3, <2>4, <2>5
(* An inode n steps do not lead from to the root is above more than n.      *)
<1> DEFINE Above(n, j, T) == /\ T \subseteq Named \ {0} /\ n < Cardinality(T)
                             /\ \A k \in T : rank[k] <= rank[j]
           Wrong == {n \in 0 .. MAX_INODES :
                       \E j \in Named : ~up[<<n, j>>] /\ ~(\E T : Above(n, j, T))}
<1>10. ASSUME NEW n \in 0 .. MAX_INODES, NEW j \in Named, ~up[<<n, j>>]
       PROVE  /\ j \in Named \ {0}
              /\ n > 0 => ~up[<<n - 1, inode[j].parent>>]
  <2>1. <<n, j>> \in Climbs
    BY <1>1, NamedType DEF Climbs
  <2>2. ~Up(up, <<n, j>>)
    BY <1>6, <1>10, <2>1
  <2>3. j # 0
    BY <2>2
  <2>4. j \in Named \ {0}
    BY <2>3
  <2> QED  BY <1>9, <2>2, <2>4
<1>11. Wrong = {}
  <2>1. SUFFICES ASSUME Wrong # {}  PROVE FALSE
    OBVIOUS
  <2>2. PICK n \in Wrong : \A k \in Wrong : n <= k
    <3>1. Wrong \in SUBSET Nat
      BY MfsAssumption DEF MfsAssumption
    <3> HIDE DEF Wrong
    <3> QED  BY <2>1, <3>1, LeastExists
  <2>3. PICK j \in Named : ~up[<<n, j>>] /\ ~(\E T : Above(n, j, T))
    OBVIOUS
  <2>4. n \in 0 .. MAX_INODES /\ n \in Nat /\ j \in Named \ {0} /\ j \in Inodes
    <3>1. n \in 0 .. MAX_INODES /\ n \in Nat
      BY MfsAssumption DEF MfsAssumption
    <3>2. j \in Named \ {0}
      BY <1>10, <2>3, <3>1
    <3> QED  BY <1>9, <3>1, <3>2
  <2>5. CASE n = 0
    <3>1. Cardinality({j}) = 1
      BY FS_Singleton
    <3>2. rank[j] <= rank[j]
      BY <2>4
    <3>3. Above(n, j, {j})
      BY <2>4, <2>5, <3>1, <3>2
    <3> QED  BY <2>3, <3>3
  <2>6. CASE n > 0
    <3> DEFINE d == inode[j].parent
    <3>1. d \in Named /\ d \in Inodes /\ rank[d] < rank[j] /\ ~up[<<n - 1, d>>]
      BY <1>9, <1>10, <2>3, <2>4, <2>6
    <3>2. n - 1 \in 0 .. MAX_INODES /\ ~(n <= n - 1)
      BY <2>4, <2>6, MfsAssumption DEF MfsAssumption
    <3>3. n - 1 \notin Wrong
      BY <2>2, <3>2
    <3>4. PICK T : Above(n - 1, d, T)
      BY <3>1, <3>2, <3>3
    <3>5. T \subseteq Inodes /\ IsFiniteSet(T) /\ Cardinality(T) \in Nat
      BY <1>1, <3>4, NamedType, InodesFinite
    <3>6. \A k \in T \cup {j} : rank[k] <= rank[j]
      <4>1. \A k \in T : rank[k] \in Nat /\ rank[k] <= rank[d]
        BY <3>4, <3>5
      <4>2. rank[d] \in Nat /\ rank[j] \in Nat
        BY <2>4, <3>1
      <4> QED  BY <3>1, <4>1, <4>2
    <3>7. j \notin T
      <4>1. rank[d] \in Nat /\ rank[j] \in Nat
        BY <2>4, <3>1
      <4> QED  BY <3>1, <3>4, <4>1
    <3>8. Cardinality(T \cup {j}) = Cardinality(T) + 1
      BY <3>5, <3>7, FS_AddElement
    <3>9. n < Cardinality(T \cup {j})
      BY <2>4, <3>4, <3>5, <3>8
    <3>10. Above(n, j, T \cup {j})
      BY <2>4, <3>4, <3>6, <3>9
    <3> QED  BY <2>3, <3>10
  <2> QED  BY <2>4, <2>5, <2>6
<1>12. up[<<MAX_INODES, current_dir>>]
  <2>1. SUFFICES ASSUME ~up[<<MAX_INODES, current_dir>>]  PROVE FALSE
    OBVIOUS
  <2>2. MAX_INODES \in 0 .. MAX_INODES /\ current_dir \in Named
    BY <1>1, MfsAssumption DEF MfsAssumption, TreeRooted
  <2>3. PICK T : Above(MAX_INODES, current_dir, T)
    BY <1>11, <2>1, <2>2
  <2>4. Cardinality(T) \in Nat /\ Cardinality(T) <= MAX_INODES
    BY <1>1, <2>3, NamedType, InodesFinite
  <2> QED  BY <2>3, <2>4, MfsAssumption DEF MfsAssumption
<1> QED  BY <1>1, <1>7, <1>12 DEF NamesAgree

-----------------------------------------------------------------------------
(* The calls                                                                *)

(* The table a call has filled in a new inode in. *)
LEMMA NewInodeFields ==
  ASSUME TypeOK, BlocksExclusive, NEW id \in Inodes, NEW name \in Stored, NEW type \in NodeType,
         NEW dir \in Inodes, NEW count \in 0 .. LINK_MOD - 1, NEW link \in Path,
         NEW target \in Inodes
  PROVE  LET ino == NewInode(id, name, type, dir, count, link, target)
         IN  /\ ino \in [Inodes -> InodeRec] /\ Exclusive(ino, block_bitmap)
             /\ \A i \in Inodes \ {id} : ino[i] = inode[i]
             /\ ino[id].name = name /\ ino[id].type = type /\ ino[id].parent = dir
             /\ ino[id].link_count = count /\ ino[id].target_inode = target
             /\ ino[id].blocks = {} /\ ino[id].first_child_block = NONE
<1> DEFINE ino == NewInode(id, name, type, dir, count, link, target)
<1>1. ino \in [Inodes -> InodeRec]
  BY NewInodeType
<1>2. Exclusive(ino, block_bitmap)
  BY NewInodeExclusive
<1>3. /\ \A i \in Inodes \ {id} : ino[i] = inode[i]
      /\ ino[id].name = name /\ ino[id].type = type /\ ino[id].parent = dir
      /\ ino[id].link_count = count /\ ino[id].target_inode = target
      /\ ino[id].blocks = {} /\ ino[id].first_child_block = NONE
  BY DEF NewInode, TypeOK
<1> QED  BY <1>1, <1>2, <1>3

LEMMA UsedType ==
  NamesInv => /\ inode_bitmap \in SUBSET Inodes
              /\ \A i \in Inodes : inode[i] \in InodeRec /\ inode[i].link_count \in 0 .. LINK_MOD - 1
  BY DEF NamesInv, TypeOK, InodeRec

LEMMA CreateNames ==
  ASSUME NamesInv, NEW name \in Stored, NEW type \in {"FILE", "DIR"}, NEW dir \in Named,
         Lookup(dir, name) = NONE, Create(name, type, dir)
  PROVE  NamesHold'
<1>1. TypeOK /\ BlocksExclusive /\ LinksAgree(inode, dirent, inode_bitmap)
  BY DEF NamesInv, NamesHold
<1> DEFINE count == IF type = "FILE" THEN 1 ELSE 0
<1>2. PICK id \in FreeInodes :
        /\ inode_bitmap' = inode_bitmap \cup {id}
        /\ AddChild(NewInode(id, name, type, dir, count, inode[id].symlink_target,
                             inode[id].target_inode), dir, id)
        /\ UNCHANGED current_dir
  BY DEF Create
<1>3. id \in Inodes /\ id \notin inode_bitmap /\ inode[id] \in InodeRec /\ dir \in Inodes
  BY <1>1, NamedType DEF FreeInodes, TypeOK
<1>4. /\ count \in 0 .. LINK_MOD - 1 /\ type \in NodeType
      /\ inode[id].symlink_target \in Path /\ inode[id].target_inode \in Inodes
  BY <1>3, MfsAssumption DEF MfsAssumption, InodeRec, NodeType
<1> DEFINE ino == NewInode(id, name, type, dir, count, inode[id].symlink_target,
                           inode[id].target_inode)
<1>5. /\ ino \in [Inodes -> InodeRec] /\ Exclusive(ino, block_bitmap)
      /\ \A i \in Inodes \ {id} : ino[i] = inode[i]
      /\ ino[id].name = name /\ ino[id].type = type /\ ino[id].parent = dir
      /\ ino[id].link_count = count
      /\ ino[id].blocks = {} /\ ino[id].first_child_block = NONE
  BY <1>1, <1>3, <1>4, NewInodeFields
<1>6. AddChild(ino, dir, id)
  BY <1>2
<1> HIDE DEF ino
<1>7. /\ NamesAgree(inode', dirent', inode_bitmap', current_dir')
      /\ DataInFiles(inode', inode_bitmap')
      /\ \A i \in inode_bitmap : HasName(inode', dirent', i) <=> HasName(inode, dirent, i)
      /\ \A i \in Inodes :
           /\ inode'[i].type = ino[i].type /\ inode'[i].link_count = ino[i].link_count
           /\ inode'[i].target_inode = ino[i].target_inode
  BY <1>2, <1>5, <1>6, EnterStep
<1>8. \A i \in inode_bitmap :
        /\ inode'[i].type = inode[i].type /\ inode'[i].target_inode = inode[i].target_inode
        /\ inode'[i].link_count = inode[i].link_count
        /\ HasName(inode', dirent', i) <=> HasName(inode, dirent, i)
  BY <1>3, <1>5, <1>7, UsedType
<1>9. inode'[id].type = type /\ inode'[id].link_count = count
  BY <1>3, <1>5, <1>7
<1>10. LinksAgree(inode', dirent', inode_bitmap \cup {id})
  BY <1>1, <1>3, <1>8, <1>9, UsedType, EnteringKeepsCounts
<1> QED  BY <1>2, <1>7, <1>10 DEF NamesHold

LEMMA SymlinkNames ==
  ASSUME NamesInv, NEW t \in SymlinkTexts, NEW p \in Paths, CreateSymlink(t, p)
  PROVE  NamesHold'
<1>1. TypeOK /\ BlocksExclusive /\ LinksAgree(inode, dirent, inode_bitmap)
  BY DEF NamesInv, NamesHold
<1>2. PICK dir \in At(DirPart(p)), id \in FreeInodes :
        /\ Lookup(dir, BasePart(p)) = NONE
        /\ inode_bitmap' = inode_bitmap \cup {id}
        /\ AddChild(NewInode(id, BasePart(p), "SYMLINK", dir, inode[id].link_count,
                             t, inode[id].target_inode), dir, id)
        /\ UNCHANGED current_dir
  BY DEF CreateSymlink
<1>3. /\ id \in Inodes /\ id \notin inode_bitmap /\ inode[id] \in InodeRec
      /\ dir \in Named /\ dir \in Inodes /\ t \in Path /\ BasePart(p) \in Stored
  BY <1>1, NamedType, NamesInvIsTree, PathsLeadToNames, StoredName, MfsAssumption DEF FreeInodes, TypeOK, MfsAssumption
<1>4. /\ inode[id].link_count \in 0 .. LINK_MOD - 1 /\ "SYMLINK" \in NodeType
      /\ inode[id].target_inode \in Inodes
  BY <1>3 DEF InodeRec, NodeType
<1> DEFINE ino == NewInode(id, BasePart(p), "SYMLINK", dir, inode[id].link_count,
                           t, inode[id].target_inode)
<1>5. /\ ino \in [Inodes -> InodeRec] /\ Exclusive(ino, block_bitmap)
      /\ \A i \in Inodes \ {id} : ino[i] = inode[i]
      /\ ino[id].name = BasePart(p) /\ ino[id].type = "SYMLINK" /\ ino[id].parent = dir
      /\ ino[id].blocks = {} /\ ino[id].first_child_block = NONE
  BY <1>1, <1>3, <1>4, NewInodeFields
<1>6. AddChild(ino, dir, id) /\ Lookup(dir, ino[id].name) = NONE
  BY <1>2, <1>5
<1> HIDE DEF ino
<1>7. /\ NamesAgree(inode', dirent', inode_bitmap', current_dir')
      /\ DataInFiles(inode', inode_bitmap')
      /\ \A i \in inode_bitmap : HasName(inode', dirent', i) <=> HasName(inode, dirent, i)
      /\ \A i \in Inodes :
           /\ inode'[i].type = ino[i].type /\ inode'[i].link_count = ino[i].link_count
           /\ inode'[i].target_inode = ino[i].target_inode
  BY <1>2, <1>3, <1>5, <1>6, EnterStep
<1>8. \A i \in inode_bitmap :
        /\ inode'[i].type = inode[i].type /\ inode'[i].target_inode = inode[i].target_inode
        /\ inode'[i].link_count = inode[i].link_count
        /\ HasName(inode', dirent', i) <=> HasName(inode, dirent, i)
  BY <1>3, <1>5, <1>7, UsedType
<1>9. inode'[id].type = "SYMLINK"
  BY <1>3, <1>5, <1>7
<1>10. LinksAgree(inode', dirent', inode_bitmap \cup {id})
  BY <1>1, <1>3, <1>8, <1>9, UsedType, EnteringKeepsCounts
<1> QED  BY <1>2, <1>7, <1>10 DEF NamesHold

(* A hard link is never counted past the width of link_count. *)
LEMMA CountFits ==
  ASSUME NamesInv, NEW target \in inode_bitmap, inode[target].type = "FILE"
  PROVE  (inode[target].link_count + 1) % LINK_MOD = inode[target].link_count + 1
<1>1. LinksAgree(inode, dirent, inode_bitmap) /\ 0 \notin inode_bitmap
  BY NamesInvGives DEF NamesInv, NamesHold
<1>2. inode_bitmap \in SUBSET Inodes /\ target \in Inodes /\ inode[target].link_count \in Nat
  BY UsedType, MfsAssumption DEF MfsAssumption
<1> DEFINE others == (Inodes \ {0}) \ {target}
           n == Cardinality(Links(inode, inode_bitmap, target))
<1>3. 0 \in Inodes /\ MAX_INODES \in Nat /\ LINK_MOD \in Nat /\ MAX_INODES < LINK_MOD
  BY MfsAssumption DEF Inodes, MfsAssumption
<1>4. IsFiniteSet(Inodes) /\ Cardinality(Inodes) = MAX_INODES
  BY <1>3, FS_Interval DEF Inodes
<1>5. IsFiniteSet(Inodes \ {0}) /\ Cardinality(Inodes \ {0}) = MAX_INODES - 1
  BY <1>3, <1>4, FS_RemoveElement
<1>6. IsFiniteSet(others) /\ Cardinality(others) = MAX_INODES - 2
  <2>1. target \in Inodes \ {0}
    BY <1>1, <1>2
  <2>2. Cardinality(Inodes \ {0}) - 1 = MAX_INODES - 2
    BY <1>3, <1>5
  <2> QED  BY <1>5, <2>1, <2>2, FS_RemoveElement
<1>7. Links(inode, inode_bitmap, target) \in SUBSET others
  BY <1>1, <1>2 DEF Links
<1>8. n <= MAX_INODES - 2 /\ n \in Nat
  BY <1>2, <1>6, <1>7, FS_Subset, LinksFinite
<1>9. inode[target].link_count <= n + 1
  BY <1>1 DEF LinksAgree
<1> HIDE DEF n
<1>10. inode[target].link_count + 1 \in 0 .. LINK_MOD - 1
  BY <1>2, <1>3, <1>8, <1>9
<1> QED  BY <1>3, <1>10

LEMMA HardlinkNames ==
  ASSUME NamesInv, LinkTargets \subseteq {"FILE"},
         NEW t \in Paths, NEW p \in Paths, CreateHardlink(t, p)
  PROVE  NamesHold'
<1>1. TypeOK /\ BlocksExclusive /\ LinksAgree(inode, dirent, inode_bitmap)
      /\ inode[0].type = "DIR"
  BY DEF NamesInv, NamesHold, NamesAgree
<1>2. PICK target \in At(t), dir \in At(DirPart(p)), id \in FreeInodes :
        LET new == NewInode(id, BasePart(p), "HARDLINK", dir, inode[id].link_count,
                            inode[id].symlink_target, target)
            links == (new[target].link_count + 1) % LINK_MOD
        IN  /\ inode[target].type \in LinkTargets
            /\ inode_bitmap' = inode_bitmap \cup {id}
            /\ AddChild([new EXCEPT ![target].link_count = links], dir, id)
            /\ UNCHANGED current_dir
  BY DEF CreateHardlink
<1>3. /\ id \in Inodes /\ id \notin inode_bitmap /\ inode[id] \in InodeRec
      /\ dir \in Named /\ dir \in Inodes /\ BasePart(p) \in Stored
      /\ target \in Named /\ target \in Inodes
  BY <1>1, NamedType, NamesInvIsTree, PathsLeadToNames, StoredName DEF FreeInodes, TypeOK
<1>4. /\ inode[id].link_count \in 0 .. LINK_MOD - 1 /\ "HARDLINK" \in NodeType
      /\ inode[id].symlink_target \in Path
  BY <1>3 DEF InodeRec, NodeType
<1>5. /\ inode[target].type = "FILE" /\ target \in inode_bitmap /\ target # id
      /\ inode[target].link_count \in Nat
  <2>1. inode[target].type = "FILE"
    BY <1>2
  <2>2. target \in inode_bitmap
    BY <1>1, <1>3, <2>1, NamesInvGives
  <2> QED  BY <1>3, <2>1, <2>2, UsedType, MfsAssumption DEF MfsAssumption
<1> DEFINE new == NewInode(id, BasePart(p), "HARDLINK", dir, inode[id].link_count,
                           inode[id].symlink_target, target)
           links == (new[target].link_count + 1) % LINK_MOD
           ino == [new EXCEPT ![target].link_count = links]
<1>6. /\ new \in [Inodes -> InodeRec] /\ Exclusive(new, block_bitmap)
      /\ \A i \in Inodes \ {id} : new[i] = inode[i]
      /\ new[id].type = "HARDLINK" /\ new[id].parent = dir /\ new[id].target_inode = target
      /\ new[id].blocks = {} /\ new[id].first_child_block = NONE
  BY <1>1, <1>3, <1>4, NewInodeFields
<1>7. AddChild(ino, dir, id)
  BY <1>2
<1> HIDE DEF new
<1>8. links = inode[target].link_count + 1 /\ links \in 0 .. LINK_MOD - 1
  <2>1. new[target].link_count = inode[target].link_count
    BY <1>3, <1>5, <1>6
  <2>2. links = inode[target].link_count + 1
    BY <2>1, <1>5, CountFits
  <2>3. links \in 0 .. LINK_MOD - 1
    BY <2>1, <1>5, MfsAssumption DEF MfsAssumption
  <2> QED  BY <2>2, <2>3
<1> HIDE DEF links
<1>9. new[target] \in InodeRec
  BY <1>3, <1>6
<1>10. ino \in [Inodes -> InodeRec]
  BY <1>3, <1>6, <1>8, <1>9, SetLinkCount
<1>11. ASSUME NEW i \in Inodes
       PROVE  /\ ino[i].blocks = new[i].blocks /\ ino[i].far = new[i].far
              /\ ino[i].first_child_block = new[i].first_child_block
              /\ ino[i].type = new[i].type /\ ino[i].name = new[i].name
              /\ ino[i].parent = new[i].parent /\ ino[i].target_inode = new[i].target_inode
              /\ ino[i].link_count = IF i = target THEN links ELSE new[i].link_count
  <2>1. new[i] \in InodeRec
    BY <1>6
  <2> QED  BY <1>3, <1>6, <2>1 DEF InodeRec
<1> HIDE DEF ino
<1>12. Exclusive(ino, block_bitmap)
  BY <1>6, <1>11, ExclusiveUnchanged
<1>13. /\ NamesAgree(inode', dirent', inode_bitmap', current_dir')
       /\ DataInFiles(inode', inode_bitmap')
       /\ \A i \in inode_bitmap : HasName(inode', dirent', i) <=> HasName(inode, dirent, i)
       /\ \A i \in Inodes :
            /\ inode'[i].type = ino[i].type /\ inode'[i].link_count = ino[i].link_count
            /\ inode'[i].target_inode = ino[i].target_inode
  <2>1. \A i \in Inodes \ {id} :
          /\ ino[i].type = inode[i].type /\ ino[i].name = inode[i].name
          /\ ino[i].parent = inode[i].parent /\ ino[i].blocks = inode[i].blocks
          /\ ino[i].first_child_block = inode[i].first_child_block
    BY <1>6, <1>11
  <2>2. /\ ino[id].parent = dir /\ ino[id].blocks = {} /\ ino[id].first_child_block = NONE
        /\ ino[id].type = "HARDLINK"
    BY <1>3, <1>6, <1>11
  <2>3. inode_bitmap' = inode_bitmap \cup {id} /\ current_dir' = current_dir
    BY <1>2
  <2> QED  BY <1>3, <1>7, <1>10, <1>12, <2>1, <2>2, <2>3, EnterStep
<1>14. \A i \in inode_bitmap :
         /\ inode'[i].type = inode[i].type /\ inode'[i].target_inode = inode[i].target_inode
         /\ inode'[i].link_count = inode[i].link_count + (IF i = target THEN 1 ELSE 0)
         /\ HasName(inode', dirent', i) <=> HasName(inode, dirent, i)
  <2>1. \A i \in inode_bitmap : i \in Inodes \ {id} /\ inode[i].link_count \in Int
    BY <1>3, UsedType, MfsAssumption DEF MfsAssumption
  <2> QED  BY <2>1, <1>6, <1>8, <1>11, <1>13
<1>15. inode'[id].type = "HARDLINK" /\ inode'[id].target_inode = target
  BY <1>3, <1>6, <1>11, <1>13
<1>16. LinksAgree(inode', dirent', inode_bitmap \cup {id})
  <2>1. \A i \in inode_bitmap : inode[i].link_count \in Int
    BY UsedType, MfsAssumption DEF MfsAssumption
  <2> QED  BY <1>1, <1>3, <1>5, <1>14, <1>15, <2>1, UsedType, LinkingKeepsCounts
<1> QED  BY <1>2, <1>13, <1>16 DEF NamesHold

(* A call that changes no name, type, parent, count or entry. *)
LEMMA SameNames ==
  ASSUME NEW ino, NEW ent, NEW used \in SUBSET Inodes, NEW cwd, NEW ino2, NEW cwd2 \in Inodes,
         NamesAgree(ino, ent, used, cwd), LinksAgree(ino, ent, used),
         \A i \in Inodes :
           /\ ino2[i].type = ino[i].type /\ ino2[i].name = ino[i].name
           /\ ino2[i].parent = ino[i].parent /\ ino2[i].link_count = ino[i].link_count
           /\ ino2[i].target_inode = ino[i].target_inode
           /\ ino2[i].first_child_block = ino[i].first_child_block,
         HasName(ino, ent, cwd2), ino[cwd2].type = "DIR"
  PROVE  NamesAgree(ino2, ent, used, cwd2) /\ LinksAgree(ino2, ent, used)
<1>1. \A d \in Inodes, s \in Slots, c \in Inodes :
        Holds(ino2, ent, d, s, c) <=> Holds(ino, ent, d, s, c)
  BY DEF Holds
<1>2. \A i \in Inodes : HasName(ino2, ent, i) <=> HasName(ino, ent, i)
  BY <1>1 DEF HasName
<1>3. \A i : Links(ino2, used, i) = Links(ino, used, i)
  BY DEF Links
<1>4. 0 \in Inodes
  BY MfsAssumption DEF Inodes, MfsAssumption
<1>5. NamesAgree(ino2, ent, used, cwd2)
  <2>1. Ranked(ino2, ent)
    BY <1>1, LessIsRanked DEF NamesAgree
  <2> QED  BY <1>1, <1>2, <1>4, <2>1 DEF NamesAgree
<1>6. LinksAgree(ino2, ent, used)
  <2>1. ASSUME NEW h \in used, ino2[h].type = "HARDLINK"
        PROVE  ino2[h].target_inode \in used /\ ino2[ino2[h].target_inode].type = "FILE"
    <3>1. ino[h].target_inode \in used /\ ino[ino[h].target_inode].type = "FILE"
      BY <2>1 DEF LinksAgree
    <3> QED  BY <3>1
  <2>2. ASSUME NEW i \in used
        PROVE  /\ ino2[i].type = "FILE" =>
                    /\ ino2[i].link_count >= Cardinality(Links(ino2, used, i))
                                              + (IF HasName(ino2, ent, i) THEN 1 ELSE 0)
                    /\ ino2[i].link_count <= Cardinality(Links(ino2, used, i)) + 1
               /\ ino2[i].type = "DIR" => ino2[i].link_count = 0
    BY <1>2, <1>3 DEF LinksAgree
  <2> QED  BY <2>1, <2>2 DEF LinksAgree
<1> QED  BY <1>5, <1>6

LEMMA WriteNames ==
  ASSUME NamesInv, NEW p \in Paths, NEW n \in 1 .. MAX_WRITE, WriteFile(p, n)
  PROVE  NamesHold'
<1>1. /\ TypeOK /\ NamesAgree(inode, dirent, inode_bitmap, current_dir)
      /\ LinksAgree(inode, dirent, inode_bitmap) /\ DataInFiles(inode, inode_bitmap)
      /\ inode[0].type = "DIR" /\ inode[current_dir].type = "DIR"
      /\ HasName(inode, dirent, current_dir)
      /\ EntryAgreesWithParent /\ TreeRooted
      /\ inode_bitmap \in SUBSET Inodes /\ current_dir \in Inodes
  BY NamesInvGives DEF NamesInv, NamesHold, NamesAgree, TypeOK
<1>2. PICK id \in At(p), real \in Inodes :
        /\ real = Resolve(id) /\ inode[real].type = "FILE" /\ WriteData(real, n)
        /\ UNCHANGED <<dirent, inode_bitmap, current_dir>>
  BY DEF WriteFile
<1>3. real \in inode_bitmap
  <2>1. id \in Named
    BY NamesInvIsTree, PathsLeadToNames
  <2>2. CASE Resolve(id) \in Named \cup {NONE}
    <3>1. NONE \notin Inodes
      BY DEF Inodes
    <3> QED  BY <1>1, <1>2, <2>2, <3>1, NamesInvGives
  <2>3. CASE \E h \in Named : inode[h].type = "HARDLINK" /\ Resolve(id) = inode[h].target_inode
    <3>1. PICK h \in Named : inode[h].type = "HARDLINK" /\ real = inode[h].target_inode
      BY <1>2, <2>3
    <3>2. h \in inode_bitmap
      BY <1>1, <3>1, NamesInvGives
    <3> QED  BY <1>1, <3>1, <3>2 DEF LinksAgree
  <2> QED  BY <1>1, <2>1, <2>2, <2>3, ResolveReaches
<1>4. PICK got \in SUBSET Blocks, direct \in SUBSET Blocks :
        inode' = [inode EXCEPT ![real] =
                    [@ EXCEPT !.size = Larger(inode[real].size, n),
                              !.blocks = inode[real].blocks \cup direct,
                              !.far = inode[real].far \cup (got \ direct)]]
  BY <1>2 DEF WriteData, Lowest, FreeBlocks
<1>5. ASSUME NEW i \in Inodes
      PROVE  /\ inode'[i].type = inode[i].type /\ inode'[i].name = inode[i].name
             /\ inode'[i].parent = inode[i].parent /\ inode'[i].link_count = inode[i].link_count
             /\ inode'[i].target_inode = inode[i].target_inode
             /\ inode'[i].first_child_block = inode[i].first_child_block
             /\ i # real => inode'[i].blocks = inode[i].blocks
  <2>1. inode[i] \in InodeRec
    BY <1>1 DEF TypeOK
  <2> QED  BY <1>1, <1>4, <2>1 DEF TypeOK, InodeRec
<1>6. NamesAgree(inode', dirent, inode_bitmap, current_dir) /\ LinksAgree(inode', dirent, inode_bitmap)
  BY <1>1, <1>5, SameNames
<1>7. DataInFiles(inode', inode_bitmap)
  BY <1>1, <1>2, <1>3, <1>5 DEF DataInFiles
<1> QED  BY <1>2, <1>6, <1>7 DEF NamesHold

LEMMA ChangeDirEntersNamed ==
  ASSUME TreeInv, NEW p \in Paths, ChangeDir(p)
  PROVE  /\ NamesAgree(inode, dirent, inode_bitmap, current_dir')
         /\ UNCHANGED <<inode, dirent, inode_bitmap, block_bitmap>>
<1>1. /\ TypeOK /\ NamesAgree(inode, dirent, inode_bitmap, current_dir)
      /\ inode[0].type = "DIR" /\ EntryAgreesWithParent /\ TreeRooted
      /\ inode_bitmap \in SUBSET Inodes /\ current_dir \in Inodes /\ current_dir \in Named
  BY TreeInvGives DEF TreeInv, NamesAgree, TypeOK, TreeRooted
<1>2. PICK dir \in Inodes :
        /\ \/ dir = inode[current_dir].parent /\ current_dir # 0
           \/ dir = 0
           \/ Find(p) # NONE /\ dir = ResolveOnce(Find(p)) /\ inode[dir].type = "DIR"
        /\ current_dir' = dir
        /\ UNCHANGED <<inode, dirent, inode_bitmap, block_bitmap>>
  BY DEF ChangeDir
<1>3. dir \in Named /\ inode[dir].type = "DIR"
  <2>1. CASE dir = inode[current_dir].parent /\ current_dir # 0
    <3>1. dir \in Named
      BY <1>1, <2>1, StepsStayNamed
    <3>2. PICK d \in Inodes, s \in Slots : Holds(inode, dirent, d, s, current_dir)
      BY <1>1, <2>1 DEF NamesAgree, HasName
    <3>3. inode[current_dir].parent = d /\ inode[d].type = "DIR"
      BY <1>1, <3>2 DEF NamesAgree, Holds
    <3> QED  BY <2>1, <3>1, <3>3
  <2>2. CASE dir = 0
    BY <1>1, <2>2 DEF Named, TypeOK
  <2>3. CASE Find(p) # NONE /\ dir = ResolveOnce(Find(p)) /\ inode[dir].type = "DIR"
    <3>1. Find(p) \in Named
      BY <1>1, <2>3, FindNamed, PathsLeadToNames
    <3>2. NONE \notin Inodes
      BY DEF Inodes
    <3>3. dir \in Named
      BY <1>1, <2>3, <3>1, <3>2, ResolveOnceNamed
    <3> QED  BY <2>3, <3>3
  <2> QED  BY <1>2, <2>1, <2>2, <2>3
<1>4. HasName(inode, dirent, dir)
  BY <1>1, <1>3, NamedHasName
<1>5. NamesAgree(inode, dirent, inode_bitmap, dir)
  BY <1>1, <1>3, <1>4 DEF NamesAgree
<1> QED  BY <1>2, <1>5

LEMMA ChangeDirNames ==
  ASSUME NamesInv, NEW p \in Paths, ChangeDir(p)
  PROVE  NamesHold'
<1>1. LinksAgree(inode, dirent, inode_bitmap) /\ DataInFiles(inode, inode_bitmap)
  BY DEF NamesInv, NamesHold
<1> QED  BY <1>1, NamesInvIsTree, ChangeDirEntersNamed DEF NamesHold

(* What rm, rmdir and unlink do to the entries. *)
LEMMA ClearNames ==
  ASSUME TreeInv,
         \A d \in Inodes : inode[d].type = "DIR" => EntryBlocksApart(inode, block_bitmap, d),
         NEW id \in Named \ {0}, id # current_dir, Children(id) = {},
         dirent' = Without(inode[id].parent, id), current_dir' = current_dir,
         inode_bitmap' \subseteq inode_bitmap,
         \A c \in inode_bitmap \ inode_bitmap' : c = id \/ ~HasName(inode, dirent, c),
         \A i \in Inodes :
           /\ inode'[i].name = inode[i].name /\ inode'[i].parent = inode[i].parent
           /\ \/ /\ inode'[i].type = inode[i].type
                 /\ inode'[i].first_child_block = inode[i].first_child_block
              \/ i = id /\ inode'[i].type # "DIR"
  PROVE  /\ NamesAgree(inode', dirent', inode_bitmap', current_dir')
         /\ \A i \in Inodes \ {0} : HasName(inode', dirent', i) <=> HasName(inode, dirent, i) /\ i # id
<1>1. /\ TypeOK /\ EntryAgreesWithParent
      /\ NamesAgree(inode, dirent, inode_bitmap, current_dir)
      /\ current_dir \in Inodes
  BY TreeInvGives DEF TreeInv, TypeOK
<1>2. id \in Inodes
  BY <1>1, NamedType
<1>3. Clears(inode, dirent, inode', Without(inode[id].parent, id), id)
  BY <1>1, WithoutClears
<1>4. \A s \in Slots, c \in Inodes : ~Holds(inode, dirent, id, s, c)
  BY <1>1, <1>2, HoldsIsEntry
<1>5. SameNodes(inode, inode', id)
  BY DEF SameNodes
<1>6. NamesAgree(inode', dirent', inode_bitmap', current_dir)
  BY <1>1, <1>2, <1>3, <1>4, <1>5, ClearingKeepsNames
<1>7. \A i \in Inodes \ {0} : HasName(inode', dirent', i) <=> HasName(inode, dirent, i) /\ i # id
  BY <1>3 DEF Clears, HasName
<1> QED  BY <1>6, <1>7

LEMMA ClearStep ==
  ASSUME NamesInv, NEW id \in Named \ {0}, id # current_dir, Children(id) = {},
         dirent' = Without(inode[id].parent, id), current_dir' = current_dir,
         inode_bitmap' \subseteq inode_bitmap,
         \A c \in inode_bitmap \ inode_bitmap' : c = id \/ ~HasName(inode, dirent, c),
         \A i \in Inodes :
           /\ inode'[i].name = inode[i].name /\ inode'[i].parent = inode[i].parent
           /\ \/ /\ inode'[i].type = inode[i].type
                 /\ inode'[i].first_child_block = inode[i].first_child_block
              \/ i = id /\ inode'[i].type # "DIR"
  PROVE  /\ NamesAgree(inode', dirent', inode_bitmap', current_dir')
         /\ \A i \in Inodes \ {0} : HasName(inode', dirent', i) <=> HasName(inode, dirent, i) /\ i # id
<1>1. \A d \in Inodes : inode[d].type = "DIR" => EntryBlocksApart(inode, block_bitmap, d)
  BY ExclusiveIsApart, ExclusiveIsBlocksExclusive DEF NamesInv
<1> QED  BY <1>1, NamesInvIsTree, ClearNames

LEMMA RemoveFileNames ==
  ASSUME NamesInv, NEW p \in Paths, RemoveFile(p)
  PROVE  NamesHold'
<1>1. /\ TypeOK /\ LinksAgree(inode, dirent, inode_bitmap) /\ DataInFiles(inode, inode_bitmap)
      /\ inode[0].type = "DIR" /\ inode[current_dir].type = "DIR"
      /\ inode_bitmap \in SUBSET Inodes
      /\ \A i \in inode_bitmap : inode[i].link_count \in Int
  BY UsedType, MfsAssumption DEF NamesInv, NamesHold, NamesAgree, MfsAssumption
<1>2. PICK id \in At(p) : /\ DropName(id) \/ DropFile(id) \/ DropSymlink(id)
                          /\ current_dir' = current_dir
  BY DEF RemoveFile
<1>3. /\ id \in Named /\ id \in Inodes
      /\ inode[id].type \in {"FILE", "SYMLINK"} /\ id # 0 /\ id # current_dir
      /\ id \in inode_bitmap /\ Children(id) = {} /\ HasName(inode, dirent, id)
  <2>1. id \in Named /\ id \in Inodes
    BY <1>1, NamesInvIsTree, PathsLeadToNames, NamedType
  <2>2. inode[id].type \in {"FILE", "SYMLINK"}
    BY <1>2 DEF DropName, DropFile, DropSymlink
  <2>3. id # 0 /\ id # current_dir
    BY <1>1, <2>2
  <2> QED  BY <1>1, <2>1, <2>2, <2>3, NamesInvGives, NamedHasName DEF Children
<1>4. CASE DropName(id)
  <2>1. ASSUME NEW i \in Inodes
        PROVE  /\ inode'[i].name = inode[i].name /\ inode'[i].parent = inode[i].parent
               /\ inode'[i].type = inode[i].type /\ inode'[i].blocks = inode[i].blocks
               /\ inode'[i].first_child_block = inode[i].first_child_block
               /\ inode'[i].target_inode = inode[i].target_inode
               /\ inode'[i].link_count = IF i = id THEN inode[i].link_count - 1
                                         ELSE inode[i].link_count
    <3>1. inode[i] \in InodeRec
      BY <1>1 DEF TypeOK
    <3> QED  BY <1>1, <1>3, <1>4, <3>1 DEF DropName, TypeOK, InodeRec
  <2>2. dirent' = Without(inode[id].parent, id) /\ inode_bitmap' = inode_bitmap
    BY <1>4 DEF DropName
  <2>3. /\ NamesAgree(inode', dirent', inode_bitmap', current_dir')
        /\ \A i \in Inodes \ {0} : HasName(inode', dirent', i) <=> HasName(inode, dirent, i) /\ i # id
    BY <1>2, <1>3, <2>1, <2>2, ClearStep
  <2>4. \A i \in inode_bitmap :
          /\ inode'[i].type = inode[i].type /\ inode'[i].target_inode = inode[i].target_inode
          /\ inode'[i].link_count = inode[i].link_count - (IF i = id THEN 1 ELSE 0)
          /\ HasName(inode', dirent', i) <=> HasName(inode, dirent, i) /\ i # id
    BY <1>1, <2>1, <2>3, NamesInvGives
  <2>5. LinksAgree(inode', dirent', inode_bitmap)
    <3>1. inode[id].type = "FILE"
      BY <1>4 DEF DropName
    <3> QED  BY <1>1, <1>3, <2>4, <3>1, UnnamingKeepsCounts
  <2>6. DataInFiles(inode', inode_bitmap)
    BY <1>1, <2>1 DEF DataInFiles
  <2> QED  BY <2>2, <2>3, <2>5, <2>6 DEF NamesHold
<1>5. ~DropFile(id)
  <2>1. SUFFICES ASSUME inode[id].type = "FILE"  PROVE inode[id].link_count # 0
    BY DEF DropFile
  <2>2. Cardinality(Links(inode, inode_bitmap, id)) \in Nat
    BY <1>1, LinksFinite
  <2> QED  BY <1>1, <1>3, <2>1, <2>2 DEF LinksAgree
<1>6. CASE DropSymlink(id)
  <2>1. /\ dirent' = Without(inode[id].parent, id) /\ inode_bitmap' = inode_bitmap \ {id}
        /\ inode' = inode /\ inode[id].type = "SYMLINK"
    BY <1>6 DEF DropSymlink
  <2>2. /\ NamesAgree(inode', dirent', inode_bitmap', current_dir')
        /\ \A i \in Inodes \ {0} : HasName(inode', dirent', i) <=> HasName(inode, dirent, i) /\ i # id
    BY <1>2, <1>3, <2>1, ClearStep
  <2>3. \A i \in inode_bitmap \ {id} :
          /\ inode'[i].type = inode[i].type /\ inode'[i].target_inode = inode[i].target_inode
          /\ inode'[i].link_count = inode[i].link_count
          /\ HasName(inode', dirent', i) <=> HasName(inode, dirent, i)
    BY <1>1, <2>1, <2>2, NamesInvGives
  <2>4. LinksAgree(inode', dirent', inode_bitmap')
    BY <1>1, <1>3, <2>1, <2>3, DroppingKeepsCounts
  <2>5. DataInFiles(inode', inode_bitmap')
    BY <1>1, <2>1 DEF DataInFiles
  <2> QED  BY <2>2, <2>4, <2>5 DEF NamesHold
<1> QED  BY <1>2, <1>4, <1>5, <1>6

LEMMA RemoveDirNames ==
  ASSUME NamesInv, BusyRmdir = FALSE, NEW p \in Paths, RemoveDir(p)
  PROVE  NamesHold'
<1>1. /\ TypeOK /\ LinksAgree(inode, dirent, inode_bitmap) /\ DataInFiles(inode, inode_bitmap)
      /\ inode_bitmap \in SUBSET Inodes
  BY UsedType DEF NamesInv, NamesHold
<1>2. PICK id \in At(p) :
        /\ inode[id].type = "DIR" /\ Children(id) = {} /\ id \notin {0, current_dir}
        /\ dirent' = Without(inode[id].parent, id)
        /\ inode' = [inode EXCEPT ![id] =
                       [@ EXCEPT !.type = "FILE", !.size = 0, !.blocks = {},
                                 !.first_child_block = NONE]]
        /\ UNCHANGED <<inode_bitmap, block_bitmap, current_dir>>
  BY DEF RemoveDir
<1>3. id \in Named /\ id \in Inodes /\ id \in inode_bitmap
  BY <1>1, <1>2, NamesInvIsTree, PathsLeadToNames, NamedType, NamesInvGives
<1>4. ASSUME NEW i \in Inodes
      PROVE  /\ inode'[i].name = inode[i].name /\ inode'[i].parent = inode[i].parent
             /\ inode'[i].target_inode = inode[i].target_inode
             /\ inode'[i].link_count = inode[i].link_count
             /\ inode'[i].type = IF i = id THEN "FILE" ELSE inode[i].type
             /\ inode'[i].blocks = IF i = id THEN {} ELSE inode[i].blocks
             /\ i # id => inode'[i].first_child_block = inode[i].first_child_block
  <2>1. inode[i] \in InodeRec
    BY <1>1 DEF TypeOK
  <2> QED  BY <1>1, <1>2, <1>3, <2>1 DEF TypeOK, InodeRec
<1>5. /\ NamesAgree(inode', dirent', inode_bitmap', current_dir')
      /\ \A i \in Inodes \ {0} : HasName(inode', dirent', i) <=> HasName(inode, dirent, i) /\ i # id
  <2>1. /\ id \in Named \ {0} /\ id # current_dir /\ Children(id) = {}
        /\ dirent' = Without(inode[id].parent, id) /\ current_dir' = current_dir
        /\ inode_bitmap' = inode_bitmap
    BY <1>2, <1>3
  <2>2. /\ inode_bitmap' \subseteq inode_bitmap
        /\ \A c \in inode_bitmap \ inode_bitmap' : c = id \/ ~HasName(inode, dirent, c)
    BY <2>1
  <2>3. \A i \in Inodes :
          /\ inode'[i].name = inode[i].name /\ inode'[i].parent = inode[i].parent
          /\ \/ /\ inode'[i].type = inode[i].type
                /\ inode'[i].first_child_block = inode[i].first_child_block
             \/ i = id /\ inode'[i].type # "DIR"
    BY <1>4
  <2> QED  BY <2>1, <2>2, <2>3, ClearStep
<1>6. LinksAgree(inode', dirent', inode_bitmap)
  <2>1. /\ inode'[id].type = "FILE" /\ inode'[id].link_count = inode[id].link_count
        /\ ~HasName(inode', dirent', id)
    BY <1>2, <1>3, <1>4, <1>5
  <2>2. \A i \in inode_bitmap \ {id} :
          /\ inode'[i].type = inode[i].type /\ inode'[i].target_inode = inode[i].target_inode
          /\ inode'[i].link_count = inode[i].link_count
          /\ HasName(inode', dirent', i) <=> HasName(inode, dirent, i)
    BY <1>1, <1>4, <1>5, NamesInvGives
  <2>3. inode[id].type = "DIR"
    BY <1>2
  <2> QED  BY <1>1, <1>3, <2>1, <2>2, <2>3, DroppingKeepsCounts
<1>7. DataInFiles(inode', inode_bitmap)
  BY <1>1, <1>4 DEF DataInFiles
<1> QED  BY <1>2, <1>5, <1>6, <1>7 DEF NamesHold

LEMMA UnlinkNames ==
  ASSUME NamesInv, NEW p \in Paths, Unlink(p)
  PROVE  NamesHold'
<1>1. /\ TypeOK /\ LinksAgree(inode, dirent, inode_bitmap) /\ DataInFiles(inode, inode_bitmap)
      /\ inode[0].type = "DIR" /\ inode[current_dir].type = "DIR"
      /\ inode_bitmap \in SUBSET Inodes
      /\ \A i \in inode_bitmap : inode[i].link_count \in Int
  BY UsedType, MfsAssumption DEF NamesInv, NamesHold, NamesAgree, MfsAssumption
<1>2. PICK id \in At(p) :
        /\ inode[id].type = "HARDLINK"
        /\ dirent' = Without(inode[id].parent, id)
        /\ LET target == inode[id].target_inode
               count == (inode[target].link_count - 1) % LINK_MOD
           IN  \/ /\ count # 0
                  /\ inode' = [inode EXCEPT ![target].link_count = count]
                  /\ inode_bitmap' = inode_bitmap \ {id}
               \/ /\ count = 0
                  /\ inode' = [inode EXCEPT ![target] =
                                 [@ EXCEPT !.link_count = 0, !.blocks = {}]]
                  /\ inode_bitmap' = inode_bitmap \ {id, target}
        /\ current_dir' = current_dir
  BY DEF Unlink
<1> DEFINE target == inode[id].target_inode
           count == (inode[target].link_count - 1) % LINK_MOD
<1>3. /\ id \in Named /\ id \in Inodes /\ id # 0 /\ id # current_dir
      /\ id \in inode_bitmap /\ Children(id) = {}
  <2>1. id \in Named /\ id \in Inodes
    BY <1>1, NamesInvIsTree, PathsLeadToNames, NamedType
  <2>2. id # 0 /\ id # current_dir
    BY <1>1, <1>2
  <2> QED  BY <1>2, <2>1, <2>2, NamesInvGives DEF Children
<1>4. /\ target \in inode_bitmap /\ inode[target].type = "FILE" /\ target # id
      /\ inode[target].link_count >= 1 /\ target \in Inodes
      /\ inode[target].link_count = 1 => ~HasName(inode, dirent, target)
  <2>1. inode[id].type = "HARDLINK"
    BY <1>2
  <2>2. target = inode[id].target_inode
    OBVIOUS
  <2> HIDE DEF target
  <2>3. /\ target \in inode_bitmap /\ inode[target].type = "FILE" /\ target # id
        /\ inode[target].link_count >= 1
        /\ inode[target].link_count = 1 => ~HasName(inode, dirent, target)
    BY <1>1, <1>3, <2>1, <2>2, LastLink
  <2> QED  BY <1>1, <2>3
<1>5. count = inode[target].link_count - 1
  <2>1. inode[target].link_count - 1 \in 0 .. LINK_MOD - 1
    BY <1>4, UsedType, MfsAssumption DEF MfsAssumption
  <2> QED  BY <2>1, MfsAssumption DEF MfsAssumption
<1>6. \/ /\ count # 0
         /\ inode' = [inode EXCEPT ![target].link_count = count]
         /\ inode_bitmap' = inode_bitmap \ {id}
      \/ /\ count = 0
         /\ inode' = [inode EXCEPT ![target] = [@ EXCEPT !.link_count = 0, !.blocks = {}]]
         /\ inode_bitmap' = inode_bitmap \ {id, target}
  BY <1>2
<1> HIDE DEF count, target
<1>7. ASSUME NEW i \in Inodes
      PROVE  /\ inode'[i].name = inode[i].name /\ inode'[i].parent = inode[i].parent
             /\ inode'[i].type = inode[i].type
             /\ inode'[i].first_child_block = inode[i].first_child_block
             /\ inode'[i].target_inode = inode[i].target_inode
             /\ inode'[i].link_count = IF i = target THEN count ELSE inode[i].link_count
             /\ i # target => inode'[i].blocks = inode[i].blocks
             /\ inode'[i].blocks \in {inode[i].blocks, {}}
  <2>1. inode[i] \in InodeRec
    BY <1>1 DEF TypeOK
  <2>2. CASE inode' = [inode EXCEPT ![target].link_count = count]
    BY <1>1, <1>4, <2>1, <2>2 DEF TypeOK, InodeRec
  <2>3. CASE /\ count = 0
             /\ inode' = [inode EXCEPT ![target] = [@ EXCEPT !.link_count = 0, !.blocks = {}]]
    BY <1>1, <1>4, <2>1, <2>3 DEF TypeOK, InodeRec
  <2> QED  BY <1>6, <2>2, <2>3
<1>8. /\ inode_bitmap' \subseteq inode_bitmap
      /\ \A c \in inode_bitmap \ inode_bitmap' : c = id \/ ~HasName(inode, dirent, c)
  <2>1. count = 0 => inode[target].link_count = 1
    BY <1>1, <1>4, <1>5
  <2> QED  BY <1>4, <1>6, <2>1
<1>9. /\ NamesAgree(inode', dirent', inode_bitmap', current_dir')
      /\ \A i \in Inodes \ {0} : HasName(inode', dirent', i) <=> HasName(inode, dirent, i) /\ i # id
  BY <1>2, <1>3, <1>7, <1>8, ClearStep
<1>10. LinksAgree(inode', dirent', inode_bitmap')
  <2>1. \A i \in inode_bitmap \ {id} :
          /\ inode'[i].type = inode[i].type /\ inode'[i].target_inode = inode[i].target_inode
          /\ inode'[i].link_count = inode[i].link_count - (IF i = target THEN 1 ELSE 0)
          /\ HasName(inode', dirent', i) <=> HasName(inode, dirent, i)
    BY <1>1, <1>5, <1>7, <1>9, NamesInvGives
  <2>2. \/ inode_bitmap' = inode_bitmap \ {id}
        \/ inode_bitmap' = inode_bitmap \ {id, target} /\ inode[target].link_count = 1
    BY <1>1, <1>4, <1>5, <1>6
  <2>3. target = inode[id].target_inode
    BY DEF target
  <2> QED  BY <1>1, <1>2, <1>3, <2>1, <2>2, <2>3, UnlinkingKeepsCounts
<1>11. DataInFiles(inode', inode_bitmap')
  <2>1. ASSUME NEW i \in Inodes, i \notin inode_bitmap' \/ inode'[i].type # "FILE"
        PROVE  inode'[i].blocks = {}
    <3>1. CASE i = target
      <4>1. i \notin inode_bitmap'
        BY <1>4, <1>7, <2>1, <3>1
      <4>2. inode' = [inode EXCEPT ![target] = [@ EXCEPT !.link_count = 0, !.blocks = {}]]
        BY <1>4, <1>6, <3>1, <4>1
      <4>3. inode[target] \in InodeRec
        BY <1>1, <1>4 DEF TypeOK
      <4> QED  BY <1>1, <1>4, <3>1, <4>2, <4>3 DEF TypeOK, InodeRec
    <3>2. CASE i # target
      <4>1. inode'[i].blocks = inode[i].blocks /\ inode'[i].type = inode[i].type
        BY <1>7, <3>2
      <4>2. i \notin inode_bitmap \/ inode[i].type # "FILE"
        BY <1>2, <1>6, <2>1, <3>2, <4>1
      <4> QED  BY <1>1, <4>1, <4>2 DEF DataInFiles
    <3> QED  BY <3>1, <3>2
  <2> QED  BY <2>1 DEF DataInFiles
<1> QED  BY <1>9, <1>10, <1>11 DEF NamesHold

-----------------------------------------------------------------------------
(* The invariant along the steps                                            *)

LEMMA NamesStep ==
  ASSUME LinkTargets \subseteq {"FILE"}, BusyRmdir = FALSE, NamesInv, [Next]_vars
  PROVE  NamesInv'
<1> USE DEF Typed
<1>1. TypeOK' /\ BlocksExclusive'
  BY TypeStep, BlocksStep DEF NamesInv
<1>2. ASSUME NEW p \in Paths, CreateFile(p)
      PROVE  NamesHold'
  <2>1. PICK dir \in At(DirPart(p)) : /\ Lookup(dir, BasePart(p)) = NONE
                                      /\ Create(BasePart(p), "FILE", dir)
    BY <1>2 DEF CreateFile
  <2>2. dir \in Named /\ BasePart(p) \in Stored
    BY NamesInvIsTree, PathsLeadToNames, StoredName
  <2> QED  BY <2>1, <2>2, CreateNames
<1>3. ASSUME NEW p \in Paths, CreateDir(p)
      PROVE  NamesHold'
  <2>1. PICK dir \in At(DirPart(p)) : /\ Lookup(dir, BasePart(p)) = NONE
                                      /\ Create(BasePart(p), "DIR", dir)
    BY <1>3 DEF CreateDir
  <2>2. dir \in Named /\ BasePart(p) \in Stored
    BY NamesInvIsTree, PathsLeadToNames, StoredName
  <2> QED  BY <2>1, <2>2, CreateNames
<1>4. ASSUME UNCHANGED vars
      PROVE  NamesHold'
  <2>1. NamesHold
    BY DEF NamesInv
  <2> QED  BY <1>4, <2>1 DEF vars, NamesHold
<1>5. NamesHold'
  BY <1>2, <1>3, <1>4, SymlinkNames, HardlinkNames, WriteNames, RemoveFileNames,
     RemoveDirNames, UnlinkNames, ChangeDirNames DEF Next
<1> QED  BY <1>1, <1>5 DEF NamesInv

(* Unless the user makes a hard link to a link, or removes the current      *)
(* directory or the root, every command keeps the names, the entries, the   *)
(* link counts and the data together as NamesInv says.                      *)
THEOREM NamesStayTogether ==
  ASSUME LinkTargets \subseteq {"FILE"}, BusyRmdir = FALSE
  PROVE  Spec => []NamesInv
<1>1. Init => NamesInv
  BY InitNames
<1>2. NamesInv /\ [Next]_vars => NamesInv'
  BY NamesStep
<1> QED  BY <1>1, <1>2, PTL DEF Spec

(* No directory ever lists an inode that alloc_inode could hand out again.  *)
THEOREM ListedStayAllocated ==
  ASSUME LinkTargets \subseteq {"FILE"}, BusyRmdir = FALSE
  PROVE  Spec => []ListedAllocated
<1>1. NamesInv => ListedAllocated
  BY NamesInvGives
<1>2. Spec => []NamesInv
  BY NamesStayTogether
<1> QED  BY <1>1, <1>2, PTL

(* The entry rm, rmdir or unlink looks for in the parent of an inode is the *)
(* only entry the inode has.                                                *)
THEOREM EntriesStayWithParent ==
  ASSUME LinkTargets \subseteq {"FILE"}, BusyRmdir = FALSE
  PROVE  Spec => []EntryAgreesWithParent
<1>1. NamesInv => EntryAgreesWithParent
  BY NamesInvGives
<1>2. Spec => []NamesInv
  BY NamesStayTogether
<1> QED  BY <1>1, <1>2, PTL

(* Only hard links can share a name with another entry of their directory.  *)
THEOREM SiblingsStayNamed ==
  ASSUME LinkTargets \subseteq {"FILE"}, BusyRmdir = FALSE
  PROVE  Spec => []SiblingNames
<1>1. NamesInv => SiblingNames
  BY NamesInvGives
<1>2. Spec => []NamesInv
  BY NamesStayTogether
<1> QED  BY <1>1, <1>2, PTL

(* The current directory is a directory, and the parents lead from it to   *)
(* the root, each naming the one below: what pwd prints is where the user is. *)
THEOREM CwdStaysNamed ==
  ASSUME LinkTargets \subseteq {"FILE"}, BusyRmdir = FALSE
  PROVE  Spec => []CwdIsNamed
<1>1. NamesInv => CwdIsNamed
  BY NamesInvCwd
<1>2. Spec => []NamesInv
  BY NamesStayTogether
<1> QED  BY <1>1, <1>2, PTL

(* A file always counts its links and its own entry, so that unlink frees   *)
(* it only after the last of them.                                          *)
THEOREM CountsStayCovered ==
  ASSUME LinkTargets \subseteq {"FILE"}, BusyRmdir = FALSE
  PROVE  Spec => []LinkCountCovers
<1>1. NamesInv => LinkCountCovers
  BY NamesInvCounts
<1>2. Spec => []NamesInv
  BY NamesStayTogether
<1> QED  BY <1>1, <1>2, PTL

(* An inode not in use has no name, and no hard link points at it. *)
FreeUnnamed ==
  \A i \in Inodes \ inode_bitmap : LinksTo(i) \cup ListedIn(i) = {}

LEMMA FreeIsUnnamed ==
  NamesInv => FreeUnnamed
<1> SUFFICES ASSUME NamesInv  PROVE FreeUnnamed
  OBVIOUS
<1>1. ListedAllocated /\ LinksAgree(inode, dirent, inode_bitmap)
  BY NamesInvGives DEF NamesInv, NamesHold
<1>2. \A i \in Inodes \ inode_bitmap : LinksTo(i) = {} /\ ListedIn(i) = {}
  BY <1>1 DEF LinksTo, LinksAgree, ListedIn, ListedAllocated
<1> QED  BY <1>2 DEF FreeUnnamed

(* An inode a command marks in use is one nothing names before it.          *)
THEOREM FreshStaysFresh ==
  ASSUME LinkTargets \subseteq {"FILE"}, BusyRmdir = FALSE
  PROVE  Spec => FreshInode
<1>1. NamesInv /\ NamesInv'
        => [\A i \in inode_bitmap' \ inode_bitmap :
              LinksTo(i) \cup ListedIn(i) = {} /\ i # current_dir]_vars
  <2> SUFFICES ASSUME NamesInv, NamesInv', NEW i \in inode_bitmap' \ inode_bitmap
               PROVE  LinksTo(i) \cup ListedIn(i) = {} /\ i # current_dir
    OBVIOUS
  <2>1. i \in Inodes /\ i # 0
    BY DEF NamesInv, TypeOK, NamesHold, NamesAgree
  <2>2. current_dir \in {0} \cup inode_bitmap
    BY NamesInvGives DEF TreeRooted
  <2> QED  BY <2>1, <2>2, FreeIsUnnamed DEF FreeUnnamed
<1>2. Spec => []NamesInv
  BY NamesStayTogether
<1> QED  BY <1>1, <1>2, PTL DEF FreshInode

(* A command takes blocks only from a file that it frees. *)
LEMMA LostWhenFreed ==
  ASSUME LinkTargets \subseteq {"FILE"}, BusyRmdir = FALSE, NamesInv, [Next]_vars,
         NEW i \in Inodes
  PROVE  inode[i].blocks \subseteq inode'[i].blocks \/ i \notin inode_bitmap'
<1> USE DEF Typed
<1>1. /\ TypeOK /\ BlocksExclusive /\ DataInFiles(inode, inode_bitmap)
      /\ LinksAgree(inode, dirent, inode_bitmap)
      /\ inode[i] \in InodeRec /\ inode_bitmap \in SUBSET Inodes
  BY DEF NamesInv, NamesHold, TypeOK
<1>2. ASSUME NEW ino \in [Inodes -> InodeRec], NEW d \in Inodes, NEW c \in Inodes,
             Exclusive(ino, block_bitmap), AddChild(ino, d, c),
             inode[i].blocks \subseteq ino[i].blocks
      PROVE  inode[i].blocks \subseteq inode'[i].blocks
  <2>1. inode'[i] = [ino[i] EXCEPT !.first_child_block = inode'[i].first_child_block]
    BY <1>1, <1>2, AddChildEnters, ExclusiveIsApart
  <2>2. ino[i] \in InodeRec
    OBVIOUS
  <2> QED  BY <1>2, <2>1, <2>2 DEF InodeRec
<1>3. ASSUME NEW id \in FreeInodes, NEW name \in Stored, NEW type \in NodeType,
             NEW dir \in Inodes, NEW count \in 0 .. LINK_MOD - 1, NEW link \in Path,
             NEW target \in Inodes
      PROVE  LET ino == NewInode(id, name, type, dir, count, link, target)
             IN  /\ ino \in [Inodes -> InodeRec] /\ Exclusive(ino, block_bitmap)
                 /\ inode[i].blocks \subseteq ino[i].blocks
  <2> DEFINE ino == NewInode(id, name, type, dir, count, link, target)
  <2>1. id \in Inodes /\ inode[id].blocks = {}
    BY <1>1 DEF FreeInodes, DataInFiles
  <2>2. /\ ino \in [Inodes -> InodeRec] /\ Exclusive(ino, block_bitmap)
        /\ \A j \in Inodes \ {id} : ino[j] = inode[j]
    BY <1>1, <2>1, NewInodeFields
  <2> HIDE DEF ino
  <2>3. inode[i].blocks \subseteq ino[i].blocks
    BY <2>1, <2>2
  <2> QED  BY <2>2, <2>3 DEF ino
<1>4. ASSUME NEW id \in FreeInodes
      PROVE  /\ inode[id].symlink_target \in Path /\ inode[id].target_inode \in Inodes
             /\ inode[id].link_count \in 0 .. LINK_MOD - 1 /\ id \in Inodes
             /\ 0 \in 0 .. LINK_MOD - 1 /\ 1 \in 0 .. LINK_MOD - 1
  BY <1>1, MfsAssumption DEF FreeInodes, TypeOK, InodeRec, MfsAssumption
<1>5. ASSUME NEW name \in Stored, NEW type \in {"FILE", "DIR"}, NEW dir \in Inodes,
             Create(name, type, dir)
      PROVE  inode[i].blocks \subseteq inode'[i].blocks
  <2> DEFINE count == IF type = "FILE" THEN 1 ELSE 0
  <2>1. PICK id \in FreeInodes :
          AddChild(NewInode(id, name, type, dir, count, inode[id].symlink_target,
                            inode[id].target_inode), dir, id)
    BY <1>5 DEF Create
  <2>2. /\ count \in 0 .. LINK_MOD - 1 /\ type \in NodeType /\ id \in Inodes
        /\ inode[id].symlink_target \in Path /\ inode[id].target_inode \in Inodes
    BY <1>4 DEF NodeType
  <2> HIDE DEF count
  <2> DEFINE ino == NewInode(id, name, type, dir, count, inode[id].symlink_target,
                             inode[id].target_inode)
  <2>3. /\ ino \in [Inodes -> InodeRec] /\ Exclusive(ino, block_bitmap)
        /\ inode[i].blocks \subseteq ino[i].blocks
    BY <1>3, <2>2
  <2> QED  BY <1>2, <2>1, <2>2, <2>3
<1>6. ASSUME NEW p \in Paths, CreateFile(p) \/ CreateDir(p)
      PROVE  inode[i].blocks \subseteq inode'[i].blocks
  <2>1. PICK dir \in At(DirPart(p)), type \in {"FILE", "DIR"} : Create(BasePart(p), type, dir)
    BY <1>6 DEF CreateFile, CreateDir
  <2> QED  BY <1>5, <2>1, StoredName DEF At
<1>7. ASSUME NEW t \in SymlinkTexts, NEW p \in Paths, CreateSymlink(t, p)
      PROVE  inode[i].blocks \subseteq inode'[i].blocks
  <2>1. PICK dir \in At(DirPart(p)), id \in FreeInodes :
          AddChild(NewInode(id, BasePart(p), "SYMLINK", dir, inode[id].link_count, t,
                            inode[id].target_inode), dir, id)
    BY <1>7 DEF CreateSymlink
  <2>2. /\ BasePart(p) \in Stored /\ "SYMLINK" \in NodeType /\ dir \in Inodes /\ id \in Inodes
        /\ t \in Path /\ inode[id].link_count \in 0 .. LINK_MOD - 1
        /\ inode[id].target_inode \in Inodes
    BY <1>4, StoredName, MfsAssumption DEF At, NodeType, MfsAssumption
  <2> DEFINE ino == NewInode(id, BasePart(p), "SYMLINK", dir, inode[id].link_count, t,
                             inode[id].target_inode)
  <2>3. /\ ino \in [Inodes -> InodeRec] /\ Exclusive(ino, block_bitmap)
        /\ inode[i].blocks \subseteq ino[i].blocks
    BY <1>3, <2>2
  <2> QED  BY <1>2, <2>1, <2>2, <2>3
<1>8. ASSUME NEW t \in Paths, NEW p \in Paths, CreateHardlink(t, p)
      PROVE  inode[i].blocks \subseteq inode'[i].blocks
  <2>1. PICK target \in At(t), dir \in At(DirPart(p)), id \in FreeInodes :
          LET ino == NewInode(id, BasePart(p), "HARDLINK", dir, inode[id].link_count,
                              inode[id].symlink_target, target)
              links == (ino[target].link_count + 1) % LINK_MOD
          IN  AddChild([ino EXCEPT ![target].link_count = links], dir, id)
    BY <1>8 DEF CreateHardlink
  <2>2. /\ BasePart(p) \in Stored /\ "HARDLINK" \in NodeType /\ dir \in Inodes /\ id \in Inodes
        /\ target \in Inodes /\ inode[id].link_count \in 0 .. LINK_MOD - 1
        /\ inode[id].symlink_target \in Path
    BY <1>4, StoredName DEF At, NodeType
  <2> DEFINE new == NewInode(id, BasePart(p), "HARDLINK", dir, inode[id].link_count,
                             inode[id].symlink_target, target)
             links == (new[target].link_count + 1) % LINK_MOD
             ino == [new EXCEPT ![target].link_count = links]
  <2>3. /\ new \in [Inodes -> InodeRec] /\ Exclusive(new, block_bitmap)
        /\ inode[i].blocks \subseteq new[i].blocks
    BY <1>3, <2>2
  <2>4. AddChild(ino, dir, id)
    BY <2>1
  <2> HIDE DEF new
  <2>5. links \in 0 .. LINK_MOD - 1
    BY <2>2, <2>3, MfsAssumption DEF MfsAssumption, InodeRec
  <2> HIDE DEF links
  <2>6. \A j \in Inodes : /\ new[j] \in InodeRec /\ ino[j] \in InodeRec
                          /\ ino[j].blocks = new[j].blocks /\ ino[j].far = new[j].far
                          /\ ino[j].first_child_block = new[j].first_child_block
    BY <2>2, <2>3, <2>5 DEF InodeRec
  <2>7. ino \in [Inodes -> InodeRec]
    BY <2>2, <2>3, <2>6
  <2> HIDE DEF ino
  <2>8. Exclusive(ino, block_bitmap) /\ inode[i].blocks \subseteq ino[i].blocks
    BY <2>3, <2>6, ExclusiveUnchanged
  <2> QED  BY <1>2, <2>2, <2>4, <2>7, <2>8
<1>9. ASSUME NEW p \in Paths, NEW n \in 1 .. MAX_WRITE, WriteFile(p, n)
      PROVE  inode[i].blocks \subseteq inode'[i].blocks
  <2>1. PICK real \in Inodes : WriteData(real, n)
    BY <1>9 DEF WriteFile
  <2>2. PICK direct, size, far :
          inode' = [inode EXCEPT ![real] =
                      [@ EXCEPT !.size = size, !.blocks = inode[real].blocks \cup direct,
                                !.far = far]]
    BY <2>1 DEF WriteData
  <2> QED  BY <1>1, <2>2 DEF TypeOK, InodeRec
<1>10. ASSUME NEW p \in Paths, RemoveFile(p)
       PROVE  inode[i].blocks \subseteq inode'[i].blocks \/ i \notin inode_bitmap'
  <2>1. PICK id \in Inodes : DropName(id) \/ DropFile(id) \/ DropSymlink(id)
    BY <1>10 DEF RemoveFile, At
  <2>2. CASE DropName(id)
    BY <1>1, <2>2 DEF DropName, TypeOK, InodeRec
  <2>3. CASE DropFile(id)
    BY <1>1, <2>3 DEF DropFile, TypeOK, InodeRec
  <2>4. CASE DropSymlink(id)
    BY <2>4 DEF DropSymlink
  <2> QED  BY <2>1, <2>2, <2>3, <2>4
<1>11. ASSUME NEW p \in Paths, RemoveDir(p)
       PROVE  inode[i].blocks \subseteq inode'[i].blocks
  <2>1. PICK id \in Inodes :
          /\ inode[id].type = "DIR"
          /\ inode' = [inode EXCEPT ![id] =
                         [@ EXCEPT !.type = "FILE", !.size = 0, !.blocks = {},
                                   !.first_child_block = NONE]]
    BY <1>11 DEF RemoveDir, At
  <2>2. inode[id].blocks = {}
    BY <1>1, <2>1 DEF DataInFiles
  <2> QED  BY <1>1, <2>1, <2>2 DEF TypeOK, InodeRec
<1>12. ASSUME NEW p \in Paths, Unlink(p)
       PROVE  inode[i].blocks \subseteq inode'[i].blocks \/ i \notin inode_bitmap'
  <2>1. PICK id, target, count :
          \/ inode' = [inode EXCEPT ![target].link_count = count]
          \/ /\ inode' = [inode EXCEPT ![target] =
                            [@ EXCEPT !.link_count = 0, !.blocks = {}]]
             /\ inode_bitmap' = inode_bitmap \ {id, target}
    BY <1>12 DEF Unlink, At
  <2> QED  BY <1>1, <2>1 DEF TypeOK, InodeRec
<1>13. ASSUME (\E p \in Paths : ChangeDir(p)) \/ UNCHANGED vars
       PROVE  inode[i].blocks \subseteq inode'[i].blocks
  BY <1>13 DEF ChangeDir, vars
<1> QED  BY <1>6, <1>7, <1>8, <1>9, <1>10, <1>11, <1>12, <1>13 DEF Next

(* A command takes data only from a file that nothing names after it.       *)
THEOREM DataStaysKept ==
  ASSUME LinkTargets \subseteq {"FILE"}, BusyRmdir = FALSE
  PROVE  Spec => DataKept
<1>1. NamesInv' => FreeUnnamed'
  BY FreeIsUnnamed, PTL
<1>2. NamesInv /\ NamesInv' /\ [Next]_vars
        => [\A i \in Inodes :
              inode[i].blocks \ inode'[i].blocks # {} => LinksTo(i)' \cup ListedIn(i)' = {}]_vars
  <2> SUFFICES ASSUME NamesInv, NamesInv', [Next]_vars, NEW i \in Inodes,
                      inode[i].blocks \ inode'[i].blocks # {}
               PROVE  LinksTo(i)' \cup ListedIn(i)' = {}
    OBVIOUS
  <2>1. i \notin inode_bitmap'
    BY LostWhenFreed
  <2> QED  BY <1>1, <2>1 DEF FreeUnnamed
<1>3. Spec => []NamesInv
  BY NamesStayTogether
<1> QED  BY <1>2, <1>3, PTL DEF DataKept, Spec
=============================================================================

-------------------------------- MODULE Mfs --------------------------------
(***************************************************************************)
(* The name space and the allocators of one mounted MFS instance (fs.c):   *)
(* inodes, directory blocks, the two bitmaps and the current directory,    *)
(* with one action per file-system call of the shell.  A command runs to   *)
(* its end inside the timer interrupt with interrupts masked, so a whole   *)
(* call is one step.                                                       *)
(*                                                                         *)
(* The inode table is the one the calls see: the cache of fs_instance_t    *)
(* kept coherent with the disk.  InodeCache.tla models the cache itself,   *)
(* and when it is not coherent.                                            *)
(*                                                                         *)
(* X_Fault is X with the named fault of coding: no specification uses it;  *)
(* put in the place of X it makes one of the properties fail.              *)
(***************************************************************************)
EXTENDS Integers, Sequences, FiniteSets

CONSTANTS
  MAX_INODES,           \* inodes of the instance, the root being inode 0
  TOTAL_BLOCKS,         \* data blocks
  DIR_SLOTS,            \* entries of a directory block (128 in the code)
  MAX_BLOCKS_PER_FILE,  \* direct blocks of a file (12)
  INDIRECT_SLOTS,       \* blocks an indirect block lists (128)
  LINK_MOD,             \* link_count is modulo LINK_MOD (2^32)
  MAX_LINK_DEPTH,       \* deepest symlink resolve_symlink follows (10)
  MAX_FOLLOW,           \* bound: nested symlinks find_inode follows (none in the code)
  MAX_WRITE,            \* bound: longest text written, in blocks
  Commands,             \* commands the user gives
  Names,                \* what the user may call a file or directory
  Paths,                \* paths the user may type
  SymlinkTexts,         \* targets the user gives to symlink
  LinkTargets,          \* types of the inodes the user makes hard links to
  BusyRmdir             \* TRUE: the user may rmdir the current directory or "/"

NONE == -1              \* (uint32_t)-1, the empty pointer, and "not found"

Inodes == 0 .. MAX_INODES - 1
Blocks == 0 .. TOTAL_BLOCKS - 1
Slots  == 0 .. DIR_SLOTS - 1
NodeType == {"FILE", "DIR", "SYMLINK", "HARDLINK"}

(* A name as it may be stored: split_path cuts the last component, whatever *)
(* it is, so "." and ".." can be created too, and "" by a trailing slash.   *)
Stored == Names \cup {"/", "", ".", ".."}

(* A path: absolute or not, and its components. *)
Path == [abs : BOOLEAN, toks : Seq(Stored)]
NoTarget == [abs |-> FALSE, toks |-> <<>>]

ASSUME MfsAssumption ==
  /\ MAX_INODES \in Nat \ {0}  /\ TOTAL_BLOCKS \in Nat
  /\ DIR_SLOTS \in Nat \ {0}   /\ MAX_BLOCKS_PER_FILE \in Nat
  /\ INDIRECT_SLOTS \in Nat    /\ LINK_MOD \in Nat  /\ MAX_INODES < LINK_MOD
  /\ MAX_LINK_DEPTH \in Nat    /\ MAX_FOLLOW \in Nat  /\ MAX_WRITE \in Nat
  /\ Paths \subseteq Path  /\ SymlinkTexts \subseteq Path
  /\ LinkTargets \subseteq NodeType \ {"DIR"}
  /\ BusyRmdir \in BOOLEAN

VARIABLES
  inode,          \* inode_cache: the inode table
  dirent,         \* entries of each block, when it is a directory block
  inode_bitmap,   \* inodes marked in use
  block_bitmap,   \* blocks marked in use
  current_dir     \* inode of the current directory

vars == <<inode, dirent, inode_bitmap, block_bitmap, current_dir>>

(* blocks: the direct blocks; far: the indirect block and those it lists;   *)
(* size: the size in blocks.                                                *)
InodeRec ==
  [name : Stored, type : NodeType, size : Nat, parent : Inodes,
   first_child_block : Blocks \cup {NONE},
   blocks : SUBSET Blocks, far : SUBSET Blocks,
   symlink_target : Path, link_count : 0 .. LINK_MOD - 1,
   target_inode : Inodes]

Least(S) == CHOOSE m \in S : \A k \in S : m <= k
Lowest(n, S) == {m \in S : Cardinality({k \in S : k < m}) < n}
Larger(a, b) == IF a < b THEN b ELSE a

-----------------------------------------------------------------------------
(* Directories and paths                                                    *)

(* Slots of directory block b in use, in the table ino. *)
Used(ino, d) ==
  IF ino[d].first_child_block = NONE THEN {}
  ELSE {s \in Slots : dirent[ino[d].first_child_block][s] # NONE}

Entry(d, s) == dirent[inode[d].first_child_block][s]

(* get_children: the entries of d, none when d is not a directory. *)
Children(d) == IF inode[d].type = "DIR" THEN Used(inode, d) ELSE {}

(* The first child of d with this name, NONE when there is none. *)
Lookup(d, name) ==
  LET hits == {s \in Children(d) : inode[Entry(d, s)].name = name}
  IN  IF hits = {} THEN NONE ELSE Entry(d, Least(hits))

Start(p) == IF p.abs THEN 0 ELSE current_dir

(* One step of find_inode from inode cur, n more nested links allowed: "."   *)
(* and ".." are taken by name, a symlink is followed unless it is the last  *)
(* component, its relative target from the CURRENT directory.               *)
WalkOn(walk, n, cur, toks) ==
  IF toks = <<>> \/ Head(toks) = "" THEN cur
  ELSE IF Head(toks) = "." THEN walk[<<n, cur, Tail(toks)>>]
  ELSE IF Head(toks) = ".." THEN walk[<<n, inode[cur].parent, Tail(toks)>>]
  ELSE LET found == Lookup(cur, Head(toks)) IN
       IF found = NONE THEN NONE
       ELSE IF Len(toks) = 1 \/ inode[found].type # "SYMLINK"
       THEN walk[<<n, found, Tail(toks)>>]
       ELSE LET target   == inode[found].symlink_target
                resolved == IF n = 0 THEN NONE
                            ELSE walk[<<n - 1, Start(target), target.toks>>]
            IN  IF resolved = NONE THEN NONE
                ELSE IF inode[resolved].type # "DIR" THEN NONE
                ELSE walk[<<n, resolved, Tail(toks)>>]

(* find_inode.  More than MAX_FOLLOW nested links count as not found: the   *)
(* code recurses without a limit.                                           *)
Walks == (0 .. MAX_FOLLOW) \X Inodes \X Seq(Stored)
Find(p) ==
  LET walk[x \in Walks] == WalkOn(walk, x[1], x[2], x[3])
  IN  walk[<<MAX_FOLLOW, Start(p), p.toks>>]

(* The inode at a path, none when there is none. *)
At(p) == Inodes \cap {Find(p)}

(* split_path *)
DirPart(p)  == [p EXCEPT !.toks = SubSeq(@, 1, Len(@) - 1)]
BasePart(p) == IF p.toks = <<>> THEN "" ELSE p.toks[Len(p.toks)]

(* get_pwd_string: names from the root down to inode i, by parent pointers. *)
Climbs == (0 .. MAX_INODES) \X Inodes
Pwd(i) ==
  LET up[x \in Climbs] ==
        IF x[2] = 0 \/ x[1] = 0 THEN <<>>
        ELSE Append(up[<<x[1] - 1, inode[x[2]].parent>>], inode[x[2]].name)
  IN  up[<<MAX_INODES, i>>]

(* The path a symlink stands for when it is the last component: a relative  *)
(* target is put after the path of the link's directory, and that path gets *)
(* its leading "/" only in the root.                                        *)
LinkPath(i) ==
  LET target == inode[i].symlink_target
      dir    == inode[i].parent
  IN  IF target.abs THEN target
      ELSE [abs |-> dir = 0, toks |-> Pwd(dir) \o target.toks]

(* resolve_symlink: follows up to MAX_LINK_DEPTH + 1 links, then one hard   *)
(* link.                                                                    *)
FollowOn(follow, depth, j) ==
  IF j = NONE \/ depth > MAX_LINK_DEPTH THEN NONE
  ELSE CASE inode[j].type = "SYMLINK"  -> follow[<<depth + 1, Find(LinkPath(j))>>]
         [] inode[j].type = "HARDLINK" -> inode[j].target_inode
         [] OTHER -> j

Follows == (0 .. MAX_LINK_DEPTH + 1) \X (Inodes \cup {NONE})
Resolve(i) ==
  LET follow[x \in Follows] == FollowOn(follow, x[1], x[2])
  IN  follow[<<0, i>>]

(* resolve_symlink_target: one link only. *)
ResolveOnce(i) == IF inode[i].type = "SYMLINK" THEN Find(LinkPath(i)) ELSE i

-----------------------------------------------------------------------------
(* Allocation and directory entries                                         *)

FreeInodes == Inodes \ (inode_bitmap \cup {0})
FreeBlocks == Blocks \ block_bitmap

AddChild_BlockNotMarked(ino, d, c) ==
  /\ dirent' = [dirent EXCEPT ![Least(FreeBlocks)] = [s \in Slots |-> IF s = 0 THEN c ELSE NONE]]
  /\ inode' = [ino EXCEPT ![d].first_child_block = Least(FreeBlocks)]
  /\ UNCHANGED block_bitmap

(* dir_add_child: enter c in directory d.  Nobody looks at its result: when *)
(* no block or no slot is left, c stays out of the directory.               *)
AddChild(ino, d, c) ==
  LET blk == ino[d].first_child_block IN
  \/ /\ blk = NONE
     /\ \E b \in FreeBlocks :
          /\ b = Least(FreeBlocks)
          /\ inode' = [ino EXCEPT ![d].first_child_block = b]
          /\ dirent' = [dirent EXCEPT ![b] = [s \in Slots |-> IF s = 0 THEN c ELSE NONE]]
          /\ block_bitmap' = block_bitmap \cup {b}
  \/ /\ blk # NONE
     /\ \E s \in Slots \ Used(ino, d) :
          /\ \A k \in Slots \ Used(ino, d) : s <= k
          /\ dirent' = [dirent EXCEPT ![blk][s] = c]
     /\ inode' = ino
     /\ UNCHANGED block_bitmap
  \/ /\ IF blk = NONE THEN FreeBlocks = {} ELSE Used(ino, d) = Slots
     /\ inode' = ino
     /\ UNCHANGED <<dirent, block_bitmap>>

(* dir_remove_child: clear the first entry of d that holds c. *)
Without(d, c) ==
  LET hits == {s \in Used(inode, d) : Entry(d, s) = c}
  IN  IF hits = {} THEN dirent
      ELSE [dirent EXCEPT ![inode[d].first_child_block][Least(hits)] = NONE]

NewInode_ParentIsCwd(id, name, type, dir, count, link, target) ==
  [inode EXCEPT ![id] =
     [name |-> name, type |-> type, size |-> 0, parent |-> current_dir,
      first_child_block |-> NONE, blocks |-> {}, far |-> {},
      symlink_target |-> link, link_count |-> count, target_inode |-> target]]

(* The fields create_inode, fs_create_symlink and fs_create_hardlink give a *)
(* new inode; the caller passes what the cache held for those it does not   *)
(* assign.                                                                  *)
NewInode(id, name, type, dir, count, link, target) ==
  [inode EXCEPT ![id] =
     [name |-> name, type |-> type, size |-> 0, parent |-> dir,
      first_child_block |-> NONE, blocks |-> {}, far |-> {},
      symlink_target |-> link, link_count |-> count, target_inode |-> target]]

Create_Uncounted(name, type, dir) ==
  \E id \in FreeInodes :
    /\ id = Least(FreeInodes)
    /\ inode_bitmap' = inode_bitmap \cup {id}
    /\ AddChild(NewInode(id, name, type, dir, 0, inode[id].symlink_target,
                         inode[id].target_inode), dir, id)
    /\ UNCHANGED current_dir

(* create_inode: take the first free inode, fill it in, enter it.           *)
Create(name, type, dir) ==
  \E id \in FreeInodes :
    /\ id = Least(FreeInodes)
    /\ inode_bitmap' = inode_bitmap \cup {id}
    /\ AddChild(NewInode(id, name, type, dir, IF type = "FILE" THEN 1 ELSE 0,
                         inode[id].symlink_target, inode[id].target_inode),
                dir, id)
    /\ UNCHANGED current_dir

-----------------------------------------------------------------------------
(* The calls of the shell                                                   *)

Init ==
  (* A freshly formatted instance.  An inode not yet used has the fields     *)
  (* create_inode gives it; what the sector holds (zeros) is never read.     *)
  /\ inode = [i \in Inodes |->
                [name |-> IF i = 0 THEN "/" ELSE "",
                 type |-> IF i = 0 THEN "DIR" ELSE "FILE",
                 size |-> 0, parent |-> 0, first_child_block |-> NONE,
                 blocks |-> {}, far |-> {}, symlink_target |-> NoTarget,
                 link_count |-> 0, target_inode |-> 0]]
  /\ dirent = [b \in Blocks |-> [s \in Slots |-> NONE]]
  /\ inode_bitmap = {}
  /\ block_bitmap = {}
  /\ current_dir = 0

CreateFile_NameNotLookedUp(p) ==
  \E dir \in At(DirPart(p)) :
    Create(BasePart(p), "FILE", dir)

(* fs_create_file: the parent need not be a directory. *)
CreateFile(p) ==
  \E dir \in At(DirPart(p)) :
    /\ Lookup(dir, BasePart(p)) = NONE
    /\ Create(BasePart(p), "FILE", dir)

(* fs_create_dir *)
CreateDir(p) ==
  \E dir \in At(DirPart(p)) :
    /\ inode[dir].type = "DIR"
    /\ Lookup(dir, BasePart(p)) = NONE
    /\ Create(BasePart(p), "DIR", dir)

(* fs_create_symlink: the target must be found now, a relative one from the *)
(* path of the current directory; it is stored as typed.  link_count keeps  *)
(* what the inode held before.                                              *)
CreateSymlink(t, p) ==
  /\ Find(IF t.abs THEN t ELSE [abs |-> TRUE, toks |-> Pwd(current_dir) \o t.toks]) # NONE
  /\ \E dir \in At(DirPart(p)), id \in FreeInodes :
       /\ Lookup(dir, BasePart(p)) = NONE
       /\ id = Least(FreeInodes)
       /\ inode_bitmap' = inode_bitmap \cup {id}
       /\ AddChild(NewInode(id, BasePart(p), "SYMLINK", dir, inode[id].link_count,
                            t, inode[id].target_inode), dir, id)
  /\ UNCHANGED current_dir

CreateHardlink_TargetNotChecked(t, p) ==
  \E dir \in At(DirPart(p)), id \in FreeInodes :
    /\ id = Least(FreeInodes)
    /\ inode_bitmap' = inode_bitmap \cup {id}
    /\ AddChild(NewInode(id, BasePart(p), "HARDLINK", dir, inode[id].link_count,
                         inode[id].symlink_target, Find(t)), dir, id)
    /\ UNCHANGED current_dir

CreateHardlink_NotCounted(t, p) ==
  \E target \in At(t), dir \in At(DirPart(p)), id \in FreeInodes :
    /\ inode[target].type \in LinkTargets
    /\ id = Least(FreeInodes)
    /\ inode_bitmap' = inode_bitmap \cup {id}
    /\ AddChild(NewInode(id, BasePart(p), "HARDLINK", dir, inode[id].link_count,
                         inode[id].symlink_target, target), dir, id)
    /\ UNCHANGED current_dir

(* fs_create_hardlink: a new inode of type HARDLINK that points at the      *)
(* target.  The name is not looked up first, the parent need not be a       *)
(* directory, and anything but a directory can be the target.               *)
CreateHardlink(t, p) ==
  \E target \in At(t), dir \in At(DirPart(p)), id \in FreeInodes :
    /\ inode[target].type \in LinkTargets
    /\ id = Least(FreeInodes)
    /\ inode_bitmap' = inode_bitmap \cup {id}
    /\ LET ino == NewInode(id, BasePart(p), "HARDLINK", dir, inode[id].link_count,
                           inode[id].symlink_target, target)
           links == (ino[target].link_count + 1) % LINK_MOD
       IN  AddChild([ino EXCEPT ![target].link_count = links], dir, id)
    /\ UNCHANGED current_dir

(* write_file_data at offset 0: size grows to n at once; missing blocks are *)
(* taken in order, direct ones first, then the indirect block and those it  *)
(* lists, until none is free or the file has all it can have.               *)
WriteData(i, n) ==
  LET limit  == MAX_BLOCKS_PER_FILE + INDIRECT_SLOTS
      last   == IF n < limit THEN n ELSE limit
      near   == (IF last < MAX_BLOCKS_PER_FILE THEN last ELSE MAX_BLOCKS_PER_FILE)
                  - Cardinality(inode[i].blocks)
      beyond == IF last <= MAX_BLOCKS_PER_FILE THEN 0
                ELSE 1 + last - MAX_BLOCKS_PER_FILE - Cardinality(inode[i].far)
      got    == Lowest(Larger(near, 0) + Larger(beyond, 0), FreeBlocks)
      direct == Lowest(near, got)
  IN  /\ inode' = [inode EXCEPT ![i] =
                     [@ EXCEPT !.size = Larger(inode[i].size, n),
                               !.blocks = inode[i].blocks \cup direct,
                               !.far = inode[i].far \cup (got \ direct)]]
      /\ block_bitmap' = block_bitmap \cup got

(* vfs_write *)
WriteFile(p, n) ==
  \E id \in At(p) : \E real \in Inodes \cap {Resolve(id)} :
    /\ inode[real].type = "FILE"
    /\ WriteData(real, n)
    /\ UNCHANGED <<dirent, inode_bitmap, current_dir>>

DropName_FreesData(id) ==
  /\ inode[id].type = "FILE"
  /\ inode[id].link_count > 0
  /\ dirent' = Without(inode[id].parent, id)
  /\ inode' = [inode EXCEPT ![id] = [@ EXCEPT !.link_count = inode[id].link_count - 1, !.blocks = {}]]
  /\ block_bitmap' = block_bitmap \ inode[id].blocks
  /\ UNCHANGED inode_bitmap

(* fs_remove_file of a file that still counts a link: the entry goes, the   *)
(* count goes down, the inode and its blocks stay.                          *)
DropName(id) ==
  /\ inode[id].type = "FILE"
  /\ inode[id].link_count > 0
  /\ dirent' = Without(inode[id].parent, id)
  /\ inode' = [inode EXCEPT ![id].link_count = inode[id].link_count - 1]
  /\ UNCHANGED <<inode_bitmap, block_bitmap>>

(* fs_remove_file of a file that counts none: its direct blocks are freed.  *)
DropFile(id) ==
  /\ inode[id].type = "FILE"
  /\ inode[id].link_count = 0
  /\ dirent' = Without(inode[id].parent, id)
  /\ block_bitmap' = block_bitmap \ inode[id].blocks
  /\ inode' = [inode EXCEPT ![id].blocks = {}]
  /\ inode_bitmap' = inode_bitmap \ {id}

(* fs_remove_file of a symbolic link *)
DropSymlink(id) ==
  /\ inode[id].type = "SYMLINK"
  /\ dirent' = Without(inode[id].parent, id)
  /\ inode_bitmap' = inode_bitmap \ {id}
  /\ UNCHANGED <<inode, block_bitmap>>

RemoveFile(p) ==
  \E id \in At(p) :
    /\ DropName(id) \/ DropFile(id) \/ DropSymlink(id)
    /\ UNCHANGED current_dir

RemoveDir_NotEmpty(p) ==
  \E id \in At(p) \ {0, current_dir} :
    /\ inode[id].type = "DIR"
    /\ dirent' = Without(inode[id].parent, id)
    /\ inode' = [inode EXCEPT ![id] =
                   [@ EXCEPT !.type = "FILE", !.size = 0, !.blocks = {},
                             !.first_child_block = NONE]]
    /\ UNCHANGED <<inode_bitmap, block_bitmap, current_dir>>

(* fs_remove_dir: the inode becomes a FILE of size 0 but stays marked, its  *)
(* entry block too.                                                         *)
RemoveDir(p) ==
  \E id \in At(p) :
    /\ inode[id].type = "DIR"
    /\ Children(id) = {}
    /\ BusyRmdir \/ id \notin {0, current_dir}
    /\ dirent' = Without(inode[id].parent, id)
    /\ inode' = [inode EXCEPT ![id] =
                   [@ EXCEPT !.type = "FILE", !.size = 0, !.blocks = {},
                             !.first_child_block = NONE]]
    /\ UNCHANGED <<inode_bitmap, block_bitmap, current_dir>>

Unlink_TargetAlwaysFreed(p) ==
  \E id \in At(p) :
    LET target == inode[id].target_inode
    IN
    /\ inode[id].type = "HARDLINK"
    /\ dirent' = Without(inode[id].parent, id)
    /\ inode' = [inode EXCEPT ![target].blocks = {}]
    /\ inode_bitmap' = inode_bitmap \ {id, target}
    /\ block_bitmap' = block_bitmap \ inode[target].blocks
    /\ UNCHANGED current_dir

(* fs_delete_hardlink: the link's inode is freed, and its target with its   *)
(* direct blocks when no link is counted any more.                          *)
Unlink(p) ==
  \E id \in At(p) :
    LET target == inode[id].target_inode
        count  == (inode[target].link_count - 1) % LINK_MOD
    IN
    /\ inode[id].type = "HARDLINK"
    /\ dirent' = Without(inode[id].parent, id)
    /\ \/ /\ count # 0
          /\ inode' = [inode EXCEPT ![target].link_count = count]
          /\ inode_bitmap' = inode_bitmap \ {id}
          /\ UNCHANGED block_bitmap
       \/ /\ count = 0
          /\ inode' = [inode EXCEPT ![target] =
                         [@ EXCEPT !.link_count = 0, !.blocks = {}]]
          /\ inode_bitmap' = inode_bitmap \ {id, target}
          /\ block_bitmap' = block_bitmap \ inode[target].blocks
    /\ UNCHANGED current_dir

(* vfs_cd: ".." goes by the parent pointer, "/" and the empty path to the   *)
(* root, any other path is found and a final symlink followed once.         *)
ChangeDir(p) ==
  \E dir \in Inodes :
    /\ CASE p = [abs |-> FALSE, toks |-> <<"..">>] ->
              dir = inode[current_dir].parent /\ current_dir # 0
         [] p.toks = <<>> -> dir = 0
         [] OTHER ->
              /\ Find(p) # NONE
              /\ dir = ResolveOnce(Find(p))
              /\ inode[dir].type = "DIR"
    /\ current_dir' = dir
    /\ UNCHANGED <<inode, dirent, inode_bitmap, block_bitmap>>

(* The paths of a command, none for one the user does not give. *)
Typed(command, given) == IF command \in Commands THEN given ELSE {}

Next ==
  \/ \E p \in Typed("new", Paths) : CreateFile(p)
  \/ \E p \in Typed("newdir", Paths) : CreateDir(p)
  \/ \E t \in Typed("symlink", SymlinkTexts), p \in Paths : CreateSymlink(t, p)
  \/ \E t \in Typed("hlink", Paths), p \in Paths : CreateHardlink(t, p)
  \/ \E p \in Typed("write", Paths), n \in 1 .. MAX_WRITE : WriteFile(p, n)
  \/ \E p \in Typed("rm", Paths) : RemoveFile(p)
  \/ \E p \in Typed("rmdir", Paths) : RemoveDir(p)
  \/ \E p \in Typed("unlink", Paths) : Unlink(p)
  \/ \E p \in Typed("cd", Paths) : ChangeDir(p)

Spec == Init /\ [][Next]_vars

-----------------------------------------------------------------------------
(* Properties                                                               *)

TypeOK ==
  /\ inode \in [Inodes -> InodeRec]
  /\ dirent \in [Blocks -> [Slots -> Inodes \cup {NONE}]]
  /\ inode_bitmap \subseteq Inodes
  /\ block_bitmap \subseteq Blocks
  /\ current_dir \in Inodes

(* The directories that name inode i. *)
ListedIn(i) ==
  {d \in Inodes : \E s \in Children(d) : Entry(d, s) = i}

(* The hard links to inode i. *)
LinksTo(i) ==
  {h \in inode_bitmap : inode[h].type = "HARDLINK" /\ inode[h].target_inode = i}

(* Blocks inode i reaches. *)
Owned(i) ==
  inode[i].blocks \cup inode[i].far
    \cup ({inode[i].first_child_block} \ {NONE})

(* A directory lists only inodes marked in use: alloc_inode cannot hand out  *)
(* one that still has a name.                                                *)
ListedAllocated ==
  \A d \in Inodes : \A s \in Children(d) : Entry(d, s) \in inode_bitmap

(* A directory lists an inode once, and that inode's parent field is the     *)
(* directory: rm, rmdir and unlink look for the entry to clear in the        *)
(* parent, so any other entry would outlive its inode.                       *)
EntryAgreesWithParent ==
  \A d \in Inodes : \A s \in Children(d) :
    /\ inode[Entry(d, s)].parent = d
    /\ \A k \in Children(d) : Entry(d, k) = Entry(d, s) => k = s

(* Two entries of a directory have one name only when a hard link is one of  *)
(* the two: hlink is the only command that does not look the name up first.  *)
SiblingNames ==
  \A d \in Inodes : \A s, k \in Children(d) :
    /\ s # k
    /\ inode[Entry(d, s)].name = inode[Entry(d, k)].name
    => "HARDLINK" \in {inode[Entry(d, s)].type, inode[Entry(d, k)].type}

(* No block serves two inodes, or one inode as directory block and as data,  *)
(* and alloc_block cannot hand out a block in use.                           *)
BlocksExclusive ==
  \A i \in Inodes :
    /\ Owned(i) \subseteq block_bitmap
    /\ \A j \in Inodes \ {i} : Owned(i) \cap Owned(j) = {}
    /\ inode[i].blocks \cap inode[i].far = {}
    /\ inode[i].first_child_block \notin inode[i].blocks \cup inode[i].far

(* A hard link points at a file in use, and the file counts all its links    *)
(* and its own entry: the count reaches 0 in unlink only when nothing names  *)
(* the file any more.                                                        *)
LinkCountCovers ==
  /\ \A h \in inode_bitmap :
       inode[h].type = "HARDLINK" =>
         /\ inode[h].target_inode \in inode_bitmap
         /\ inode[inode[h].target_inode].type = "FILE"
  /\ \A i \in inode_bitmap :
       inode[i].type = "FILE" =>
         inode[i].link_count >= Cardinality(LinksTo(i)) + Cardinality(ListedIn(i))

(* The current directory is a directory, and from it up each directory is an *)
(* entry of the one above until the root: what pwd prints is where the user  *)
(* is.                                                                       *)
CwdIsNamed ==
  LET up[x \in Climbs] ==
        \/ x[2] = 0
        \/ /\ x[1] > 0
           /\ inode[x[2]].parent \in ListedIn(x[2])
           /\ up[<<x[1] - 1, inode[x[2]].parent>>]
  IN  inode[current_dir].type = "DIR" /\ up[<<MAX_INODES, current_dir>>]

(* A command takes blocks of data from a file only when neither a directory  *)
(* nor a hard link names the file after it.                                  *)
DataKept ==
  [][\A i \in Inodes :
       inode[i].blocks \ inode'[i].blocks # {} => LinksTo(i)' \cup ListedIn(i)' = {}]_vars

(* A command that marks an inode in use takes one that no directory lists,   *)
(* no hard link points at and that is not the current directory.             *)
FreshInode ==
  [][\A i \in inode_bitmap' \ inode_bitmap :
       LinksTo(i) \cup ListedIn(i) = {} /\ i # current_dir]_vars
=============================================================================

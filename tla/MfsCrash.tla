------------------------------ MODULE MfsCrash ------------------------------
(***************************************************************************)
(* What a power cut leaves of an MFS instance.  A call of Mfs changes the   *)
(* memory of the instance at once and then the disk, one sector at a time   *)
(* and in the order of the code; the power may go between any two writes,   *)
(* and fs_mount then reads the instance back from the disk.  Transfer.tla   *)
(* puts the steps of this module together.                                  *)
(*                                                                         *)
(* Files have direct blocks only.  The sectors of file data are left out:   *)
(* no property looks at them.  save_bitmap writes one sector too many, the  *)
(* inode bitmap as memory has it: alloc_inode and free_inode have saved     *)
(* that already, and the model leaves the second write out.                 *)
(***************************************************************************)
EXTENDS Mfs

CONSTANTS
  MAX_RESTARTS,     \* bound: power cuts in a behaviour
  UnlinkCut         \* TRUE: the power may go in the middle of an unlink

ASSUME CrashAssumption ==
  INDIRECT_SLOTS = 0 /\ MAX_RESTARTS \in Nat /\ UnlinkCut \in BOOLEAN

VARIABLES
  disk,       \* the sectors: inodes, directory blocks and the two bitmaps
  pending,    \* the writes the command in hand still has to make
  dirty,      \* inode_cache_dirty: inodes changed in memory and not saved
  unlinking,  \* the command in hand is an unlink
  restarts

crashVars == <<vars, disk, pending, dirty, unlinking, restarts>>

(* The same file system as the disk has it, in the root.                    *)
OnDisk == INSTANCE Mfs WITH
  inode <- disk.inode, dirent <- disk.dirent, inode_bitmap <- disk.inode_bitmap,
  block_bitmap <- disk.block_bitmap, current_dir <- 0

-----------------------------------------------------------------------------
(* Sectors                                                                  *)

InodeSector(i, record) == [of |-> "inode", at |-> i, record |-> record]
DirSector(b)           == [of |-> "dirent", at |-> b, entries |-> dirent'[b]]
InodeBitmap(marked)    == [of |-> "inode_bitmap", inodes |-> marked]
BlockBitmap(marked)    == [of |-> "block_bitmap", blocks |-> marked]

(* What dev_write of a sector makes of the disk. *)
Written(w) ==
  CASE w.of = "inode"        -> [disk EXCEPT !.inode[w.at] = w.record]
    [] w.of = "dirent"       -> [disk EXCEPT !.dirent[w.at] = w.entries]
    [] w.of = "inode_bitmap" -> [disk EXCEPT !.inode_bitmap = w.inodes]
    [] w.of = "block_bitmap" -> [disk EXCEPT !.block_bitmap = w.blocks]

-----------------------------------------------------------------------------
(* The writes of each call, in order, from the memory before and after it   *)

(* alloc_block and free_block save the bitmap for each block. *)
Allocations(taken) ==
  [k \in 1 .. Cardinality(taken) |-> BlockBitmap(block_bitmap \cup Lowest(k, taken))]

Releases(freed) ==
  [k \in 1 .. Cardinality(freed) |-> BlockBitmap(block_bitmap \ Lowest(k, freed))]

(* dir_add_child in directory d: nothing when it found no block or no slot. *)
EntryAdded(d) ==
  IF dirent' = dirent /\ block_bitmap' = block_bitmap THEN <<>>
  ELSE Allocations(block_bitmap' \ block_bitmap)
         \o <<DirSector(inode'[d].first_child_block), InodeSector(d, inode'[d])>>

(* dir_remove_child: a directory without a block is not written. *)
EntryRemoved(d) ==
  IF inode[d].first_child_block = NONE THEN <<>>
  ELSE <<DirSector(inode[d].first_child_block)>>

MadeWrites_EntryFirst ==
  LET id == Least(FreeInodes)
  IN  <<InodeBitmap(inode_bitmap')>> \o EntryAdded(inode'[id].parent) \o <<InodeSector(id, inode'[id])>>

MadeWrites_BitmapLast ==
  LET id == Least(FreeInodes)
  IN  <<InodeSector(id, inode'[id])>> \o EntryAdded(inode'[id].parent) \o <<InodeBitmap(inode_bitmap')>>

(* create_inode and fs_create_symlink *)
MadeWrites ==
  LET id == Least(FreeInodes)
  IN  <<InodeBitmap(inode_bitmap'), InodeSector(id, inode'[id])>>
        \o EntryAdded(inode'[id].parent)

LinkWrites_CountLast ==
  LET id     == Least(FreeInodes)
      target == inode'[id].target_inode
  IN  <<InodeBitmap(inode_bitmap'), InodeSector(id, inode'[id])>>
        \o EntryAdded(inode'[id].parent) \o <<InodeSector(target, inode'[target])>>

(* fs_create_hardlink: the count is on the disk before the link.  The target *)
(* may be the link's parent too, and gets its directory block only later.    *)
LinkWrites ==
  LET id     == Least(FreeInodes)
      target == inode'[id].target_inode
  IN  <<InodeBitmap(inode_bitmap'),
        InodeSector(target, [inode'[target] EXCEPT
                               !.first_child_block = inode[target].first_child_block]),
        InodeSector(id, inode'[id])>>
        \o EntryAdded(inode'[id].parent)

(* write_file_data returns early, the inode not saved, when it found no      *)
(* block for some part of the text.                                          *)
Complete(i, n) ==
  Cardinality(inode'[i].blocks) >=
    (IF n < MAX_BLOCKS_PER_FILE THEN n ELSE MAX_BLOCKS_PER_FILE)

DataWrites_InodeFirst(i, n) ==
  (IF Complete(i, n) THEN <<InodeSector(i, inode'[i])>> ELSE <<>>)
    \o Allocations(block_bitmap' \ block_bitmap)

DataWrites(i, n) ==
  Allocations(block_bitmap' \ block_bitmap)
    \o (IF Complete(i, n) THEN <<InodeSector(i, inode'[i])>> ELSE <<>>)

RemoveWrites_KeepsCount(id) ==
  EntryRemoved(inode[id].parent)
    \o Releases(block_bitmap \ block_bitmap')
    \o (IF id \in inode_bitmap' THEN <<>> ELSE <<InodeBitmap(inode_bitmap')>>)

(* fs_remove_file: a file with a name left is saved with its new count, the  *)
(* inode of any other is freed; that a freed file lost its blocks is never   *)
(* saved.                                                                    *)
RemoveWrites(id) ==
  EntryRemoved(inode[id].parent)
    \o Releases(block_bitmap \ block_bitmap')
    \o (IF inode[id].type = "FILE" /\ inode[id].link_count > 0
        THEN <<InodeSector(id, inode'[id])>>
        ELSE <<InodeBitmap(inode_bitmap')>>)

(* fs_remove_dir *)
RmdirWrites(id) == EntryRemoved(inode[id].parent) \o <<InodeSector(id, inode'[id])>>

(* fs_delete_hardlink: the count first, while the link is still an entry.    *)
UnlinkWrites(id) ==
  LET target == inode[id].target_inode
  IN  <<InodeSector(target, [inode[target] EXCEPT !.link_count = inode'[target].link_count])>>
        \o EntryRemoved(inode[id].parent)
        \o <<InodeBitmap(inode_bitmap \ {id})>>
        \o Releases(block_bitmap \ block_bitmap')
        \o (IF inode'[target].link_count = 0 THEN <<InodeBitmap(inode_bitmap')>> ELSE <<>>)

-----------------------------------------------------------------------------
CrashInit ==
  /\ Init
  /\ disk = [inode |-> inode, dirent |-> dirent,
             inode_bitmap |-> inode_bitmap, block_bitmap |-> block_bitmap]
  /\ pending = <<>>
  /\ dirty = {}
  /\ unlinking = FALSE
  /\ restarts = 0

(* The inodes that these writes save. *)
Saved(writes) == {writes[k].at : k \in {j \in DOMAIN writes : writes[j].of = "inode"}}

(* A command has run in memory and has these writes to make; an inode that   *)
(* it changed and does not save stays dirty.                                 *)
Gives(command, writes, unsaved) ==
  /\ unlinking' = (command = "unlink")
  /\ pending' = writes
  /\ dirty' = (dirty \cup unsaved) \ Saved(writes)
  /\ UNCHANGED <<disk, restarts>>

(* dev_write of the next sector *)
Write ==
  /\ pending # <<>>
  /\ disk' = Written(Head(pending))
  /\ pending' = Tail(pending)
  /\ unlinking' = (unlinking /\ pending' # <<>>)
  /\ UNCHANGED <<vars, dirty, restarts>>

(* The power goes and comes back: fs_mount reads the bitmaps, finds every    *)
(* inode not loaded and starts in the root.                                  *)
Restart ==
  /\ restarts < MAX_RESTARTS
  /\ UnlinkCut \/ ~unlinking
  /\ inode' = disk.inode
  /\ dirent' = disk.dirent
  /\ inode_bitmap' = disk.inode_bitmap
  /\ block_bitmap' = disk.block_bitmap
  /\ current_dir' = 0
  /\ pending' = <<>>
  /\ dirty' = {}
  /\ unlinking' = FALSE
  /\ restarts' = restarts + 1
  /\ UNCHANGED disk

(* The commands that are one call; Transfer.tla has those of several calls.  *)
Command ==
  \/ \E p \in Typed("new", Paths) : CreateFile(p) /\ Gives("new", MadeWrites, {})
  \/ \E p \in Typed("newdir", Paths) : CreateDir(p) /\ Gives("newdir", MadeWrites, {})
  \/ \E t \in Typed("symlink", SymlinkTexts), p \in Paths :
       CreateSymlink(t, p) /\ Gives("symlink", MadeWrites, {})
  \/ \E t \in Typed("hlink", Paths), p \in Paths :
       CreateHardlink(t, p) /\ Gives("hlink", LinkWrites, {})
  \/ \E p \in Typed("write", Paths), n \in 1 .. MAX_WRITE :
       /\ WriteFile(p, n)
       /\ LET real == Resolve(Find(p))
          IN  Gives("write", DataWrites(real, n),
                    IF inode' = inode THEN {} ELSE {real})
  \/ \E p \in Typed("rm", Paths) :
       RemoveFile(p) /\ Gives("rm", RemoveWrites(Find(p)), {})
  \/ \E p \in Typed("rmdir", Paths) :
       RemoveDir(p) /\ Gives("rmdir", RmdirWrites(Find(p)), {})
  \/ \E p \in Typed("unlink", Paths) :
       Unlink(p) /\ Gives("unlink", UnlinkWrites(Find(p)), {})
  \/ \E p \in Typed("cd", Paths) : ChangeDir(p) /\ Gives("cd", <<>>, {})

-----------------------------------------------------------------------------
(* Properties: what a restart would find, at every moment                    *)

(* A directory on the disk lists only inodes marked there: after a restart   *)
(* no inode that has a name is handed out again.                             *)
ListedOnDisk == OnDisk!ListedAllocated

(* An inode is on the disk before its entry: no entry leads to an inode with *)
(* another parent, one from before it was made.                              *)
ParentsOnDisk == OnDisk!EntryAgreesWithParent

(* The hard links to i that a directory lists.  An inode marked for a new   *)
(* file may still hold a hard link removed before, and no path leads to it.  *)
LinksOnDisk(i) ==
  {h \in Inodes : /\ disk.inode[h].type = "HARDLINK"
                  /\ disk.inode[h].target_inode = i
                  /\ OnDisk!ListedIn(h) # {}}

NamedOnDisk == {i \in Inodes : OnDisk!ListedIn(i) \cup LinksOnDisk(i) # {}}

(* The count of a file on the disk covers its names there, and a hard link   *)
(* leads to a file in use, whatever commands were cut short: after a restart *)
(* rm and unlink free no file that has another name.  Not in the middle of   *)
(* an unlink, which lowers the count first: cut there, the link outlives its *)
(* share of the count.                                                       *)
CountOnDisk ==
  ~unlinking =>
    \A i \in NamedOnDisk :
      /\ LinksOnDisk(i) # {} => i \in disk.inode_bitmap /\ disk.inode[i].type = "FILE"
      /\ disk.inode[i].type = "FILE" =>
           disk.inode[i].link_count >= Cardinality(LinksOnDisk(i)) + Cardinality(OnDisk!ListedIn(i))

(* The blocks of an inode that can be reached are marked on the disk and no  *)
(* other's that can: after a restart no write goes into another's data.      *)
BlocksOnDisk ==
  \A i \in NamedOnDisk :
    /\ OnDisk!Owned(i) \subseteq disk.block_bitmap
    /\ \A j \in NamedOnDisk \ {i} : OnDisk!Owned(i) \cap OnDisk!Owned(j) = {}

(* A command that has come back is on the disk: bitmaps, directories, and    *)
(* each inode in use that is not left dirty.                                 *)
Durable ==
  pending = <<>> =>
    /\ disk.inode_bitmap = inode_bitmap
    /\ disk.block_bitmap = block_bitmap
    /\ disk.dirent = dirent
    /\ \A i \in (inode_bitmap \cup {0}) \ dirty : disk.inode[i] = inode[i]
=============================================================================

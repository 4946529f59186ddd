----------------------------- MODULE InodeCache -----------------------------
(***************************************************************************)
(* The inode cache of an MFS instance (load_inode, save_inode of fs.c) and *)
(* the inode sectors behind it.  An inode_t has 364 bytes and both copies  *)
(* take INODE_SIZE, 512: the copy of inode i carries the first 148 bytes   *)
(* of the next one in the cache along, and for the last inode the first    *)
(* words of inode_cache_loaded, which follows the cache in fs_instance_t.  *)
(*                                                                         *)
(* An inode is two values, each a version number: its head, what the 148   *)
(* bytes cover (name, type, size, parent, blocks), and its tail (link_count *)
(* and target_inode).  Which inodes a call loads depends on where they are *)
(* listed: find_inode loads a directory and its entries up to the one it   *)
(* looks for.  Such a walk is taken here as one call for each inode it     *)
(* loads (Look), and a call that changes something as the rest of it, once *)
(* its walk is done: walks change nothing but the cache.                   *)
(*                                                                         *)
(* The instance has no device nodes (fs_update_devices is not called).     *)
(***************************************************************************)
EXTENDS Integers, FiniteSets

CONSTANTS
  MAX_INODES,
  FLAGS,        \* flags of inode_cache_loaded the last copy covers (37)
  DIR_SLOTS,    \* entries of a directory block (128 in the code)
  LAST_USED,    \* the highest inode the instance comes to use
  HEADS, TAILS  \* bounds: changes of one head, of one tail

Inodes == 0 .. MAX_INODES - 1
Slots  == 0 .. DIR_SLOTS - 1

ASSUME InodeCacheAssumption ==
  /\ MAX_INODES \in Nat \ {0} /\ FLAGS \in 0 .. MAX_INODES
  /\ DIR_SLOTS \in Nat \ {0}
  /\ LAST_USED \in Inodes /\ HEADS \in Nat \ {0} /\ TAILS \in Nat

VARIABLES
  inode_cache,
  inode_cache_loaded,   \* inodes with the flag set
  inode_cache_dirty,    \* likewise
  sector,               \* what each inode sector holds
  inode_bitmap,         \* inodes in use
  node,                 \* what each inode was made, and where it is listed
  meant,                \* history: the values the calls have given each inode
  overrun,              \* history: inodes loaded when the one below was loaded
  lost                  \* history: inodes a change of which was never saved

vars == <<inode_cache, inode_cache_loaded, inode_cache_dirty, sector, inode_bitmap,
          node, meant, overrun, lost>>

Last  == MAX_INODES - 1
NONE  == -1
Zero  == [head |-> 0, tail |-> 0]
MIXED == -1             \* some fields up to date, some not

ASSUME MixedIsNoVersion == MIXED \notin Nat

(* The cache after the memcpy of load_inode(i). *)
CopyIn_LongTail(i, cache) ==
  [j \in Inodes |->
     CASE j = i     -> sector[i].own
       [] j = i + 1 -> [head |-> sector[i].next, tail |-> 0]
       [] OTHER     -> cache[j]]

CopyIn(i, cache) ==
  [j \in Inodes |->
     CASE j = i     -> sector[i].own
       [] j = i + 1 -> [cache[j] EXCEPT !.head = sector[i].next]
       [] OTHER     -> cache[j]]

(* The flags after load_inode(i): the copy comes first. *)
FlagsIn(i, loaded) ==
  (IF i = Last THEN (loaded \ (0 .. FLAGS - 1)) \cup sector[i].flags ELSE loaded) \cup {i}

(* The sectors sec after save_inode(i) of a dirty inode. *)
Save(i, cache, sec) ==
  [sec EXCEPT ![i] =
     [own   |-> cache[i],
      next  |-> IF i = Last THEN 0 ELSE cache[i + 1].head,
      flags |-> IF i = Last THEN inode_cache_loaded \cap (0 .. FLAGS - 1) ELSE {}]]

(* Fields of a value are assigned: the new version, if the others were those *)
(* of the latest one.                                                        *)
Changed(have, want) == IF have = want THEN want + 1 ELSE MIXED

-----------------------------------------------------------------------------
(* Where inodes are listed                                                   *)

(* get_children, in the order of the slots. *)
Entries(d) == {j \in Inodes : node[j].dir = d}
Before(i)  == {j \in Entries(node[i].dir) : node[j].slot < node[i].slot}

(* The slot dir_add_child takes in d. *)
FirstFree(d, s) ==
  /\ \A j \in Entries(d) : node[j].slot # s
  /\ \A r \in 0 .. s - 1 : \E j \in Entries(d) : node[j].slot = r

(* What is read of the head of a loaded inode is not what was assigned: from *)
(* then on a walk may take a wrong turn, and load any inode in use.          *)
Astray ==
  \E d \in inode_cache_loaded \cap inode_bitmap :
    d \notin lost /\ inode_cache[d].head # meant[d].head

(* The walk to inode i by its name is done: its directory and the entries    *)
(* before it are loaded.  (A walk from the directory itself, after cd, loads *)
(* nothing above it.)                                                        *)
Walked(i) ==
  /\ i \in inode_bitmap
  /\ \/ i = 0
     \/ node[i].dir # NONE /\ {node[i].dir} \cup Before(i) \subseteq inode_cache_loaded
     \/ Astray

Found(i, type) == Walked(i) /\ i \in inode_cache_loaded /\ node[i].type = type

(* Inode i by its name, or by a hard link to it (resolve_symlink). *)
Reach(i) ==
  \/ Walked(i)
  \/ i \in inode_bitmap /\ \E l \in Inodes : Found(l, "HARDLINK") /\ node[l].target_inode = i

Opened(i) == Reach(i) /\ i \in inode_cache_loaded /\ node[i].type = "FILE"

-----------------------------------------------------------------------------

Unlisted(type, target) ==
  [type |-> type, dir |-> NONE, slot |-> 0, block |-> FALSE, target_inode |-> target]

(* A formatted disk, mounted: load_inode(0). *)
Root == [head |-> 1, tail |-> 0]

Init ==
  /\ inode_cache = [i \in Inodes |-> IF i = 0 THEN Root ELSE Zero]
  /\ inode_cache_loaded = {0}
  /\ inode_cache_dirty = {}
  /\ sector = [i \in Inodes |->
                 [own |-> IF i = 0 THEN Root ELSE Zero, next |-> 0, flags |-> {}]]
  /\ inode_bitmap = {0}
  /\ node = [i \in Inodes |-> Unlisted(IF i = 0 THEN "DIR" ELSE "FILE", 0)]
  /\ meant = [i \in Inodes |-> IF i = 0 THEN Root ELSE Zero]
  /\ overrun = {} /\ lost = {}

Look_Again(i) ==
  /\ Reach(i)
  /\ inode_cache' = CopyIn(i, inode_cache)
  /\ inode_cache_loaded' = FlagsIn(i, inode_cache_loaded)
  /\ inode_cache_dirty' = inode_cache_dirty \ {i}
  /\ overrun' = overrun
  /\ UNCHANGED <<sector, inode_bitmap, node, meant, lost>>

(* load_inode(i), at the end of a walk (cat, ls, cd and all other calls). *)
Look(i) ==
  /\ Reach(i)
  /\ i \notin inode_cache_loaded
  /\ inode_cache' = CopyIn(i, inode_cache)
  /\ inode_cache_loaded' = FlagsIn(i, inode_cache_loaded)
  /\ inode_cache_dirty' = inode_cache_dirty \ {i}
  /\ overrun' = overrun \cup ({i + 1} \cap inode_cache_loaded)
  /\ UNCHANGED <<sector, inode_bitmap, node, meant, lost>>

Write_NotMarked(i) ==
  /\ Opened(i) /\ meant[i].head < HEADS
  /\ inode_cache' = [inode_cache EXCEPT ![i].head = Changed(@, meant[i].head)]
  /\ meant' = [meant EXCEPT ![i].head = @ + 1]
  /\ UNCHANGED <<inode_cache_loaded, inode_cache_dirty, sector, inode_bitmap, node,
                 overrun, lost>>

(* write: size and blocks change, and the inode is saved at the end. *)
Write(i) ==
  LET cache == [inode_cache EXCEPT ![i].head = Changed(@, meant[i].head)] IN
  /\ Opened(i) /\ meant[i].head < HEADS
  /\ inode_cache' = cache
  /\ inode_cache_dirty' = inode_cache_dirty \ {i}
  /\ sector' = Save(i, cache, sector)
  /\ meant' = [meant EXCEPT ![i].head = @ + 1]
  /\ UNCHANGED <<inode_cache_loaded, inode_bitmap, node, overrun, lost>>

(* A write that finds no free block returns before the save. *)
WriteCut(i) ==
  /\ Opened(i) /\ meant[i].head < HEADS
  /\ inode_cache' = [inode_cache EXCEPT ![i].head = Changed(@, meant[i].head)]
  /\ inode_cache_dirty' = inode_cache_dirty \cup {i}
  /\ meant' = [meant EXCEPT ![i].head = @ + 1]
  /\ UNCHANGED <<inode_cache_loaded, sector, inode_bitmap, node, overrun, lost>>

(* A write into the blocks there are changes no field, and saves what an     *)
(* earlier one left.                                                         *)
WriteOver(i) ==
  /\ Opened(i) /\ i \in inode_cache_dirty
  /\ inode_cache_dirty' = inode_cache_dirty \ {i}
  /\ sector' = Save(i, inode_cache, sector)
  /\ UNCHANGED <<inode_cache, inode_cache_loaded, inode_bitmap, node, meant, overrun, lost>>

(* alloc_inode, and the new inode filled in where the cache has it, without  *)
(* load_inode.                                                               *)
Fresh(i) ==
  /\ i \notin inode_bitmap /\ 0 .. i - 1 \subseteq inode_bitmap
  /\ i <= LAST_USED
  /\ meant[i].head < HEADS /\ meant[i].tail < TAILS
  /\ inode_bitmap' = inode_bitmap \cup {i}
  /\ overrun' = overrun \ {i} /\ lost' = lost \ {i}
  /\ UNCHANGED inode_cache_loaded

Filled(i) == [head |-> meant[i].head + 1, tail |-> meant[i].tail + 1]

(* dir_add_child(p, i), the inode being made as in made; cache, sec and want *)
(* are the cache, the sectors and the meant values so far.  Without a block  *)
(* for the directory, or a free slot, nothing is listed.                     *)
AddChild(p, i, made, cache, sec, want) ==
  LET first == [cache EXCEPT ![p].head = Changed(@, want[p].head)] IN
  \/ \E s \in Slots :
       /\ node[p].block /\ FirstFree(p, s)
       /\ node' = [node EXCEPT ![i] = [made EXCEPT !.dir = p, !.slot = s]]
       /\ inode_cache' = cache /\ meant' = want
       /\ sector' = Save(p, cache, sec)
  \/ /\ ~ node[p].block /\ want[p].head < HEADS
     /\ node' = [node EXCEPT ![i] = [made EXCEPT !.dir = p], ![p].block = TRUE]
     /\ inode_cache' = first /\ meant' = [want EXCEPT ![p].head = @ + 1]
     /\ sector' = Save(p, first, sec)
  \/ /\ node[p].block => \A s \in Slots : ~ FirstFree(p, s)
     /\ node' = [node EXCEPT ![i] = made]
     /\ inode_cache' = cache /\ meant' = want /\ sector' = sec

(* new, newdir and symlink in p, all entries of which were loaded to compare *)
(* their names.                                                              *)
Create(p, i, type) ==
  LET cache == [inode_cache EXCEPT ![i] = Filled(i)] IN
  /\ Fresh(i)
  /\ Found(p, "DIR") /\ (Entries(p) \subseteq inode_cache_loaded \/ Astray)
  /\ inode_cache_dirty' = inode_cache_dirty \ {i}
  /\ AddChild(p, i, Unlisted(type, 0), cache, Save(i, cache, sector),
              [meant EXCEPT ![i] = Filled(i)])

(* hlink: the count of the target changes and is saved, then the new link.   *)
Hardlink(p, i, t) ==
  LET cache == [inode_cache EXCEPT ![i] = Filled(i),
                                   ![t].tail = Changed(@, meant[t].tail)] IN
  /\ Fresh(i)
  /\ Found(p, "DIR") /\ Found(t, "FILE") /\ meant[t].tail < TAILS
  /\ inode_cache_dirty' = inode_cache_dirty \ {i, t}
  /\ AddChild(p, i, Unlisted("HARDLINK", t), cache, Save(i, cache, Save(t, cache, sector)),
              [meant EXCEPT ![i] = Filled(i), ![t].tail = @ + 1])

(* The tail of i changes, and i is saved. *)
SaveTail(i) ==
  LET cache == [inode_cache EXCEPT ![i].tail = Changed(@, meant[i].tail)] IN
  /\ meant[i].tail < TAILS
  /\ sector' = Save(i, cache, sector)
  /\ inode_cache_dirty' = inode_cache_dirty \ {i}
  /\ meant' = [meant EXCEPT ![i].tail = @ + 1]
  /\ inode_cache' = cache

(* rm of a file by its name: the name goes, the count is one less. *)
Remove(i) ==
  /\ Found(i, "FILE") /\ node[i].dir # NONE
  /\ SaveTail(i)
  /\ node' = [node EXCEPT ![i].dir = NONE, ![i].slot = 0]
  /\ UNCHANGED <<inode_cache_loaded, inode_bitmap, overrun, lost>>

(* rm of a symlink: free_inode, the cache and its flag stay. *)
RemoveSymlink(i) ==
  /\ Found(i, "SYMLINK")
  /\ node' = [node EXCEPT ![i] = Unlisted("FILE", 0)]
  /\ inode_bitmap' = inode_bitmap \ {i}
  /\ UNCHANGED <<inode_cache, inode_cache_loaded, inode_cache_dirty, sector, meant,
                 overrun, lost>>

(* rmdir of an empty directory: the inode is cleared but stays marked.       *)
(* INODE_FREE is the type of a file.                                         *)
RemoveDir(i) ==
  LET cache == [inode_cache EXCEPT ![i].head = Changed(@, meant[i].head)] IN
  /\ Found(i, "DIR") /\ i # 0 /\ Entries(i) = {} /\ meant[i].head < HEADS
  /\ inode_cache' = cache
  /\ inode_cache_dirty' = inode_cache_dirty \ {i}
  /\ sector' = Save(i, cache, sector)
  /\ node' = [node EXCEPT ![i] = Unlisted("FILE", 0)]
  /\ meant' = [meant EXCEPT ![i].head = @ + 1]
  /\ UNCHANGED <<inode_cache_loaded, inode_bitmap, overrun, lost>>

(* unlink of hard link l, its target loaded: the last name frees the target. *)
(* (The blocks a freed inode loses in the cache only are not followed: no    *)
(* call reads its head before it is made anew.)                              *)
Unlink(l) ==
  LET t     == node[l].target_inode
      names == {j \in Inodes \ {l} :
                  node[j].dir # NONE /\ (j = t \/ (node[j].type = "HARDLINK" /\ node[j].target_inode = t))}
  IN
  /\ Found(l, "HARDLINK") /\ t \in inode_cache_loaded \cap inode_bitmap
  /\ SaveTail(t)
  /\ node' = [node EXCEPT ![l] = Unlisted("FILE", 0)]
  /\ inode_bitmap' = inode_bitmap \ ({l} \cup (IF names = {} THEN {t} ELSE {}))
  /\ UNCHANGED <<inode_cache_loaded, overrun, lost>>

(* fs_mount after a restart, or in the next instance: an empty cache, into   *)
(* which the root is loaded.  What was dirty is forgotten.                   *)
Mount ==
  /\ inode_cache' = CopyIn(0, [i \in Inodes |-> Zero])
  /\ inode_cache_loaded' = FlagsIn(0, {})
  /\ inode_cache_dirty' = {}
  /\ lost' = lost \cup inode_cache_dirty
  /\ UNCHANGED <<sector, inode_bitmap, node, meant, overrun>>

Next ==
  \/ \E i \in Inodes :
       \/ Look(i) \/ Write(i) \/ WriteCut(i) \/ WriteOver(i)
       \/ Remove(i) \/ RemoveSymlink(i) \/ RemoveDir(i) \/ Unlink(i)
       \/ \E p \in Inodes, type \in {"FILE", "DIR", "SYMLINK"} : Create(p, i, type)
       \/ \E p, t \in Inodes : Hardlink(p, i, t)
  \/ Mount

Spec == Init /\ [][Next]_vars

-----------------------------------------------------------------------------

Heads == MIXED .. HEADS
Tails == MIXED .. TAILS

TypeOK ==
  /\ inode_cache \in [Inodes -> [head : Heads, tail : Tails]]
  /\ sector \in [Inodes -> [own : [head : Heads, tail : Tails], next : Heads,
                            flags : SUBSET Inodes]]
  /\ inode_bitmap \subseteq Inodes /\ inode_cache_loaded \subseteq Inodes
  /\ inode_cache_dirty \subseteq Inodes
  /\ node \in [Inodes -> [type : {"FILE", "DIR", "SYMLINK", "HARDLINK"},
                          dir : Inodes \cup {NONE}, slot : Slots, block : BOOLEAN,
                          target_inode : Inodes]]
  /\ meant \in [Inodes -> [head : 0 .. HEADS, tail : 0 .. TAILS]]
  /\ overrun \subseteq Inodes /\ lost \subseteq Inodes

(* link_count and target_inode of an inode in use are right wherever a call  *)
(* can take them from, cache or disk, across mounts: no copy of a neighbour  *)
(* reaches them.                                                             *)
TailsCoherent ==
  \A i \in inode_bitmap :
    /\ sector[i].own.tail = meant[i].tail
    /\ i \in inode_cache_loaded => inode_cache[i].tail = meant[i].tail

(* The head of an inode is what was last assigned, in the cache and, unless  *)
(* a write without a free block left it dirty, on the disk.  Two things      *)
(* spoil it: the inode below being loaded after it in the same mount, and a  *)
(* mount while it is dirty.                                                  *)
HeadsCoherent ==
  \A i \in inode_bitmap \ (overrun \cup lost) :
    /\ i \notin inode_cache_dirty => sector[i].own.head = meant[i].head
    /\ i \in inode_cache_loaded => inode_cache[i].head = meant[i].head

(* Only a first load changes a cached head behind the calls that assign it:  *)
(* of the inode itself, or of the one below.  Within a mount a head is       *)
(* spoiled at most once.                                                     *)
OnlyFirstLoadSpills ==
  [][~Mount => \A i \in Inodes :
       inode_cache'[i].head # inode_cache[i].head /\ meant'[i] = meant[i] =>
         {i - 1, i} \cap (inode_cache_loaded' \ inode_cache_loaded) # {}]_vars

(* README: write writes a file, cat reads it, ls lists a directory: what a   *)
(* call reads of an inode is what the calls before have made of it, but for  *)
(* writes that failed.                                                       *)
ReadsWhatWasWritten ==
  \A i \in (inode_bitmap \cap inode_cache_loaded) \ lost :
    inode_cache[i].head = meant[i].head
=============================================================================

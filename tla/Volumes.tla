------------------------------ MODULE Volumes ------------------------------
(***************************************************************************)
(* Mounted file systems over the partition devices (fs_mount, fs_umount,   *)
(* vfs_resolve, vfs_cd and fs_init of fs.c, cmd_mount of kernel.c): which  *)
(* instance a path leads to, and which sectors the instance works on.      *)
(* The files of an instance are the matter of Mfs; here an instance is its *)
(* device.                                                                 *)
(***************************************************************************)
EXTENDS Partitions, Sequences, SequencesExt

CONSTANTS
  MAX_MOUNTS,     \* mounts, and instances (8)
  FS_SECTORS,     \* sectors MFS takes from the start of its device (4355)
  MountPoints,    \* paths the user mounts on, as sequences of names
  Paths,          \* paths the user types: [abs, toks]
  MISDEEDS        \* bound: times the user is not orderly

ASSUME VolumesAssumption ==
  /\ MAX_MOUNTS \in Nat \ {0} /\ FS_SECTORS \in Nat /\ MISDEEDS \in Nat
  /\ MountPoints \subseteq Seq(STRING) \ {<<>>}
  /\ Paths \subseteq [abs : BOOLEAN, toks : Seq(STRING)]

VARIABLES
  ram_mode,       \* TRUE: every read and write goes to the RAM disk
  superblock,     \* where there is a superblock of MFS
  instances,      \* the instances used so far: slot of the device, place asked for
  vfs_mounts,     \* the mount table: path and instance
  current_fs,
  misdeeds        \* history: times the user was not orderly

volVars == <<ram_mode, superblock, instances, vfs_mounts, current_fs>>
vars == <<partVars, volVars, misdeeds>>

RAM == [disk |-> 0, lba |-> 0]
NoSlot == -1                       \* the device of the RAM disk

Place_WholeDisk(s) == [disk |-> partitions[s].parent, lba |-> 0]

(* The sector part_read_wrapper and part_write_wrapper count from for the    *)
(* device in slot s, and where dev_read and dev_write go for it.             *)
Place(s) == [disk |-> partitions[s].parent, lba |-> partitions[s].start]
Reached(s) == IF ram_mode THEN RAM ELSE Place(s)

(* The instances that are in the mount table. *)
Mounted == {vfs_mounts[i].fs : i \in DOMAIN vfs_mounts}

(* vfs_resolve: the longest mount point that begins the path, the first one  *)
(* of those; else the root.  What is left of the path is absolute.           *)
Resolve(p) ==
  LET hits == {i \in DOMAIN vfs_mounts :
                 vfs_mounts[i].path # <<>> /\ IsPrefix(vfs_mounts[i].path, p.toks)}
      best == CHOOSE i \in hits : \A k \in hits :
                \/ Len(vfs_mounts[k].path) < Len(vfs_mounts[i].path)
                \/ Len(vfs_mounts[k].path) = Len(vfs_mounts[i].path) /\ i <= k
  IN  CASE ~p.abs    -> [fs |-> current_fs, rel |-> p]
        [] p.abs /\ hits = {} -> [fs |-> vfs_mounts[1].fs, rel |-> p]
        [] OTHER -> [fs |-> vfs_mounts[best].fs,
                     rel |-> [abs |-> TRUE,
                              toks |-> SubSeq(p.toks, Len(vfs_mounts[best].path) + 1, Len(p.toks))]]

-----------------------------------------------------------------------------

HasRoot(m) == <<1, 1>> \in Found(m)
RootPlace(m) == IF HasRoot(m) THEN [disk |-> 1, lba |-> m[1].parts[1].start] ELSE RAM
RootFs(m) == [dev |-> IF HasRoot(m) THEN 0 ELSE NoSlot, asked |-> RootPlace(m)]

(* Power on: block_init, then fs_init, which takes sda1 for the root and     *)
(* formats it when it has no superblock; without sda1 the root is in RAM.    *)
Init ==
  /\ PartInit
  /\ ram_mode = ~HasRoot(mbr)
  /\ superblock = {RootPlace(mbr)}
  /\ instances = <<RootFs(mbr)>>
  /\ vfs_mounts = <<[path |-> <<>>, fs |-> 1]>>
  /\ current_fs = 1
  /\ misdeeds = 0

(* The same after a restart: only what the disks hold is left. *)
Reboot ==
  /\ mbr' = mbr
  /\ Rescan(mbr, [s \in Slots |-> NoDevice])
  /\ ram_mode' = ~HasRoot(mbr)
  /\ superblock' = superblock \cup {RootPlace(mbr)}
  /\ instances' = <<RootFs(mbr)>>
  /\ vfs_mounts' = <<[path |-> <<>>, fs |-> 1]>>
  /\ current_fs' = 1

(* cmd_mount formats a partition that has no superblock.                     *)
FormatIfNew(s) ==
  superblock' = IF Place(s) \in superblock THEN superblock ELSE superblock \cup {Reached(s)}

Mount_Appends(d, n, path) ==
  \E s \in Named(d, n) :
    /\ FormatIfNew(s)
    /\ Len(vfs_mounts) < MAX_MOUNTS /\ Len(instances) < MAX_MOUNTS
    /\ instances' = Append(instances, [dev |-> Len(instances), asked |-> Place(s)])
    /\ vfs_mounts' = Append(vfs_mounts, [path |-> path, fs |-> Len(instances')])
    /\ UNCHANGED <<partVars, ram_mode, current_fs>>

(* cmd_mount and fs_mount: a new instance, never one that was given up.  The *)
(* model stops where the code takes instances[MAX_MOUNTS].                   *)
Mount(d, n, path) ==
  \E s \in Named(d, n) :
    /\ FormatIfNew(s)
    /\ \/ /\ Len(vfs_mounts) < MAX_MOUNTS /\ Len(instances) < MAX_MOUNTS
          /\ Reached(s) \in superblock'
          /\ instances' = Append(instances, [dev |-> s, asked |-> Place(s)])
          /\ vfs_mounts' = Append(vfs_mounts, [path |-> path, fs |-> Len(instances')])
       \/ /\ Len(vfs_mounts) = MAX_MOUNTS
          /\ UNCHANGED <<instances, vfs_mounts>>
    /\ UNCHANGED <<partVars, ram_mode, current_fs>>

Umount_CurrentUnchecked(path) ==
  \E i \in DOMAIN vfs_mounts :
    /\ path # <<>> /\ vfs_mounts[i].path = path
    /\ \A k \in 1 .. i - 1 : vfs_mounts[k].path # path
    /\ vfs_mounts' = RemoveAt(vfs_mounts, i)
    /\ UNCHANGED <<partVars, ram_mode, superblock, instances, current_fs>>

(* fs_umount: the first mount of that path, unless the current directory is  *)
(* on it.  Nothing has to be written back, and the instance stays used.      *)
Umount(path) ==
  \E i \in DOMAIN vfs_mounts :
    /\ path # <<>> /\ vfs_mounts[i].path = path
    /\ \A k \in 1 .. i - 1 : vfs_mounts[k].path # path
    /\ current_fs # vfs_mounts[i].fs
    /\ vfs_mounts' = RemoveAt(vfs_mounts, i)
    /\ UNCHANGED <<partVars, ram_mode, superblock, instances, current_fs>>

(* vfs_cd to a directory there is. *)
Cd(p) ==
  /\ current_fs' = Resolve(p).fs
  /\ UNCHANGED <<partVars, ram_mode, superblock, instances, vfs_mounts>>

(* vfs_cd to ".." from the root of a mounted instance: back to the root      *)
(* file system.                                                              *)
CdUp ==
  /\ \E i \in DOMAIN vfs_mounts : vfs_mounts[i].fs = current_fs /\ vfs_mounts[i].path # <<>>
  /\ current_fs' = vfs_mounts[1].fs
  /\ UNCHANGED <<partVars, ram_mode, superblock, instances, vfs_mounts>>

(* fs_format_device on a partition ... *)
Format(d, n) ==
  /\ \E s \in Named(d, n) : superblock' = superblock \cup {Reached(s)}
  /\ UNCHANGED <<partVars, ram_mode, instances, vfs_mounts, current_fs>>

(* ... and on a whole disk. *)
FormatWhole(d) ==
  /\ IF ram_mode THEN UNCHANGED <<partVars, superblock>>
     ELSE /\ FormatDisk(d)
          /\ superblock' = superblock \cup {[disk |-> d, lba |-> 0]}
  /\ UNCHANGED <<ram_mode, instances, vfs_mounts, current_fs>>

(* The user stays orderly while he mounts no partition that is mounted, and  *)
(* neither makes nor deletes one while another than sda1 is mounted, nor     *)
(* deletes sda1, nor formats a whole disk.  The code forbids none of it.     *)
Orderly(ok) ==
  \/ ok /\ UNCHANGED misdeeds
  \/ ~ok /\ misdeeds < MISDEEDS /\ misdeeds' = misdeeds + 1

OnlyRoot == Mounted = {1}
NotMounted(d, n) == \A fs \in Mounted : instances[fs].dev \notin Named(d, n)

Next ==
  \/ \E d \in Disks, n \in Nums, path \in MountPoints :
       Mount(d, n, path) /\ Orderly(NotMounted(d, n))
  \/ \E path \in MountPoints : Umount(path) /\ Orderly(TRUE)
  \/ \E p \in Paths : Cd(p) /\ Orderly(TRUE)
  \/ CdUp /\ Orderly(TRUE)
  \/ \E d \in Disks, n \in Nums, mb \in Sizes :
       /\ NextStart(d) + mb * MB <= LAST[d]
       /\ CreatePartition(d, n, mb) /\ UNCHANGED volVars /\ Orderly(OnlyRoot)
  \/ \E d \in Disks, n \in Nums :
       /\ DeletePartition(d, n) /\ UNCHANGED volVars
       /\ Orderly(OnlyRoot /\ <<d, n>> # <<1, 1>>)
  \/ \E d \in Disks, n \in Nums : Format(d, n) /\ Orderly(TRUE)
  \/ \E d \in Disks : FormatWhole(d) /\ Orderly(FALSE)
  \/ Reboot /\ Orderly(TRUE)

Spec == Init /\ [][Next]_vars

-----------------------------------------------------------------------------

TypeOK ==
  /\ PartTypeOK
  /\ ram_mode \in BOOLEAN
  /\ superblock \subseteq [disk : 0 .. DISKS, lba : 0 .. WORD - 1]
  /\ Len(instances) \in 1 .. MAX_MOUNTS
  /\ \A k \in DOMAIN instances : instances[k].dev \in Slots \cup {NoSlot}
  /\ Len(vfs_mounts) \in 1 .. MAX_MOUNTS
  /\ Mounted \subseteq DOMAIN instances
  /\ current_fs \in DOMAIN instances

(* The current file system is in the mount table: umount never takes away    *)
(* the one the prompt and every relative path work on.                       *)
CurrentIsMounted == current_fs \in Mounted

StillThere(p) ==
  p = RAM \/ \E n \in Nums : mbr[p.disk].parts[n].used /\ mbr[p.disk].parts[n].start = p.lba

(* A mounted instance reads and writes the partition it was mounted from,    *)
(* for as long as it is mounted and the partition is there (README: mount    *)
(* mounts a partition).                                                      *)
ServesItsPartition ==
  \A fs \in Mounted : LET p == instances[fs].asked IN
    StillThere(p) => Reached(instances[fs].dev) = p

(* An orderly user's instance serves its partition, and the partition is there. *)
OrderlyServed ==
  misdeeds = 0 => \A fs \in Mounted : LET p == instances[fs].asked IN
                    StillThere(p) /\ Reached(instances[fs].dev) = p

(* Two instances an orderly user has mounted share no sector (README: a file *)
(* system with support for partitions).                                      *)
RegionsExclusive ==
  misdeeds = 0 =>
  \A f, g \in Mounted :
    LET a == Reached(instances[f].dev)
        b == Reached(instances[g].dev)
    IN  f # g /\ a.disk = b.disk =>
          a.lba + FS_SECTORS <= b.lba \/ b.lba + FS_SECTORS <= a.lba
=============================================================================

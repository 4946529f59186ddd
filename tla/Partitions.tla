----------------------------- MODULE Partitions -----------------------------
(***************************************************************************)
(* MBR partitions (block.c and the mkpart, delpart and format commands):   *)
(* the partition table on each disk and the table of partition devices in  *)
(* memory.  A device is known by its slot in that table: who mounts it     *)
(* keeps the address of the slot.  Sector numbers are uint32_t.            *)
(***************************************************************************)
EXTENDS Integers, FiniteSets

CONSTANTS
  DISKS,        \* number of disks: 1 is sda, 2 is sdb, ... (at most 4)
  PARTS,        \* entries of an MBR (4)
  WORD,         \* sector numbers are modulo WORD (2^32)
  MB,           \* sectors of a megabyte (2048)
  FIRST_LBA,    \* where mkpart puts the first partition (2048)
  LAST,         \* the user makes no partition that ends past sector LAST[d]
  Sizes,        \* sizes the user gives to mkpart, in megabytes
  RootSizes     \* sizes of sda1 as mkmbr.py made it, in megabytes; 0: none

Disks == 1 .. DISKS
Nums  == 1 .. PARTS
Slots == 0 .. DISKS * PARTS       \* one more than the partitions there can be

ASSUME PartitionsAssumption ==
  /\ DISKS \in Nat \ {0} /\ PARTS \in Nat \ {0} /\ WORD \in Nat
  /\ MB \in Nat \ {0} /\ FIRST_LBA \in 1 .. WORD - 1
  /\ LAST \in [Disks -> Nat]
  /\ Sizes \subseteq Nat \ {0} /\ RootSizes \subseteq Nat
  /\ \A mb \in RootSizes : FIRST_LBA + mb * MB < WORD

VARIABLES
  mbr,          \* sector 0 of each disk: signature and entries
  partitions,   \* the slots, partitions[] and part_devices[]
  part_count

partVars == <<mbr, partitions, part_count>>

Unused == [used |-> FALSE, start |-> 0, count |-> 0]
Blank  == [sig |-> FALSE, parts |-> [n \in Nums |-> Unused]]

(* What a slot may hold: the partition num of disk parent. *)
Device == [parent : Disks, num : Nums, start : 0 .. WORD - 1, count : 0 .. WORD - 1]
NoDevice == [parent |-> 0, num |-> 0, start |-> 0, count |-> 0]

End_LastSector(e) == (e.start + e.count - 1) % WORD

End(e) == (e.start + e.count) % WORD

(* The partitions a scan of the disks finds, and those it finds before p. *)
Found(m) == {p \in Disks \X Nums : m[p[1]].sig /\ m[p[1]].parts[p[2]].used}
Ahead(m, p) == {q \in Found(m) : q[1] < p[1] \/ (q[1] = p[1] /\ q[2] < p[2])}

Describe(m, p) ==
  [parent |-> p[1], num |-> p[2],
   start |-> m[p[1]].parts[p[2]].start, count |-> m[p[1]].parts[p[2]].count]

(* The slots after a scan of the disks: those it does not reach keep what   *)
(* they held.                                                               *)
Scan(m, table) ==
  [s \in Slots |->
     IF \E p \in Found(m) : Cardinality(Ahead(m, p)) = s
     THEN Describe(m, CHOOSE p \in Found(m) : Cardinality(Ahead(m, p)) = s)
     ELSE table[s]]

Rescan_NotDone(m, table) ==
  /\ partitions' = table
  /\ part_count' = part_count

(* update_partitions_and_dev *)
Rescan(m, table) ==
  /\ partitions' = Scan(m, table)
  /\ part_count' = Cardinality(Found(m))

(* The slot block_find gives for the name of partition n of disk d.         *)
Named(d, n) ==
  {s \in Slots : s < part_count /\ partitions[s].parent = d /\ partitions[s].num = n
                 /\ \A k \in 0 .. s - 1 : ~(partitions[k].parent = d /\ partitions[k].num = n)}

-----------------------------------------------------------------------------

(* The disks at power on: only sda may have a partition.                    *)
InitialMbr(mb) ==
  [d \in Disks |->
     IF d = 1 /\ mb > 0
     THEN [sig |-> TRUE,
           parts |-> [n \in Nums |->
                        IF n = 1 THEN [used |-> TRUE, start |-> FIRST_LBA, count |-> mb * MB]
                        ELSE Unused]]
     ELSE Blank]

(* block_init *)
PartInit ==
  \E mb \in RootSizes :
    /\ mbr = InitialMbr(mb)
    /\ partitions = Scan(mbr, [s \in Slots |-> NoDevice])
    /\ part_count = Cardinality(Found(mbr))

UsedParts(d) == {mbr[d].parts[n] : n \in {k \in Nums : mbr[d].parts[k].used}}

(* Where the mkpart command starts the new partition: after the last end.   *)
NextStart(d) ==
  IF mbr[d].sig
  THEN CHOOSE lba \in {FIRST_LBA} \cup {End(e) : e \in UsedParts(d)} :
         \A x \in {FIRST_LBA} \cup {End(e) : e \in UsedParts(d)} : lba >= x
  ELSE FIRST_LBA

(* The test of create_mbr_partition, in 32 bits. *)
Overlaps(e, start, stop) ==
  \/ start >= e.start /\ start < End(e)
  \/ stop > e.start /\ stop <= End(e)
  \/ start <= e.start /\ stop >= End(e)

(* The mkpart command: create_mbr_partition writes the MBR and appends the  *)
(* partition unless the table has one with its start; then all is scanned   *)
(* again.                                                                   *)
CreatePartition(d, n, mb) ==
  LET start == NextStart(d)
      size  == (mb * MB) % WORD
      entry == [used |-> TRUE, start |-> start, count |-> size]
      m     == [mbr EXCEPT ![d] = [sig |-> TRUE, parts |-> [mbr[d].parts EXCEPT ![n] = entry]]]
      known == \E s \in Slots : s < part_count /\ partitions[s].parent = d
                                               /\ partitions[s].start = start
      table == IF known THEN partitions
               ELSE [partitions EXCEPT ![part_count] = Describe(m, <<d, n>>)]
  IN  /\ ~mbr[d].parts[n].used
      /\ \A e \in UsedParts(d) : ~Overlaps(e, start, (start + size) % WORD)
      /\ mbr' = m
      /\ Rescan(m, table)

(* The delpart command, mounted or not: delete_mbr_partition. *)
DeletePartition(d, n) ==
  LET m == [mbr EXCEPT ![d].parts[n] = Unused] IN
  /\ mbr[d].parts[n].used
  /\ mbr' = m
  /\ Rescan(m, partitions)

(* The format command on a whole disk: the superblock takes the place of    *)
(* the MBR.  The slots are not scanned.                                     *)
FormatDisk(d) ==
  /\ mbr' = [mbr EXCEPT ![d] = Blank]
  /\ UNCHANGED <<partitions, part_count>>

PartNext ==
  \/ \E d \in Disks, n \in Nums, mb \in Sizes :
       NextStart(d) + mb * MB <= LAST[d] /\ CreatePartition(d, n, mb)
  \/ \E d \in Disks, n \in Nums : DeletePartition(d, n)
  \/ \E d \in Disks : FormatDisk(d)

PartSpec == PartInit /\ [][PartNext]_partVars

-----------------------------------------------------------------------------

PartTypeOK ==
  /\ mbr \in [Disks -> [sig : BOOLEAN,
                        parts : [Nums -> [used : BOOLEAN, start : 0 .. WORD - 1,
                                          count : 0 .. WORD - 1]]]]
  /\ partitions \in [Slots -> Device \cup {NoDevice}]
  /\ part_count \in Slots

(* No two partitions of a disk share a sector, and none holds the MBR: what  *)
(* is written to one device is never read from another.                      *)
PartitionsApart ==
  \A d \in Disks : \A n, k \in Nums :
    LET e == mbr[d].parts[n]
        f == mbr[d].parts[k]
    IN  e.used =>
          /\ e.start > 0
          /\ n # k /\ f.used => e.start + e.count <= f.start \/ f.start + f.count <= e.start

(* The devices of a disk that has an MBR are the partitions in it, each once *)
(* and with its extent: no command leaves a device that is not there, or a   *)
(* partition without its device.                                             *)
TableAgrees ==
  \A d \in Disks : mbr[d].sig =>
    /\ \A n \in Nums : mbr[d].parts[n].used =>
         \E s \in Named(d, n) : partitions[s] = Describe(mbr, <<d, n>>)
    /\ \A s \in Slots : s < part_count /\ partitions[s].parent = d =>
         mbr[d].parts[partitions[s].num].used /\ s \in Named(d, partitions[s].num)
=============================================================================

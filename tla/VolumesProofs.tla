--------------------------- MODULE VolumesProofs ---------------------------
(***************************************************************************)
(* That partitions do not overlap, that the devices agree with the disks,  *)
(* and that the prompt never works on a file system that is not mounted,   *)
(* for any number of disks, partitions, mounts and paths, whatever the     *)
(* user does; that an orderly user's mounts serve their partitions and     *)
(* share no sector.                                                        *)
(***************************************************************************)
EXTENDS Volumes, Extremes, FiniteSetTheorems, SequenceTheorems

Entry    == [used : BOOLEAN, start : 0 .. WORD - 1, count : 0 .. WORD - 1]
DiskType == [sig : BOOLEAN, parts : [Nums -> Entry]]
MbrType  == [Disks -> DiskType]

LEMMA Constants ==
  /\ DISKS \in Nat \ {0} /\ PARTS \in Nat \ {0} /\ WORD \in Nat /\ WORD > 1
  /\ MB \in Nat \ {0} /\ FIRST_LBA \in Nat /\ FIRST_LBA > 0 /\ FIRST_LBA < WORD
  /\ LAST \in [Disks -> Nat] /\ Sizes \subseteq Nat \ {0} /\ RootSizes \subseteq Nat
  /\ DISKS * PARTS \in Nat
<1>1. /\ DISKS \in Nat \ {0} /\ PARTS \in Nat \ {0} /\ WORD \in Nat
      /\ MB \in Nat \ {0} /\ FIRST_LBA \in 1 .. WORD - 1
      /\ LAST \in [Disks -> Nat] /\ Sizes \subseteq Nat \ {0} /\ RootSizes \subseteq Nat
  BY PartitionsAssumption
<1>2. DISKS * PARTS \in Nat
  BY <1>1
<1> QED  BY <1>1, <1>2

LEMMA UnusedIsEntry == Unused \in Entry /\ Blank \in DiskType /\ ~Unused.used
BY Constants DEF Unused, Blank, Entry, DiskType

-----------------------------------------------------------------------------
(* The table of partition devices                                            *)

(* There is a slot for each partition a scan finds.                          *)
LEMMA FoundFits ==
  ASSUME NEW m
  PROVE  Cardinality(Found(m)) \in Slots
<1>1. IsFiniteSet(Disks) /\ Cardinality(Disks) = DISKS
  BY Constants, FS_Interval DEF Disks
<1>2. IsFiniteSet(Nums) /\ Cardinality(Nums) = PARTS
  BY Constants, FS_Interval DEF Nums
<1>3. IsFiniteSet(Disks \X Nums) /\ Cardinality(Disks \X Nums) = DISKS * PARTS
  BY <1>1, <1>2, FS_Product
<1>4. Found(m) \in SUBSET (Disks \X Nums)
  BY DEF Found
<1>5. IsFiniteSet(Found(m)) /\ Cardinality(Found(m)) <= DISKS * PARTS
  BY <1>3, <1>4, FS_Subset
<1>6. Cardinality(Found(m)) \in Nat
  BY <1>5, FS_CardinalityType
<1> QED  BY <1>5, <1>6, Constants DEF Slots

LEMMA DescribeTypes ==
  ASSUME NEW m \in MbrType, NEW p \in Disks \X Nums
  PROVE  Describe(m, p) \in Device
BY DEF Describe, Device, MbrType, DiskType, Entry

LEMMA ScanTypes ==
  ASSUME NEW m \in MbrType, NEW table \in [Slots -> Device \cup {NoDevice}]
  PROVE  Scan(m, table) \in [Slots -> Device \cup {NoDevice}]
<1>1. ASSUME NEW s \in Slots
      PROVE  (IF \E p \in Found(m) : Cardinality(Ahead(m, p)) = s
              THEN Describe(m, CHOOSE p \in Found(m) : Cardinality(Ahead(m, p)) = s)
              ELSE table[s]) \in Device \cup {NoDevice}
  <2>1. CASE \E p \in Found(m) : Cardinality(Ahead(m, p)) = s
    <3>1. (CHOOSE p \in Found(m) : Cardinality(Ahead(m, p)) = s) \in Found(m)
      BY <2>1
    <3>2. Found(m) \subseteq Disks \X Nums
      BY DEF Found
    <3> QED  BY <2>1, <3>1, <3>2, DescribeTypes
  <2>2. CASE ~\E p \in Found(m) : Cardinality(Ahead(m, p)) = s
    BY <2>2
  <2> QED  BY <2>1, <2>2
<1> QED  BY <1>1 DEF Scan

LEMMA RescanTypes ==
  ASSUME NEW m \in MbrType, NEW table \in [Slots -> Device \cup {NoDevice}], Rescan(m, table)
  PROVE  /\ partitions' \in [Slots -> Device \cup {NoDevice}]
         /\ part_count' \in Slots
BY ScanTypes, FoundFits DEF Rescan

-----------------------------------------------------------------------------
(* The partitions of a disk                                                  *)

(* An entry in use ends where its end can be told in a word.                 *)
NoWrap(m) ==
  \A d \in Disks, n \in Nums :
    LET e == m[d].parts[n] IN e.used => e.start > 0 /\ e.start + e.count < WORD

Apart(m) ==
  \A d \in Disks : \A n, k \in Nums :
    LET e == m[d].parts[n]
        f == m[d].parts[k]
    IN  e.used /\ n # k /\ f.used =>
          e.start + e.count <= f.start \/ f.start + f.count <= e.start

Sound(m) == m \in MbrType /\ NoWrap(m) /\ Apart(m)

PInv == PartTypeOK /\ Sound(mbr)

LEMMA ModSmall ==
  ASSUME NEW x \in Nat, NEW w \in Nat, x < w
  PROVE  x % w = x
OBVIOUS

LEMMA ProductIsNat ==
  ASSUME NEW x \in Nat, NEW y \in Nat
  PROVE  x * y \in Nat
OBVIOUS

LEMMA EndIsSum ==
  ASSUME NEW e \in Entry, e.start + e.count < WORD
  PROVE  End(e) = e.start + e.count
<1>1. e.start \in Nat /\ e.count \in Nat
  BY DEF Entry
<1>2. e.start + e.count \in Nat
  BY <1>1
<1> QED  BY <1>2, Constants, ModSmall DEF End

(* mkpart starts a partition at a sector behind the MBR.                     *)
LEMMA NextStartBehindMbr ==
  ASSUME PInv, NEW d \in Disks
  PROVE  NextStart(d) \in 1 .. WORD - 1
<1> DEFINE ends == {FIRST_LBA} \cup {End(e) : e \in UsedParts(d)}
<1>1. CASE ~mbr[d].sig
  BY <1>1, Constants DEF NextStart
<1>2. CASE mbr[d].sig
  <2>1. \A e \in UsedParts(d) : End(e) \in 0 .. WORD - 1
    <3> TAKE e \in UsedParts(d)
    <3>1. e \in Entry /\ e.start + e.count < WORD
      BY DEF UsedParts, PInv, Sound, NoWrap, MbrType, DiskType
    <3>2. End(e) = e.start + e.count /\ e.start \in Nat /\ e.count \in Nat
      BY <3>1, EndIsSum DEF Entry
    <3> QED  BY <3>1, <3>2, Constants
  <2>2. ends \in SUBSET (0 .. WORD - 1) /\ FIRST_LBA \in ends
    BY <2>1, Constants
  <2> HIDE DEF ends
  <2>3. WORD - 1 \in Nat
    BY Constants
  <2>4. \E m \in ends : \A k \in ends : m >= k
    BY <2>2, <2>3, GreatestExists
  <2>5. NextStart(d) = CHOOSE lba \in ends : \A x \in ends : lba >= x
    BY <1>2 DEF NextStart, ends
  <2>6. NextStart(d) \in ends /\ NextStart(d) >= FIRST_LBA
    BY <2>2, <2>4, <2>5
  <2>7. NextStart(d) \in 0 .. WORD - 1
    BY <2>2, <2>6
  <2> QED  BY <2>6, <2>7, Constants
<1> QED  BY <1>1, <1>2

(* What the test of create_mbr_partition lets through lies beside e.         *)
LEMMA NotOverlapping ==
  ASSUME NEW e \in Entry, e.start + e.count < WORD, NEW start \in Nat, NEW stop \in Nat,
         ~Overlaps(e, start, stop)
  PROVE  e.start + e.count <= start \/ stop <= e.start
<1>1. End(e) = e.start + e.count /\ e.start \in Nat /\ e.count \in Nat
  BY EndIsSum DEF Entry
<1> QED  BY <1>1 DEF Overlaps

LEMMA CreateSound ==
  ASSUME PInv, NEW d \in Disks, NEW n \in Nums, NEW mb \in Sizes,
         \A x \in Disks : LAST[x] < WORD,
         NextStart(d) + mb * MB <= LAST[d], CreatePartition(d, n, mb)
  PROVE  PInv'
<1> DEFINE start == NextStart(d)
           size  == (mb * MB) % WORD
           entry == [used |-> TRUE, start |-> start, count |-> size]
           m     == [mbr EXCEPT ![d] = [sig |-> TRUE, parts |-> [mbr[d].parts EXCEPT ![n] = entry]]]
           known == \E s \in Slots : s < part_count /\ partitions[s].parent = d
                                                    /\ partitions[s].start = start
           table == IF known THEN partitions
                    ELSE [partitions EXCEPT ![part_count] = Describe(m, <<d, n>>)]
<1>1. /\ \A e \in UsedParts(d) : ~Overlaps(e, start, (start + size) % WORD)
      /\ mbr' = m
      /\ Rescan(m, table)
  BY Zenon DEF CreatePartition
<1>2. /\ start \in Nat /\ start > 0 /\ mb * MB \in Nat /\ start + mb * MB < WORD
  <2>1. start \in 1 .. WORD - 1
    BY NextStartBehindMbr
  <2>2. mb * MB \in Nat
    <3>1. mb \in Nat /\ MB \in Nat
      BY Constants
    <3> QED  BY <3>1, ProductIsNat
  <2>3. LAST[d] \in Nat /\ LAST[d] < WORD
    BY Constants
  <2> HIDE DEF start
  <2>4. start + mb * MB <= LAST[d]
    BY DEF start
  <2> QED  BY <2>1, <2>2, <2>3, <2>4, Constants
<1>3. size = mb * MB
  BY <1>2, Constants, ModSmall
<1> HIDE DEF start, size
<1>4. /\ size \in Nat /\ start + size < WORD /\ (start + size) % WORD = start + size
  BY <1>2, <1>3, Constants, ModSmall
<1>5. entry \in Entry
  BY <1>2, <1>4, Constants DEF Entry
<1>6. mbr \in MbrType /\ NoWrap(mbr) /\ Apart(mbr) /\ PartTypeOK
  BY DEF PInv, Sound
<1>7. /\ entry.used /\ entry.start = start /\ entry.count = size
  OBVIOUS
<1> HIDE DEF entry
<1>8. m \in MbrType
  BY <1>5, <1>6 DEF MbrType, DiskType
<1>9. /\ m[d].parts[n] = entry
      /\ \A k \in Nums \ {n} : m[d].parts[k] = mbr[d].parts[k]
      /\ \A x \in Disks \ {d} : m[x] = mbr[x]
  BY <1>6 DEF MbrType, DiskType
<1>10. table \in [Slots -> Device \cup {NoDevice}]
  <2>1. Describe(m, <<d, n>>) \in Device
    BY <1>8, DescribeTypes
  <2> HIDE DEF m
  <2> QED  BY <2>1, <1>6 DEF PartTypeOK
<1> HIDE DEF m, table
<1>11. PartTypeOK'
  BY <1>1, <1>8, <1>10, RescanTypes DEF PartTypeOK, MbrType, DiskType, Entry
<1>12. NoWrap(m)
  BY <1>2, <1>4, <1>6, <1>7, <1>9 DEF NoWrap
<1>13. ASSUME NEW k \in Nums \ {n}, mbr[d].parts[k].used
       PROVE  \/ mbr[d].parts[k].start + mbr[d].parts[k].count <= start
              \/ start + size <= mbr[d].parts[k].start
  <2>1. mbr[d].parts[k] \in Entry
        /\ mbr[d].parts[k].start + mbr[d].parts[k].count < WORD
    BY <1>6, <1>13 DEF MbrType, DiskType, NoWrap
  <2>2. mbr[d].parts[k] \in UsedParts(d)
    BY <1>13 DEF UsedParts
  <2>3. ~Overlaps(mbr[d].parts[k], start, start + size)
    BY <1>1, <1>4, <2>2
  <2>4. start + size \in Nat
    BY <1>2, <1>4
  <2> QED  BY <1>2, <2>1, <2>3, <2>4, NotOverlapping
<1>14. Apart(m)
  BY <1>6, <1>7, <1>9, <1>13 DEF Apart
<1> QED  BY <1>1, <1>8, <1>11, <1>12, <1>14 DEF PInv, Sound

LEMMA DeleteSound ==
  ASSUME PInv, NEW d \in Disks, NEW n \in Nums, DeletePartition(d, n)
  PROVE  PInv'
<1> DEFINE m == [mbr EXCEPT ![d].parts[n] = Unused]
<1>1. mbr' = m /\ Rescan(m, partitions)
  BY Zenon DEF DeletePartition
<1>2. mbr \in MbrType /\ NoWrap(mbr) /\ Apart(mbr) /\ PartTypeOK
  BY DEF PInv, Sound
<1>3. m \in MbrType
  BY <1>2, UnusedIsEntry DEF MbrType, DiskType
<1>4. /\ m[d].parts[n] = Unused
      /\ \A k \in Nums \ {n} : m[d].parts[k] = mbr[d].parts[k]
      /\ \A x \in Disks \ {d} : m[x] = mbr[x]
  BY <1>2 DEF MbrType, DiskType
<1> HIDE DEF m
<1>5. PartTypeOK'
  BY <1>1, <1>2, <1>3, RescanTypes DEF PartTypeOK, MbrType, DiskType, Entry
<1>6. NoWrap(m)
  BY <1>2, <1>4, UnusedIsEntry DEF NoWrap
<1>7. Apart(m)
  BY <1>2, <1>4, UnusedIsEntry DEF Apart
<1> QED  BY <1>1, <1>3, <1>5, <1>6, <1>7 DEF PInv, Sound

LEMMA FormatSound ==
  ASSUME PInv, NEW d \in Disks, FormatDisk(d)
  PROVE  PInv'
<1>1. mbr \in MbrType /\ NoWrap(mbr) /\ Apart(mbr) /\ PartTypeOK
  BY DEF PInv, Sound
<1>2. mbr' = [mbr EXCEPT ![d] = Blank] /\ UNCHANGED <<partitions, part_count>>
  BY DEF FormatDisk
<1>3. mbr' \in MbrType
  BY <1>1, <1>2, UnusedIsEntry DEF MbrType
<1>4. /\ \A k \in Nums : ~mbr'[d].parts[k].used
      /\ \A x \in Disks \ {d} : mbr'[x] = mbr[x]
  BY <1>1, <1>2, UnusedIsEntry DEF MbrType, Blank
<1>5. PartTypeOK'
  BY <1>1, <1>2, <1>3 DEF PartTypeOK, MbrType, DiskType, Entry
<1>6. NoWrap(mbr') /\ Apart(mbr')
  BY <1>1, <1>4 DEF NoWrap, Apart
<1> QED  BY <1>3, <1>5, <1>6 DEF PInv, Sound

LEMMA RescanSound ==
  ASSUME PInv, mbr' = mbr, Rescan(mbr, [s \in Slots |-> NoDevice])
  PROVE  PInv'
<1>1. [s \in Slots |-> NoDevice] \in [Slots -> Device \cup {NoDevice}]
  OBVIOUS
<1>2. mbr \in MbrType
  BY DEF PInv, Sound
<1>3. PartTypeOK'
  BY <1>1, <1>2, RescanTypes DEF PInv, PartTypeOK
<1> QED  BY <1>3 DEF PInv

LEMMA InitSound == PartInit => PInv
<1> SUFFICES ASSUME NEW mb \in RootSizes,
                    mbr = InitialMbr(mb),
                    partitions = Scan(mbr, [s \in Slots |-> NoDevice]),
                    part_count = Cardinality(Found(mbr))
             PROVE  PInv
  BY DEF PartInit
<1> DEFINE first == [used |-> TRUE, start |-> FIRST_LBA, count |-> mb * MB]
<1>1. mb * MB \in Nat /\ FIRST_LBA + mb * MB < WORD
  <2>1. mb \in Nat /\ MB \in Nat
    BY Constants
  <2> QED  BY <2>1, ProductIsNat, PartitionsAssumption
<1>2. first \in Entry /\ first.start > 0 /\ first.start + first.count < WORD
  BY <1>1, Constants DEF Entry
<1> HIDE DEF first
<1>3. \A d \in Disks :
        mbr[d] = IF d = 1 /\ mb > 0
                 THEN [sig |-> TRUE, parts |-> [n \in Nums |-> IF n = 1 THEN first ELSE Unused]]
                 ELSE Blank
  BY DEF InitialMbr, first
<1>4. \A d \in Disks : mbr[d] \in DiskType
  <2>1. [n \in Nums |-> IF n = 1 THEN first ELSE Unused] \in [Nums -> Entry]
    BY <1>2, UnusedIsEntry
  <2>2. [sig |-> TRUE, parts |-> [n \in Nums |-> IF n = 1 THEN first ELSE Unused]] \in DiskType
    BY <2>1 DEF DiskType
  <2> QED  BY <1>3, <2>2, UnusedIsEntry
<1>5. mbr \in MbrType
  BY <1>4 DEF MbrType, InitialMbr
<1>6. \A d \in Disks, n \in Nums : mbr[d].parts[n].used => mbr[d].parts[n] = first /\ n = 1
  <2> TAKE d \in Disks, n \in Nums
  <2>1. CASE d = 1 /\ mb > 0
    <3>1. mbr[d].parts = [k \in Nums |-> IF k = 1 THEN first ELSE Unused]
      <4>1. mbr[d] = [sig |-> TRUE, parts |-> [k \in Nums |-> IF k = 1 THEN first ELSE Unused]]
        BY <1>3, <2>1
      <4> QED  BY <4>1
    <3> QED  BY <3>1, UnusedIsEntry
  <2>2. CASE ~(d = 1 /\ mb > 0)
    <3>1. mbr[d].parts = [k \in Nums |-> Unused]
      <4>1. mbr[d] = Blank
        BY <1>3, <2>2
      <4> QED  BY <4>1 DEF Blank
    <3> QED  BY <3>1, UnusedIsEntry
  <2> QED  BY <2>1, <2>2
<1>7. NoWrap(mbr) /\ Apart(mbr)
  BY <1>2, <1>6 DEF NoWrap, Apart
<1>8. [s \in Slots |-> NoDevice] \in [Slots -> Device \cup {NoDevice}]
  OBVIOUS
<1>9. PartTypeOK
  BY <1>5, <1>8, ScanTypes, FoundFits DEF PartTypeOK, MbrType, DiskType, Entry
<1> QED  BY <1>5, <1>7, <1>9 DEF PInv, Sound

LEMMA StepSound ==
  ASSUME \A x \in Disks : LAST[x] < WORD, PInv, [Next]_vars
  PROVE  PInv'
<1>1. CASE UNCHANGED partVars
  BY <1>1 DEF partVars, PInv, PartTypeOK
<1>2. ASSUME NEW d \in Disks, NEW n \in Nums, NEW mb \in Sizes,
             NextStart(d) + mb * MB <= LAST[d], CreatePartition(d, n, mb)
      PROVE  PInv'
  BY <1>2, CreateSound
<1>3. ASSUME NEW d \in Disks, NEW n \in Nums, DeletePartition(d, n)  PROVE PInv'
  BY <1>3, DeleteSound
<1>4. ASSUME NEW d \in Disks, FormatWhole(d)  PROVE PInv'
  BY <1>1, <1>4, FormatSound DEF FormatWhole
<1>5. CASE Reboot
  BY <1>5, RescanSound DEF Reboot
<1>6. ASSUME NEW d \in Disks, NEW n \in Nums, NEW path, Mount(d, n, path)  PROVE PInv'
  BY <1>1, <1>6 DEF Mount
<1>7. ASSUME NEW path, Umount(path)  PROVE PInv'
  BY <1>1, <1>7 DEF Umount
<1>8. ASSUME NEW p, Cd(p)  PROVE PInv'
  BY <1>1, <1>8 DEF Cd
<1>9. CASE CdUp
  BY <1>1, <1>9 DEF CdUp
<1>10. ASSUME NEW d \in Disks, NEW n \in Nums, Format(d, n)  PROVE PInv'
  BY <1>1, <1>10 DEF Format
<1>11. CASE UNCHANGED vars
  BY <1>1, <1>11 DEF vars
<1> QED  BY <1>2, <1>3, <1>4, <1>5, <1>6, <1>7, <1>8, <1>9, <1>10, <1>11 DEF Next

(* No two partitions of a disk share a sector and none holds the MBR, over   *)
(* mkpart, delpart, format and restarts in any order, as long as the sizes   *)
(* given to mkpart end before sector numbers wrap.                           *)
THEOREM PartitionsStayApart ==
  ASSUME \A d \in Disks : LAST[d] < WORD
  PROVE  Spec => []PartitionsApart
<1>1. Init => PInv
  BY InitSound DEF Init
<1>2. PInv /\ [Next]_vars => PInv'
  BY StepSound
<1>3. PInv => PartitionsApart
  BY DEF PInv, Sound, NoWrap, Apart, PartitionsApart
<1> QED  BY <1>1, <1>2, <1>3, PTL DEF Spec

-----------------------------------------------------------------------------
(* The mount table                                                           *)

PlaceType == [disk : 0 .. DISKS, lba : 0 .. WORD - 1]
Instance  == [dev : Slots \cup {NoSlot}, asked : PlaceType]
MountRow  == [path : Seq(STRING), fs : Nat]

(* The tables are sequences, and the root stays in the first row.            *)
Tables ==
  /\ instances \in Seq(Instance)
  /\ vfs_mounts \in Seq(MountRow)
  /\ vfs_mounts # <<>> /\ vfs_mounts[1].path = <<>>

VInv == PInv /\ TypeOK /\ Tables /\ CurrentIsMounted

LEMMA Elements ==
  ASSUME NEW S, NEW seq \in Seq(S)
  PROVE  /\ Len(seq) \in Nat /\ DOMAIN seq = 1 .. Len(seq)
         /\ \A k \in DOMAIN seq : seq[k] \in S /\ k \in Nat
OBVIOUS

LEMMA PlaceTypes ==
  ASSUME PartTypeOK, NEW s \in Slots
  PROVE  Place(s) \in PlaceType /\ Reached(s) \in PlaceType
<1>1. partitions[s] \in Device \cup {NoDevice}
  BY DEF PartTypeOK
<1>2. partitions[s].parent \in 0 .. DISKS /\ partitions[s].start \in 0 .. WORD - 1
  BY <1>1, Constants DEF Device, NoDevice, Disks
<1>3. RAM \in PlaceType
  BY Constants DEF RAM, PlaceType
<1> QED  BY <1>2, <1>3 DEF Place, Reached, PlaceType

LEMMA RootTypes ==
  ASSUME NEW m \in MbrType
  PROVE  /\ RootPlace(m) \in PlaceType
         /\ RootFs(m) \in Instance
<1>1. RAM \in PlaceType /\ 0 \in Slots
  BY Constants DEF RAM, PlaceType, Slots
<1>2. RootPlace(m) \in PlaceType
  <2>1. CASE HasRoot(m)
    <3>1. 1 \in Disks /\ 1 \in Nums
      BY Constants DEF Disks, Nums
    <3>2. m[1].parts[1].start \in 0 .. WORD - 1 /\ 1 \in 0 .. DISKS
      BY <3>1, Constants DEF MbrType, DiskType, Entry, Disks
    <3> QED  BY <2>1, <3>2 DEF RootPlace, PlaceType
  <2>2. CASE ~HasRoot(m)
    BY <1>1, <2>2 DEF RootPlace
  <2> QED  BY <2>1, <2>2
<1> QED  BY <1>1, <1>2 DEF RootFs, Instance

(* What fs_init sets up. *)
RootOnly(m, fss, mounts) ==
  fss = <<RootFs(m)>> /\ mounts = <<[path |-> <<>>, fs |-> 1]>>

LEMMA RootOnlyTables ==
  ASSUME NEW m \in MbrType, NEW fss, NEW mounts, RootOnly(m, fss, mounts)
  PROVE  /\ fss \in Seq(Instance) /\ DOMAIN fss = {1}
         /\ mounts \in Seq(MountRow) /\ DOMAIN mounts = {1}
         /\ mounts # <<>> /\ mounts[1].path = <<>> /\ mounts[1].fs = 1
         /\ Len(fss) \in 1 .. MAX_MOUNTS /\ Len(mounts) \in 1 .. MAX_MOUNTS
         /\ \A k \in DOMAIN fss : fss[k].dev \in Slots \cup {NoSlot}
<1>1. RootFs(m) \in Instance
  BY RootTypes
<1>2. fss \in Seq(Instance) /\ Len(fss) = 1 /\ fss[1] = RootFs(m) /\ DOMAIN fss = {1}
  BY <1>1 DEF RootOnly
<1>3. [path |-> <<>>, fs |-> 1] \in MountRow
  BY DEF MountRow
<1>4. /\ mounts \in Seq(MountRow) /\ Len(mounts) = 1 /\ DOMAIN mounts = {1}
      /\ mounts # <<>> /\ mounts[1].path = <<>> /\ mounts[1].fs = 1
  BY <1>3 DEF RootOnly
<1>5. 1 \in 1 .. MAX_MOUNTS
  BY VolumesAssumption
<1>6. RootFs(m).dev \in Slots \cup {NoSlot}
  BY <1>1 DEF Instance
<1> QED  BY <1>2, <1>4, <1>5, <1>6

LEMMA InitTables == Init => VInv
<1> SUFFICES ASSUME Init  PROVE VInv
  OBVIOUS
<1>1. PInv /\ mbr \in MbrType
  BY InitSound DEF Init, PInv, Sound
<1>2. RootOnly(mbr, instances, vfs_mounts) /\ current_fs = 1
  BY DEF Init, RootOnly
<1>3. superblock \subseteq PlaceType /\ ram_mode \in BOOLEAN
  BY <1>1, RootTypes DEF Init
<1>4. /\ instances \in Seq(Instance) /\ DOMAIN instances = {1}
      /\ vfs_mounts \in Seq(MountRow) /\ DOMAIN vfs_mounts = {1}
      /\ vfs_mounts # <<>> /\ vfs_mounts[1].path = <<>> /\ vfs_mounts[1].fs = 1
      /\ Len(instances) \in 1 .. MAX_MOUNTS /\ Len(vfs_mounts) \in 1 .. MAX_MOUNTS
      /\ \A k \in DOMAIN instances : instances[k].dev \in Slots \cup {NoSlot}
  BY <1>1, <1>2, RootOnlyTables
<1>5. Mounted = {1}
  BY <1>4 DEF Mounted
<1>6. Tables /\ CurrentIsMounted
  BY <1>2, <1>4, <1>5 DEF Tables, CurrentIsMounted
<1> QED  BY <1>1, <1>2, <1>3, <1>4, <1>5, <1>6 DEF VInv, TypeOK, PInv, PlaceType

(* Wherever a path leads, there is a mounted instance.                       *)
LEMMA ResolveIsMounted ==
  ASSUME VInv, NEW p \in Paths
  PROVE  Resolve(p).fs \in Mounted
<1> DEFINE hits == {i \in DOMAIN vfs_mounts :
                      vfs_mounts[i].path # <<>> /\ IsPrefix(vfs_mounts[i].path, p.toks)}
           lens == {Len(vfs_mounts[i].path) : i \in hits}
           Best(i) == \A k \in hits :
                        \/ Len(vfs_mounts[k].path) < Len(vfs_mounts[i].path)
                        \/ Len(vfs_mounts[k].path) = Len(vfs_mounts[i].path) /\ i <= k
           best == CHOOSE i \in hits : Best(i)
<1>1. /\ vfs_mounts \in Seq(MountRow) /\ 1 \in DOMAIN vfs_mounts
      /\ p.toks \in Seq(STRING)
  BY VolumesAssumption DEF VInv, Tables
<1>2. \A i \in DOMAIN vfs_mounts : vfs_mounts[i].path \in Seq(STRING) /\ i \in Nat
  <2>1. \A i \in DOMAIN vfs_mounts : vfs_mounts[i] \in MountRow /\ i \in Nat
    BY <1>1, Elements
  <2>2. \A row \in MountRow : row.path \in Seq(STRING)
    BY DEF MountRow
  <2> QED  BY <2>1, <2>2
<1>3. \A i \in hits : /\ Len(vfs_mounts[i].path) \in 0 .. Len(p.toks)
                      /\ i \in DOMAIN vfs_mounts
  BY <1>1, <1>2 DEF IsPrefix
<1> HIDE DEF hits
<1>4. ASSUME hits # {}  PROVE best \in hits
  <2>1. lens \in SUBSET (0 .. Len(p.toks)) /\ lens # {} /\ Len(p.toks) \in Nat
    <3>1. PICK i \in hits : TRUE
      BY <1>4
    <3>2. Len(vfs_mounts[i].path) \in lens
      BY <3>1
    <3>3. lens \subseteq 0 .. Len(p.toks)
      BY <1>3
    <3>4. Len(p.toks) \in Nat
      BY <1>1, Elements
    <3> QED  BY <3>2, <3>3, <3>4
  <2> HIDE DEF lens
  <2>2. PICK top \in lens : \A x \in lens : top >= x
    BY <2>1, GreatestExists
  <2> DEFINE firsts == {i \in hits : Len(vfs_mounts[i].path) = top}
  <2>3. firsts \in SUBSET Nat /\ firsts # {}
    BY <1>2, <1>3, <2>2 DEF lens
  <2> HIDE DEF firsts
  <2>4. PICK i \in firsts : \A k \in firsts : i <= k
    BY <2>3, LeastExists
  <2>5. i \in hits /\ Len(vfs_mounts[i].path) = top
    BY <2>4 DEF firsts
  <2>6. ASSUME NEW k \in hits
        PROVE  \/ Len(vfs_mounts[k].path) < Len(vfs_mounts[i].path)
               \/ Len(vfs_mounts[k].path) = Len(vfs_mounts[i].path) /\ i <= k
    <3>1. Len(vfs_mounts[k].path) \in lens
      BY DEF lens
    <3>2. Len(vfs_mounts[k].path) \in 0 .. Len(p.toks) /\ top \in 0 .. Len(p.toks)
      BY <1>3, <2>1
    <3>3. Len(vfs_mounts[k].path) = top => k \in firsts
      BY DEF firsts
    <3> QED  BY <2>2, <2>4, <2>5, <3>1, <3>2, <3>3
  <2> QED  BY <2>5, <2>6
<1>5. \A i \in DOMAIN vfs_mounts : vfs_mounts[i].fs \in Mounted
  BY DEF Mounted
<1>6. Resolve(p) = CASE ~p.abs -> [fs |-> current_fs, rel |-> p]
                     [] p.abs /\ hits = {} -> [fs |-> vfs_mounts[1].fs, rel |-> p]
                     [] OTHER -> [fs |-> vfs_mounts[best].fs,
                          rel |-> [abs |-> TRUE,
                                   toks |-> SubSeq(p.toks, Len(vfs_mounts[best].path) + 1,
                                                   Len(p.toks))]]
  BY Zenon DEF Resolve, hits
<1> HIDE DEF best
<1>7. CASE ~p.abs
  BY <1>6, <1>7 DEF VInv, CurrentIsMounted
<1>8. CASE p.abs /\ hits = {}
  BY <1>1, <1>5, <1>6, <1>8
<1>9. CASE p.abs /\ hits # {}
  <2>1. Resolve(p).fs = vfs_mounts[best].fs
    BY <1>6, <1>9
  <2> QED  BY <1>3, <1>4, <1>5, <1>9, <2>1
<1> QED  BY <1>7, <1>8, <1>9

(* umount takes one row out, never the root's nor the current one's.         *)
LEMMA UmountTables ==
  ASSUME VInv, NEW path, Umount(path)
  PROVE  /\ Tables' /\ CurrentIsMounted'
         /\ Len(vfs_mounts') \in 1 .. MAX_MOUNTS /\ Mounted' \subseteq Mounted
<1>1. PICK i \in DOMAIN vfs_mounts :
        /\ path # <<>> /\ vfs_mounts[i].path = path
        /\ current_fs # vfs_mounts[i].fs
        /\ vfs_mounts' = RemoveAt(vfs_mounts, i)
        /\ UNCHANGED <<partVars, ram_mode, superblock, instances, current_fs>>
  BY Zenon DEF Umount
<1> DEFINE n == Len(vfs_mounts)
<1>2. /\ vfs_mounts \in Seq(MountRow) /\ n \in Nat /\ i \in 1 .. n
      /\ vfs_mounts[1].path = <<>> /\ n \in 1 .. MAX_MOUNTS
      /\ instances \in Seq(Instance) /\ current_fs \in Mounted
  BY DEF VInv, Tables, TypeOK, CurrentIsMounted
<1>3. i # 1
  BY <1>1, <1>2
<1>4. /\ vfs_mounts' \in Seq(MountRow) /\ Len(vfs_mounts') = n - 1
      /\ \A k \in 1 .. n - 1 : vfs_mounts'[k] = IF k < i THEN vfs_mounts[k] ELSE vfs_mounts[k + 1]
  <2>1. /\ SubSeq(vfs_mounts, 1, i - 1) \in Seq(MountRow)
        /\ Len(SubSeq(vfs_mounts, 1, i - 1)) = i - 1
        /\ \A k \in 1 .. i - 1 : SubSeq(vfs_mounts, 1, i - 1)[k] = vfs_mounts[k]
    BY <1>2
  <2>2. /\ SubSeq(vfs_mounts, i + 1, n) \in Seq(MountRow)
        /\ Len(SubSeq(vfs_mounts, i + 1, n)) = n - i
        /\ \A k \in 1 .. n - i : SubSeq(vfs_mounts, i + 1, n)[k] = vfs_mounts[i + k]
    BY <1>2
  <2>3. vfs_mounts' = SubSeq(vfs_mounts, 1, i - 1) \o SubSeq(vfs_mounts, i + 1, n)
    BY <1>1 DEF RemoveAt
  <2> DEFINE l == SubSeq(vfs_mounts, 1, i - 1)
             r == SubSeq(vfs_mounts, i + 1, n)
  <2>4. l \in Seq(MountRow) /\ Len(l) = i - 1 /\ \A k \in 1 .. i - 1 : l[k] = vfs_mounts[k]
    BY <2>1
  <2>5. r \in Seq(MountRow) /\ Len(r) = n - i /\ \A k \in 1 .. n - i : r[k] = vfs_mounts[i + k]
    BY <2>2
  <2>6. vfs_mounts' = l \o r
    BY <2>3
  <2> HIDE DEF l, r
  <2>7. vfs_mounts' \in Seq(MountRow) /\ Len(vfs_mounts') = n - 1
    BY <1>2, <2>4, <2>5, <2>6
  <2>8. ASSUME NEW k \in 1 .. n - 1
        PROVE  vfs_mounts'[k] = IF k < i THEN vfs_mounts[k] ELSE vfs_mounts[k + 1]
    <3>1. (l \o r)[k] = IF k <= Len(l) THEN l[k] ELSE r[k - Len(l)]
      <4>1. k \in 1 .. Len(l) + Len(r)
        BY <1>2, <2>4, <2>5
      <4> QED  BY <2>4, <2>5, <4>1, ConcatProperties
    <3>2. CASE k < i
      <4>1. k \in 1 .. i - 1 /\ k <= i - 1
        BY <1>2, <3>2
      <4> QED  BY <2>4, <2>6, <3>1, <3>2, <4>1
    <3>3. CASE ~(k < i)
      <4>1. k - (i - 1) \in 1 .. n - i /\ i + (k - (i - 1)) = k + 1 /\ ~(k <= i - 1)
        BY <1>2, <3>3
      <4> QED  BY <2>4, <2>5, <2>6, <3>1, <3>3, <4>1
    <3> QED  BY <3>2, <3>3
  <2> QED  BY <2>7, <2>8
<1>5. n > 1
  BY <1>2, <1>3
<1>6. vfs_mounts'[1] = vfs_mounts[1]
  BY <1>2, <1>3, <1>4, <1>5
<1>7. Tables'
  BY <1>1, <1>2, <1>4, <1>5, <1>6 DEF Tables
<1>8. DOMAIN vfs_mounts' = 1 .. n - 1 /\ DOMAIN vfs_mounts = 1 .. n
  BY <1>2, <1>4
<1>9. CurrentIsMounted'
  <2>1. PICK c \in 1 .. n : vfs_mounts[c].fs = current_fs
    BY <1>2, <1>8 DEF Mounted
  <2>2. c # i
    BY <1>1, <2>1
  <2>3. PICK k \in 1 .. n - 1 : vfs_mounts'[k] = vfs_mounts[c]
    <3>1. CASE c < i
      BY <1>2, <1>4, <2>1, <3>1
    <3>2. CASE c > i
      <4>1. c - 1 \in 1 .. n - 1 /\ ~(c - 1 < i) /\ (c - 1) + 1 = c
        BY <1>2, <2>1, <3>2
      <4> QED  BY <1>4, <4>1
    <3> QED  BY <1>2, <2>1, <2>2, <3>1, <3>2
  <2>4. vfs_mounts'[k].fs = current_fs'
    BY <1>1, <2>1, <2>3
  <2> QED  BY <1>8, <2>4 DEF CurrentIsMounted, Mounted
<1>10. Mounted' \subseteq Mounted
  <2>1. \A k \in 1 .. n - 1 : \E j \in 1 .. n : vfs_mounts'[k] = vfs_mounts[j]
    BY <1>2, <1>4
  <2> QED  BY <1>8, <2>1 DEF Mounted
<1>11. Len(vfs_mounts') \in 1 .. MAX_MOUNTS
  <2>1. MAX_MOUNTS \in Nat
    BY VolumesAssumption
  <2>2. n \in Nat /\ n > 1 /\ n <= MAX_MOUNTS
    BY <1>2, <1>5, <2>1
  <2> HIDE DEF n
  <2>3. n - 1 \in 1 .. MAX_MOUNTS
    BY <2>1, <2>2
  <2> QED  BY <1>4, <2>3 DEF n
<1> QED  BY <1>7, <1>9, <1>10, <1>11

LEMMA MountTables ==
  ASSUME VInv, NEW d \in Disks, NEW n \in Nums, NEW path \in MountPoints, Mount(d, n, path)
  PROVE  VInv'
<1>1. PICK s \in Named(d, n) :
        /\ FormatIfNew(s)
        /\ \/ /\ Len(vfs_mounts) < MAX_MOUNTS /\ Len(instances) < MAX_MOUNTS
              /\ instances' = Append(instances, [dev |-> s, asked |-> Place(s)])
              /\ vfs_mounts' = Append(vfs_mounts, [path |-> path, fs |-> Len(instances')])
           \/ UNCHANGED <<instances, vfs_mounts>>
        /\ UNCHANGED <<partVars, ram_mode, current_fs>>
  BY Zenon DEF Mount
<1>2. s \in Slots /\ path \in Seq(STRING)
  BY VolumesAssumption DEF Named
<1>3. PInv' /\ PartTypeOK'
  BY <1>1 DEF VInv, PInv, partVars, PartTypeOK
<1>4. superblock' \subseteq PlaceType
  BY <1>1, <1>2, PlaceTypes DEF FormatIfNew, VInv, TypeOK, PlaceType
<1>5. CASE UNCHANGED <<instances, vfs_mounts>>
  BY <1>1, <1>3, <1>4, <1>5
     DEF VInv, TypeOK, Tables, CurrentIsMounted, Mounted, PlaceType
<1>6. CASE /\ Len(vfs_mounts) < MAX_MOUNTS /\ Len(instances) < MAX_MOUNTS
           /\ instances' = Append(instances, [dev |-> s, asked |-> Place(s)])
           /\ vfs_mounts' = Append(vfs_mounts, [path |-> path, fs |-> Len(instances')])
  <2> DEFINE a == Len(instances)
             b == Len(vfs_mounts)
  <2>1. /\ instances \in Seq(Instance) /\ a \in Nat /\ a >= 1
        /\ vfs_mounts \in Seq(MountRow) /\ b \in Nat /\ b >= 1 /\ MAX_MOUNTS \in Nat
        /\ Mounted \subseteq 1 .. a /\ vfs_mounts[1].path = <<>>
    BY VolumesAssumption DEF VInv, TypeOK, Tables
  <2>2. [dev |-> s, asked |-> Place(s)] \in Instance
    BY <1>2, PlaceTypes DEF Instance, VInv, TypeOK
  <2>3. /\ instances' \in Seq(Instance) /\ Len(instances') = a + 1
        /\ DOMAIN instances' = 1 .. a + 1
    BY <1>6, <2>1, <2>2
  <2>4. [path |-> path, fs |-> Len(instances')] \in MountRow
    BY <1>2, <2>1, <2>3 DEF MountRow
  <2>5. /\ vfs_mounts' \in Seq(MountRow) /\ Len(vfs_mounts') = b + 1
        /\ \A k \in 1 .. b : vfs_mounts'[k] = vfs_mounts[k]
        /\ vfs_mounts'[b + 1].fs = a + 1
        /\ DOMAIN vfs_mounts' = 1 .. b + 1 /\ DOMAIN vfs_mounts = 1 .. b
    BY <1>6, <2>1, <2>3, <2>4
  <2>6. Mounted' = Mounted \cup {a + 1}
    BY <2>1, <2>5 DEF Mounted
  <2>7. Tables'
    BY <2>1, <2>3, <2>5 DEF Tables
  <2>8. CurrentIsMounted'
    BY <1>1, <2>6 DEF CurrentIsMounted, VInv
  <2>9. \A k \in DOMAIN instances' : instances'[k].dev \in Slots \cup {NoSlot}
    <3>1. \A k \in DOMAIN instances' : instances'[k] \in Instance
      BY <2>3, Elements
    <3>2. \A fs \in Instance : fs.dev \in Slots \cup {NoSlot}
      BY DEF Instance
    <3> QED  BY <3>1, <3>2
  <2>10. Len(instances') \in 1 .. MAX_MOUNTS /\ Len(vfs_mounts') \in 1 .. MAX_MOUNTS
    BY <1>6, <2>1, <2>3, <2>5
  <2>11. Mounted' \subseteq DOMAIN instances' /\ current_fs' \in DOMAIN instances'
    <3> HIDE DEF a
    <3>1. Mounted' \subseteq 1 .. a + 1
      <4>1. \A k \in 1 .. a : k \in 1 .. a + 1
        BY <2>1
      <4>2. a + 1 \in 1 .. a + 1
        BY <2>1
      <4> QED  BY <2>1, <2>6, <4>1, <4>2
    <3>2. current_fs' \in Mounted'
      BY <2>8 DEF CurrentIsMounted
    <3> QED  BY <2>3, <3>1, <3>2
  <2> QED  BY <1>1, <1>3, <1>4, <2>7, <2>8, <2>9, <2>10, <2>11 DEF VInv, TypeOK, PlaceType
<1> QED  BY <1>1, <1>5, <1>6

LEMMA StepTables ==
  ASSUME \A x \in Disks : LAST[x] < WORD, VInv, [Next]_vars
  PROVE  VInv'
<1>1. PInv' /\ PartTypeOK'
  BY StepSound DEF VInv, PInv
<1>2. ASSUME UNCHANGED <<ram_mode, instances, vfs_mounts>>, superblock' \subseteq PlaceType,
             current_fs' \in Mounted
      PROVE  VInv'
  BY <1>1, <1>2 DEF VInv, TypeOK, Tables, CurrentIsMounted, Mounted, PlaceType
<1>3. superblock \subseteq PlaceType /\ current_fs \in Mounted
  BY DEF VInv, TypeOK, CurrentIsMounted, PlaceType
<1>4. ASSUME NEW p \in Paths, Cd(p)  PROVE VInv'
  BY <1>2, <1>3, <1>4, ResolveIsMounted DEF Cd
<1>5. CASE CdUp
  <2>1. vfs_mounts[1].fs \in Mounted
    <3>1. 1 \in DOMAIN vfs_mounts
      BY DEF VInv, Tables
    <3> QED  BY <3>1 DEF Mounted
  <2> QED  BY <1>2, <1>3, <1>5, <2>1 DEF CdUp
<1>6. ASSUME NEW path, Umount(path)  PROVE VInv'
  <2>1. UNCHANGED <<ram_mode, superblock, instances, current_fs>>
    BY <1>6 DEF Umount
  <2>2. /\ Tables' /\ CurrentIsMounted'
        /\ Len(vfs_mounts') \in 1 .. MAX_MOUNTS /\ Mounted' \subseteq Mounted
    BY <1>6, UmountTables
  <2> QED  BY <1>1, <2>1, <2>2 DEF VInv, TypeOK
<1>7. ASSUME UNCHANGED volVars  PROVE VInv'
  BY <1>2, <1>3, <1>7 DEF volVars
<1>8. ASSUME NEW d \in Disks, NEW n \in Nums, Format(d, n)  PROVE VInv'
  <2>1. \A s \in Named(d, n) : Reached(s) \in PlaceType
    BY PlaceTypes DEF Named, VInv, TypeOK
  <2> QED  BY <1>2, <1>3, <1>8, <2>1 DEF Format
<1>9. ASSUME NEW d \in Disks, FormatWhole(d)  PROVE VInv'
  <2>1. [disk |-> d, lba |-> 0] \in PlaceType
    BY Constants DEF PlaceType, Disks
  <2> QED  BY <1>2, <1>3, <1>9, <2>1 DEF FormatWhole
<1>10. CASE Reboot
  <2>1. mbr \in MbrType /\ mbr' = mbr
    BY <1>10 DEF Reboot, VInv, PInv, Sound
  <2>2. superblock' \subseteq PlaceType /\ ram_mode' \in BOOLEAN
    BY <1>3, <1>10, <2>1, RootTypes DEF Reboot
  <2>3. RootOnly(mbr, instances', vfs_mounts') /\ current_fs' = 1
    BY <1>10 DEF Reboot, RootOnly
  <2>4. /\ instances' \in Seq(Instance) /\ DOMAIN instances' = {1}
        /\ vfs_mounts' \in Seq(MountRow) /\ DOMAIN vfs_mounts' = {1}
        /\ vfs_mounts' # <<>> /\ vfs_mounts'[1].path = <<>> /\ vfs_mounts'[1].fs = 1
        /\ Len(instances') \in 1 .. MAX_MOUNTS /\ Len(vfs_mounts') \in 1 .. MAX_MOUNTS
        /\ \A k \in DOMAIN instances' : instances'[k].dev \in Slots \cup {NoSlot}
    BY <2>1, <2>3, RootOnlyTables
  <2>5. Mounted' = {1}
    BY <2>4 DEF Mounted
  <2>6. Tables' /\ CurrentIsMounted'
    BY <2>3, <2>4, <2>5 DEF Tables, CurrentIsMounted
  <2> QED  BY <1>1, <2>2, <2>3, <2>4, <2>5, <2>6 DEF VInv, TypeOK, PlaceType
<1>11. ASSUME NEW d \in Disks, NEW n \in Nums, NEW path \in MountPoints, Mount(d, n, path)
       PROVE  VInv'
  BY <1>11, MountTables
<1>12. CASE UNCHANGED vars
  BY <1>7, <1>12 DEF vars
<1> QED  BY <1>4, <1>5, <1>6, <1>7, <1>8, <1>9, <1>10, <1>11, <1>12 DEF Next

(* Devices, mounts and instances stay within their tables, and each row of   *)
(* the mount table names an instance.                                        *)
THEOREM VolumesTypeCorrect ==
  ASSUME \A d \in Disks : LAST[d] < WORD
  PROVE  Spec => []TypeOK
<1>1. VInv /\ [Next]_vars => VInv'
  BY StepTables
<1>2. VInv => TypeOK
  BY DEF VInv
<1> QED  BY InitTables, <1>1, <1>2, PTL DEF Spec

(* The prompt's file system is always one of the mounted ones, whatever is   *)
(* mounted, unmounted and repartitioned.                                     *)
THEOREM CurrentStaysMounted ==
  ASSUME \A d \in Disks : LAST[d] < WORD
  PROVE  Spec => []CurrentIsMounted
<1>1. VInv /\ [Next]_vars => VInv'
  BY StepTables
<1>2. VInv => CurrentIsMounted
  BY DEF VInv
<1> QED  BY InitTables, <1>1, <1>2, PTL DEF Spec

-----------------------------------------------------------------------------
(* The table of partition devices and the disks                              *)

Rank(m, p) == Cardinality(Ahead(m, p))

(* A scan numbers the partitions it finds from 0 up, each once.              *)
LEMMA RanksAreSlots ==
  ASSUME NEW m
  PROVE  /\ \A p \in Found(m) : Rank(m, p) \in 0 .. Cardinality(Found(m)) - 1
         /\ \A p, q \in Found(m) : Rank(m, p) = Rank(m, q) => p = q
         /\ \A s \in 0 .. Cardinality(Found(m)) - 1 : \E p \in Found(m) : Rank(m, p) = s
<1> DEFINE F == Found(m)
           N == Cardinality(F)
           T == 0 .. N - 1
           before(p, q) == p[1] < q[1] \/ (p[1] = q[1] /\ p[2] < q[2])
<1>1. IsFiniteSet(F) /\ N \in Nat
  <2>1. IsFiniteSet(Disks \X Nums)
    <3>1. IsFiniteSet(Disks) /\ IsFiniteSet(Nums)
      BY Constants, FS_Interval DEF Disks, Nums
    <3> QED  BY <3>1, FS_Product
  <2>2. F \in SUBSET (Disks \X Nums)
    BY DEF Found
  <2> QED  BY <2>1, <2>2, FS_Subset, FS_CardinalityType
<1>2. /\ \A p \in F : p = <<p[1], p[2]>> /\ p[1] \in Int /\ p[2] \in Int
      /\ \A p \in F : Ahead(m, p) = {q \in F : before(q, p)}
  BY Constants DEF Found, Ahead, Disks, Nums
<1> HIDE DEF F
<1>3. ASSUME NEW p \in F
      PROVE  Ahead(m, p) \in SUBSET F /\ p \notin Ahead(m, p)
             /\ IsFiniteSet(Ahead(m, p)) /\ Rank(m, p) \in T
  <2>1. Ahead(m, p) \in SUBSET F /\ p \notin Ahead(m, p)
    BY <1>2
  <2>2. /\ IsFiniteSet(Ahead(m, p)) /\ Cardinality(Ahead(m, p)) <= N
        /\ Cardinality(Ahead(m, p)) \in Nat
        /\ Cardinality(Ahead(m, p)) = N => Ahead(m, p) = F
    BY <1>1, <2>1, FS_Subset, FS_CardinalityType
  <2>3. Cardinality(Ahead(m, p)) # N
    BY <2>1, <2>2
  <2> QED  BY <1>1, <2>1, <2>2, <2>3 DEF Rank
<1>4. ASSUME NEW p \in F, NEW q \in F, before(p, q)
      PROVE  Rank(m, p) # Rank(m, q)
  <2>1. Ahead(m, p) \in SUBSET Ahead(m, q)
    BY <1>2, <1>4
  <2>2. p \in Ahead(m, q) /\ p \notin Ahead(m, p)
    BY <1>2, <1>3, <1>4
  <2>3. IsFiniteSet(Ahead(m, q))
    BY <1>3
  <2>4. Cardinality(Ahead(m, p)) = Cardinality(Ahead(m, q)) => Ahead(m, p) = Ahead(m, q)
    BY <2>1, <2>3, FS_Subset
  <2> QED  BY <2>2, <2>4 DEF Rank
<1>5. ASSUME NEW p \in F, NEW q \in F, Rank(m, p) = Rank(m, q)
      PROVE  p = q
  <2>1. ~before(p, q) /\ ~before(q, p)
    BY <1>4, <1>5
  <2>2. p[1] = q[1] /\ p[2] = q[2]
    BY <1>2, <2>1
  <2> QED  BY <1>2, <2>2
<1> DEFINE f == [p \in F |-> Rank(m, p)]
<1>6. f \in Injection(F, T)
  BY <1>3, <1>5 DEF Injection, IsInjective
<1>7. IsFiniteSet(T) /\ Cardinality(T) = N
  <2>1. IsFiniteSet(0 .. N - 1)
        /\ Cardinality(0 .. N - 1) = IF 0 > N - 1 THEN 0 ELSE (N - 1) - 0 + 1
    BY <1>1, FS_Interval
  <2> QED  BY <1>1, <2>1
<1> HIDE DEF f, T, N
<1>8. f \in Surjection(F, T)
  BY <1>6, <1>7, FS_Injection DEF N
<1>9. \A s \in T : \E p \in F : Rank(m, p) = s
  BY <1>8 DEF Surjection, f
<1> QED  BY <1>3, <1>5, <1>9 DEF F, T, N

(* TableAgrees of any disks and any table. *)
NamedIn(table, count, d, n) ==
  {s \in Slots : s < count /\ table[s].parent = d /\ table[s].num = n
                 /\ \A k \in 0 .. s - 1 : ~(table[k].parent = d /\ table[k].num = n)}

Agree(m, table, count) ==
  \A d \in Disks : m[d].sig =>
    /\ \A n \in Nums : m[d].parts[n].used =>
         \E s \in NamedIn(table, count, d, n) : table[s] = Describe(m, <<d, n>>)
    /\ \A s \in Slots : s < count /\ table[s].parent = d =>
         m[d].parts[table[s].num].used /\ s \in NamedIn(table, count, d, table[s].num)

LEMMA AgreeIs ==
  /\ TableAgrees <=> Agree(mbr, partitions, part_count)
  /\ TableAgrees' <=> Agree(mbr', partitions', part_count')
BY DEF TableAgrees, Agree, Named, NamedIn

(* What a scan puts into the slot of a partition. *)
LEMMA ScanDescribes ==
  ASSUME NEW m, NEW old, NEW p \in Found(m)
  PROVE  /\ Rank(m, p) \in 0 .. Cardinality(Found(m)) - 1 /\ Rank(m, p) \in Slots
         /\ Scan(m, old)[Rank(m, p)] = Describe(m, p)
<1> DEFINE count == Cardinality(Found(m))
<1>1. count \in Slots /\ count \in Nat /\ 0 .. count - 1 \subseteq Slots
  BY FoundFits, Constants DEF Slots
<1>2. Rank(m, p) \in 0 .. count - 1 /\ Rank(m, p) \in Slots
  BY <1>1, RanksAreSlots
<1>3. \A q \in Found(m) : Cardinality(Ahead(m, q)) = Rank(m, p) <=> q = p
  BY RanksAreSlots DEF Rank
<1>4. (CHOOSE q \in Found(m) : Cardinality(Ahead(m, q)) = Rank(m, p)) = p
  BY <1>3
<1> QED  BY <1>2, <1>3, <1>4 DEF Scan

LEMMA ScanAgrees ==
  ASSUME NEW m, NEW old
  PROVE  Agree(m, Scan(m, old), Cardinality(Found(m)))
<1> DEFINE table == Scan(m, old)
           count == Cardinality(Found(m))
<1>1. count \in Slots /\ count \in Nat /\ 0 .. count - 1 \subseteq Slots
  BY FoundFits, Constants DEF Slots
<1>2. ASSUME NEW p \in Found(m)
      PROVE  Rank(m, p) \in 0 .. count - 1 /\ table[Rank(m, p)] = Describe(m, p)
  BY ScanDescribes
<1> HIDE DEF table
<1>3. ASSUME NEW s \in Slots, s < count
      PROVE  \E p \in Found(m) : Rank(m, p) = s /\ table[s] = Describe(m, p)
  <2>1. s \in 0 .. count - 1
    BY <1>1, <1>3, Constants DEF Slots
  <2> QED  BY <1>2, <2>1, RanksAreSlots
<1>4. \A p \in Found(m) : /\ p = <<p[1], p[2]>> /\ p[1] \in Disks /\ p[2] \in Nums
                          /\ m[p[1]].sig /\ m[p[1]].parts[p[2]].used
                          /\ Describe(m, p).parent = p[1] /\ Describe(m, p).num = p[2]
  BY DEF Found, Describe
<1>5. ASSUME NEW p \in Found(m)
      PROVE  Rank(m, p) \in NamedIn(table, count, p[1], p[2])
  <2>1. Rank(m, p) \in Slots /\ Rank(m, p) \in 0 .. count - 1 /\ Rank(m, p) < count
    BY <1>1, <1>2
  <2>2. ASSUME NEW k \in 0 .. Rank(m, p) - 1, table[k].parent = p[1], table[k].num = p[2]
        PROVE  FALSE
    <3>1. k \in Slots /\ k < count /\ k # Rank(m, p)
      BY <1>1, <2>1
    <3>2. PICK q \in Found(m) : Rank(m, q) = k /\ table[k] = Describe(m, q)
      BY <1>3, <3>1
    <3>3. q = p
      BY <1>4, <2>2, <3>2
    <3> QED  BY <3>1, <3>2, <3>3
  <2> QED  BY <1>2, <1>4, <2>1, <2>2 DEF NamedIn
<1>6. ASSUME NEW d \in Disks, m[d].sig, NEW n \in Nums, m[d].parts[n].used
      PROVE  \E s \in NamedIn(table, count, d, n) : table[s] = Describe(m, <<d, n>>)
  <2>1. <<d, n>> \in Found(m)
    BY <1>6 DEF Found
  <2> QED  BY <1>2, <1>5, <2>1
<1>7. ASSUME NEW d \in Disks, NEW s \in Slots, s < count, table[s].parent = d
      PROVE  m[d].parts[table[s].num].used /\ s \in NamedIn(table, count, d, table[s].num)
  <2>1. PICK p \in Found(m) : Rank(m, p) = s /\ table[s] = Describe(m, p)
    BY <1>3, <1>7
  <2> QED  BY <1>4, <1>5, <1>7, <2>1
<1> HIDE DEF count
<1>8. Agree(m, table, count)
  BY <1>6, <1>7 DEF Agree
<1> QED  BY <1>8 DEF table, count

(* The mbr is a table of the disks and agrees with the devices. *)
TabInv == mbr = [d \in Disks |-> mbr[d]] /\ TableAgrees

LEMMA RescanAgrees ==
  ASSUME NEW m, NEW old, m = [d \in Disks |-> m[d]], mbr' = m, Rescan(m, old)
  PROVE  TabInv'
<1>1. partitions' = Scan(m, old) /\ part_count' = Cardinality(Found(m))
  BY DEF Rescan
<1>2. Agree(mbr', partitions', part_count')
  BY <1>1, ScanAgrees
<1> QED  BY <1>2, AgreeIs DEF TabInv

LEMMA FormatAgrees ==
  ASSUME TabInv, NEW d \in Disks, FormatDisk(d)
  PROVE  TabInv'
<1>1. mbr' = [mbr EXCEPT ![d] = Blank] /\ partitions' = partitions /\ part_count' = part_count
  BY DEF FormatDisk
<1>2. mbr' = [e \in Disks |-> mbr'[e]]
  BY <1>1 DEF TabInv
<1>3. ~mbr'[d].sig /\ \A e \in Disks : e # d => mbr'[e] = mbr[e]
  BY <1>1 DEF TabInv, Blank
<1>4. Agree(mbr, partitions, part_count)
  BY AgreeIs DEF TabInv
<1>5. ASSUME NEW e \in Disks, mbr'[e].sig
      PROVE  mbr[e] = mbr'[e] /\ \A n : Describe(mbr', <<e, n>>) = Describe(mbr, <<e, n>>)
  BY <1>3, <1>5 DEF Describe
<1>6. Agree(mbr', partitions', part_count')
  BY <1>1, <1>4, <1>5 DEF Agree
<1> QED  BY <1>2, <1>6, AgreeIs DEF TabInv

LEMMA StepAgrees ==
  ASSUME TabInv, [Next]_vars
  PROVE  TabInv'
<1>1. CASE UNCHANGED partVars
  BY <1>1, AgreeIs DEF TabInv, partVars
<1>2. ASSUME NEW d \in Disks, NEW n \in Nums, NEW mb \in Sizes, CreatePartition(d, n, mb)
      PROVE  TabInv'
  <2>1. PICK m, table : mbr' = m /\ Rescan(m, table) /\ m = [e \in Disks |-> m[e]]
    <3> DEFINE size == (mb * MB) % WORD
               entry == [used |-> TRUE, start |-> NextStart(d), count |-> size]
               m == [mbr EXCEPT ![d] = [sig |-> TRUE,
                                        parts |-> [mbr[d].parts EXCEPT ![n] = entry]]]
               known == \E s \in Slots : s < part_count /\ partitions[s].parent = d
                                                        /\ partitions[s].start = NextStart(d)
               table == IF known THEN partitions
                        ELSE [partitions EXCEPT ![part_count] = Describe(m, <<d, n>>)]
    <3>1. mbr' = m /\ Rescan(m, table)
      BY <1>2, Zenon DEF CreatePartition
    <3>2. m = [e \in Disks |-> m[e]]
      BY DEF TabInv
    <3> QED  BY <3>1, <3>2, Zenon
  <2> QED  BY <2>1, RescanAgrees
<1>3. ASSUME NEW d \in Disks, NEW n \in Nums, DeletePartition(d, n)  PROVE TabInv'
  <2> DEFINE m == [mbr EXCEPT ![d].parts[n] = Unused]
  <2>1. mbr' = m /\ Rescan(m, partitions)
    BY <1>3, Zenon DEF DeletePartition
  <2>2. m = [e \in Disks |-> m[e]]
    BY DEF TabInv
  <2> HIDE DEF m
  <2> QED  BY <2>1, <2>2, RescanAgrees
<1>4. ASSUME NEW d \in Disks, FormatWhole(d)  PROVE TabInv'
  BY <1>1, <1>4, FormatAgrees DEF FormatWhole
<1>5. CASE Reboot
  <2>1. mbr' = mbr /\ Rescan(mbr, [s \in Slots |-> NoDevice]) /\ mbr = [d \in Disks |-> mbr[d]]
    BY <1>5 DEF Reboot, TabInv
  <2> QED  BY <2>1, RescanAgrees
<1>6. ASSUME NEW d \in Disks, NEW n \in Nums, NEW path, Mount(d, n, path)  PROVE TabInv'
  BY <1>1, <1>6 DEF Mount
<1>7. ASSUME NEW path, Umount(path)  PROVE TabInv'
  BY <1>1, <1>7 DEF Umount
<1>8. ASSUME NEW p, Cd(p)  PROVE TabInv'
  BY <1>1, <1>8 DEF Cd
<1>9. CASE CdUp
  BY <1>1, <1>9 DEF CdUp
<1>10. ASSUME NEW d \in Disks, NEW n \in Nums, Format(d, n)  PROVE TabInv'
  BY <1>1, <1>10 DEF Format
<1>11. CASE UNCHANGED vars
  BY <1>1, <1>11 DEF vars
<1> QED  BY <1>2, <1>3, <1>4, <1>5, <1>6, <1>7, <1>8, <1>9, <1>10, <1>11 DEF Next

(* The devices are the partitions of the disks that have an MBR, each once   *)
(* and with its extent, after any commands: TableAgrees, for any number of   *)
(* disks and partitions, sizes that wrap included.                           *)
THEOREM TableAlwaysAgrees == Spec => []TableAgrees
<1>1. Init => TabInv
  <2> SUFFICES ASSUME PartInit  PROVE TabInv
    BY DEF Init
  <2>1. PICK mb \in RootSizes :
          /\ mbr = InitialMbr(mb)
          /\ partitions = Scan(mbr, [s \in Slots |-> NoDevice])
          /\ part_count = Cardinality(Found(mbr))
    BY DEF PartInit
  <2>2. mbr = [d \in Disks |-> mbr[d]]
    BY <2>1 DEF InitialMbr
  <2>3. Agree(mbr, partitions, part_count)
    BY <2>1, ScanAgrees
  <2> QED  BY <2>2, <2>3, AgreeIs DEF TabInv
<1>2. TabInv /\ [Next]_vars => TabInv'
  BY StepAgrees
<1>3. TabInv => TableAgrees
  BY DEF TabInv
<1> QED  BY <1>1, <1>2, <1>3, PTL DEF Spec

-----------------------------------------------------------------------------
(* The mounts of an orderly user                                             *)

Scanned(m, table, count) ==
  /\ count = Cardinality(Found(m))
  /\ \A p \in Found(m) : table[Rank(m, p)] = Describe(m, p)

Large(m) ==
  \A d \in Disks, n \in Nums :
    m[d].parts[n].used => m[d].parts[n].count >= FS_SECTORS

(* An instance has the slot of the partition it was asked for.               *)
ServesIn(m, fs) ==
  \E p \in Found(m) :
    /\ fs.dev = Rank(m, p)
    /\ fs.asked = [disk |-> p[1], lba |-> m[p[1]].parts[p[2]].start]

Good(m, table, count, fss, on) ==
  /\ HasRoot(m) /\ Scanned(m, table, count) /\ Large(m)
  /\ fss[1] = RootFs(m)
  /\ \A f \in on : ServesIn(m, fss[f])
  /\ \A f, g \in on : f # g => fss[f].dev # fss[g].dev

OrderInv ==
  /\ misdeeds \in Nat
  /\ misdeeds = 0 => ~ram_mode /\ Good(mbr, partitions, part_count, instances, Mounted)

(* After a scan an instance on sda1, the only one mounted, serves it.        *)
LEMMA RootIsGood ==
  ASSUME NEW m, NEW old, HasRoot(m), Large(m), NEW fss, fss[1] = RootFs(m)
  PROVE  Good(m, Scan(m, old), Cardinality(Found(m)), fss, {1})
<1> DEFINE r == <<1, 1>>
<1>1. r \in Found(m)
  BY DEF HasRoot
<1>2. \A q \in Found(m) : q[1] \in Disks /\ q[2] \in Nums
  BY DEF Found
<1>3. Ahead(m, r) = {}
  <2>1. \A q \in Found(m) : ~(q[1] < 1) /\ ~(q[2] < 1)
    BY <1>2, Constants DEF Disks, Nums
  <2> QED  BY <2>1 DEF Ahead
<1>4. Rank(m, r) = 0
  BY <1>3, FS_EmptySet DEF Rank
<1>5. fss[1].dev = Rank(m, r) /\ fss[1].asked = [disk |-> 1, lba |-> m[1].parts[1].start]
  BY <1>4 DEF RootFs, RootPlace
<1>6. ServesIn(m, fss[1])
  BY <1>1, <1>5 DEF ServesIn
<1>7. Scanned(m, Scan(m, old), Cardinality(Found(m)))
  BY ScanDescribes DEF Scanned
<1> QED  BY <1>6, <1>7 DEF Good

(* Changes of the table of a disk that leave sda1 where it is.               *)
LEMMA RootStays ==
  ASSUME NEW m, NEW m2, HasRoot(m), <<1, 1>> \in Found(m2),
         m2[1].parts[1].start = m[1].parts[1].start
  PROVE  HasRoot(m2) /\ RootFs(m2) = RootFs(m)
BY DEF HasRoot, RootFs, RootPlace

LEMMA CreateKeepsOrder ==
  ASSUME \A x \in Disks : LAST[x] < WORD, \A mb \in Sizes : mb * MB >= FS_SECTORS,
         PInv, HasRoot(mbr), Large(mbr),
         NEW d \in Disks, NEW n \in Nums, NEW mb \in Sizes,
         NextStart(d) + mb * MB <= LAST[d], CreatePartition(d, n, mb)
  PROVE  /\ HasRoot(mbr') /\ Large(mbr') /\ RootFs(mbr') = RootFs(mbr)
         /\ \E old : partitions' = Scan(mbr', old) /\ part_count' = Cardinality(Found(mbr'))
<1> DEFINE start == NextStart(d)
           size  == (mb * MB) % WORD
           entry == [used |-> TRUE, start |-> start, count |-> size]
           m     == [mbr EXCEPT ![d] = [sig |-> TRUE, parts |-> [mbr[d].parts EXCEPT ![n] = entry]]]
           known == \E s \in Slots : s < part_count /\ partitions[s].parent = d
                                                    /\ partitions[s].start = start
           table == IF known THEN partitions
                    ELSE [partitions EXCEPT ![part_count] = Describe(m, <<d, n>>)]
<1>1. mbr' = m /\ Rescan(m, table) /\ ~mbr[d].parts[n].used
  BY Zenon DEF CreatePartition
<1>2. mbr \in MbrType
  BY DEF PInv, Sound
<1>3. size = mb * MB
  <2>1. mb * MB \in Nat /\ start \in Nat /\ LAST[d] \in Nat /\ WORD \in Nat
    <3>1. mb \in Nat /\ MB \in Nat /\ LAST[d] \in Nat /\ WORD \in Nat
      BY Constants
    <3>2. start \in 1 .. WORD - 1
      BY NextStartBehindMbr
    <3> QED  BY <3>1, <3>2, ProductIsNat
  <2>2. start + mb * MB <= LAST[d] /\ LAST[d] < WORD
    OBVIOUS
  <2> DEFINE x == mb * MB
  <2>3. x \in Nat /\ start + x <= LAST[d]
    BY <2>1, <2>2
  <2> HIDE DEF x, start
  <2>4. x < WORD
    BY <2>1, <2>2, <2>3
  <2>5. x % WORD = x
    BY <2>1, <2>3, <2>4, ModSmall
  <2> QED  BY <2>5 DEF x
<1>4. entry.count >= FS_SECTORS
  BY <1>3
<1> HIDE DEF entry, table
<1>5. \A e \in Disks, k \in Nums :
        m[e].parts[k] = IF e = d /\ k = n THEN entry ELSE mbr[e].parts[k]
  BY <1>2 DEF MbrType, DiskType
<1>6. \A e \in Disks : mbr[e].sig => m[e].sig
  BY <1>2 DEF MbrType
<1>7. Large(m)
  BY <1>4, <1>5 DEF Large
<1>8. /\ <<1, 1>> \in Found(mbr) /\ 1 \in Disks /\ 1 \in Nums
      /\ mbr[1].sig /\ mbr[1].parts[1].used
  BY DEF HasRoot, Found
<1>9. m[1].parts[1] = mbr[1].parts[1] /\ m[1].sig
  BY <1>1, <1>5, <1>6, <1>8
<1> HIDE DEF m
<1>10. <<1, 1>> \in Found(m)
  BY <1>8, <1>9 DEF Found
<1>11. HasRoot(m) /\ RootFs(m) = RootFs(mbr)
  BY <1>9, <1>10, RootStays
<1>12. partitions' = Scan(m, table) /\ part_count' = Cardinality(Found(m))
  BY <1>1 DEF Rescan
<1> QED  BY <1>1, <1>7, <1>11, <1>12

LEMMA DeleteKeepsOrder ==
  ASSUME PInv, HasRoot(mbr), Large(mbr),
         NEW d \in Disks, NEW n \in Nums, <<d, n>> # <<1, 1>>, DeletePartition(d, n)
  PROVE  /\ HasRoot(mbr') /\ Large(mbr') /\ RootFs(mbr') = RootFs(mbr)
         /\ \E old : partitions' = Scan(mbr', old) /\ part_count' = Cardinality(Found(mbr'))
<1> DEFINE m == [mbr EXCEPT ![d].parts[n] = Unused]
<1>1. mbr' = m /\ Rescan(m, partitions)
  BY Zenon DEF DeletePartition
<1>2. mbr \in MbrType
  BY DEF PInv, Sound
<1>3. \A e \in Disks, k \in Nums :
        m[e].parts[k] = IF e = d /\ k = n THEN Unused ELSE mbr[e].parts[k]
  BY <1>2 DEF MbrType, DiskType
<1>4. \A e \in Disks : m[e].sig = mbr[e].sig
  BY <1>2 DEF MbrType, DiskType
<1>5. Large(m)
  BY <1>3, UnusedIsEntry DEF Large
<1>6. /\ <<1, 1>> \in Found(mbr) /\ 1 \in Disks /\ 1 \in Nums
      /\ mbr[1].sig /\ mbr[1].parts[1].used
  BY DEF HasRoot, Found
<1>7. m[1].parts[1] = mbr[1].parts[1] /\ m[1].sig
  BY <1>3, <1>4, <1>6
<1> HIDE DEF m
<1>8. <<1, 1>> \in Found(m)
  BY <1>6, <1>7 DEF Found
<1>9. HasRoot(m) /\ RootFs(m) = RootFs(mbr)
  BY <1>7, <1>8, RootStays
<1>10. partitions' = Scan(m, partitions) /\ part_count' = Cardinality(Found(m))
  BY <1>1 DEF Rescan
<1> QED  BY <1>1, <1>5, <1>9, <1>10

(* The slot block_find gives is that of the partition named.                 *)
LEMMA NamedIsRank ==
  ASSUME NEW m, Scanned(m, partitions, part_count),
         NEW d \in Disks, NEW n \in Nums, NEW s \in Named(d, n)
  PROVE  <<d, n>> \in Found(m) /\ s = Rank(m, <<d, n>>)
<1>1. s \in Slots /\ s < Cardinality(Found(m))
      /\ partitions[s].parent = d /\ partitions[s].num = n
  BY DEF Named, Scanned
<1>2. s \in 0 .. Cardinality(Found(m)) - 1
  BY <1>1, FoundFits, Constants DEF Slots
<1>3. PICK p \in Found(m) : Rank(m, p) = s
  BY <1>2, RanksAreSlots
<1>4. partitions[s] = Describe(m, p)
  BY <1>3 DEF Scanned
<1>5. p = <<p[1], p[2]>>
  BY DEF Found
<1>6. p = <<d, n>>
  BY <1>1, <1>4, <1>5 DEF Describe
<1> QED  BY <1>3, <1>6

LEMMA MountKeepsOrder ==
  ASSUME VInv, ~ram_mode, Good(mbr, partitions, part_count, instances, Mounted),
         NEW d \in Disks, NEW n \in Nums, NEW path \in MountPoints,
         Mount(d, n, path), NotMounted(d, n)
  PROVE  ~ram_mode' /\ Good(mbr', partitions', part_count', instances', Mounted')
<1>1. PICK s \in Named(d, n) :
        /\ \/ /\ Len(vfs_mounts) < MAX_MOUNTS /\ Len(instances) < MAX_MOUNTS
              /\ instances' = Append(instances, [dev |-> s, asked |-> Place(s)])
              /\ vfs_mounts' = Append(vfs_mounts, [path |-> path, fs |-> Len(instances')])
           \/ UNCHANGED <<instances, vfs_mounts>>
        /\ UNCHANGED <<partVars, ram_mode, current_fs>>
  BY Zenon DEF Mount
<1>2. UNCHANGED <<mbr, partitions, part_count>>
  BY <1>1 DEF partVars
<1>3. CASE UNCHANGED <<instances, vfs_mounts>>
  BY <1>1, <1>2, <1>3 DEF Mounted
<1>4. CASE /\ instances' = Append(instances, [dev |-> s, asked |-> Place(s)])
           /\ vfs_mounts' = Append(vfs_mounts, [path |-> path, fs |-> Len(instances')])
  <2> DEFINE a == Len(instances)
             b == Len(vfs_mounts)
             new == [dev |-> s, asked |-> Place(s)]
  <2>1. /\ instances \in Seq(Instance) /\ a \in Nat /\ a >= 1
        /\ vfs_mounts \in Seq(MountRow) /\ b \in Nat /\ b >= 1
        /\ Mounted \subseteq 1 .. a
    BY DEF VInv, TypeOK, Tables
  <2>2. s \in Slots /\ path \in Seq(STRING)
    BY VolumesAssumption DEF Named
  <2>3. new \in Instance
    BY <2>2, PlaceTypes DEF Instance, VInv, TypeOK
  <2>4. /\ Len(instances') = a + 1 /\ instances'[a + 1] = new
        /\ \A k \in 1 .. a : instances'[k] = instances[k]
    BY <1>4, <2>1, <2>3
  <2>5. [path |-> path, fs |-> Len(instances')] \in MountRow
    BY <2>1, <2>2, <2>4 DEF MountRow
  <2>6. /\ \A k \in 1 .. b : vfs_mounts'[k] = vfs_mounts[k]
        /\ vfs_mounts'[b + 1].fs = a + 1
        /\ DOMAIN vfs_mounts' = 1 .. b + 1 /\ DOMAIN vfs_mounts = 1 .. b
    BY <1>4, <2>1, <2>4, <2>5
  <2>7. Mounted' = Mounted \cup {a + 1}
    BY <2>1, <2>6 DEF Mounted
  <2>8. <<d, n>> \in Found(mbr) /\ s = Rank(mbr, <<d, n>>)
    BY NamedIsRank DEF Good
  <2>9. partitions[s] = Describe(mbr, <<d, n>>)
    BY <2>8 DEF Good, Scanned
  <2>10. new.dev = Rank(mbr, <<d, n>>)
         /\ new.asked = [disk |-> d, lba |-> mbr[d].parts[n].start]
    BY <2>8, <2>9 DEF Place, Describe
  <2>11. ServesIn(mbr, new)
    BY <2>8, <2>10 DEF ServesIn
  <2>12. \A f \in Mounted : instances[f].dev # new.dev
    BY DEF NotMounted
  <2> HIDE DEF new, a, b
  <2>13. \A f \in Mounted : instances'[f] = instances[f] /\ f # a + 1
    BY <2>1, <2>4
  <2>14. instances'[1] = instances[1]
    BY <2>1, <2>4
  <2>15. \A f \in Mounted' : ServesIn(mbr, instances'[f])
    BY <2>4, <2>7, <2>11, <2>13 DEF Good
  <2>16. \A f, g \in Mounted' : f # g => instances'[f].dev # instances'[g].dev
    BY <2>4, <2>7, <2>12, <2>13 DEF Good
  <2> QED  BY <1>1, <1>2, <2>14, <2>15, <2>16 DEF Good
<1> QED  BY <1>1, <1>3, <1>4

LEMMA StepOrder ==
  ASSUME \A x \in Disks : LAST[x] < WORD, \A mb \in Sizes : mb * MB >= FS_SECTORS,
         VInv, OrderInv, [Next]_vars
  PROVE  OrderInv'
<1>1. CASE UNCHANGED vars
  BY <1>1 DEF vars, partVars, volVars, OrderInv, Mounted
<1>2. ASSUME NEW ok \in BOOLEAN, Orderly(ok)
      PROVE  misdeeds' \in Nat /\ (misdeeds' = 0 => misdeeds = 0 /\ ok)
  BY <1>2 DEF Orderly, OrderInv
<1>3. misdeeds = 0 => ~ram_mode /\ Good(mbr, partitions, part_count, instances, Mounted)
  BY DEF OrderInv
<1>4. ASSUME NEW ok \in BOOLEAN, Orderly(ok),
             misdeeds = 0 /\ ok =>
               ~ram_mode' /\ Good(mbr', partitions', part_count', instances', Mounted')
      PROVE  OrderInv'
  BY <1>2, <1>4 DEF OrderInv
<1>5. ASSUME NEW d \in Disks, NEW n \in Nums, NEW path \in MountPoints,
             Mount(d, n, path), Orderly(NotMounted(d, n))
      PROVE  OrderInv'
  <2>1. NotMounted(d, n) \in BOOLEAN
    BY DEF NotMounted
  <2>2. misdeeds = 0 /\ NotMounted(d, n) =>
          ~ram_mode' /\ Good(mbr', partitions', part_count', instances', Mounted')
    BY <1>3, <1>5, MountKeepsOrder
  <2> QED  BY <1>4, <1>5, <2>1, <2>2
<1>6. ASSUME UNCHANGED <<partVars, ram_mode, instances>>, Mounted' \subseteq Mounted, Orderly(TRUE)
      PROVE  OrderInv'
  <2>1. misdeeds = 0 =>
          ~ram_mode' /\ Good(mbr', partitions', part_count', instances', Mounted')
    BY <1>3, <1>6 DEF partVars, Good
  <2> QED  BY <1>4, <1>6, <2>1
<1>7. ASSUME NEW path, Umount(path), Orderly(TRUE)  PROVE OrderInv'
  <2>1. UNCHANGED <<partVars, ram_mode, instances>>
    BY <1>7 DEF Umount
  <2> QED  BY <1>6, <1>7, <2>1, UmountTables
<1>8. ASSUME NEW p, Cd(p), Orderly(TRUE)  PROVE OrderInv'
  BY <1>6, <1>8 DEF Cd, Mounted
<1>9. ASSUME CdUp, Orderly(TRUE)  PROVE OrderInv'
  BY <1>6, <1>9 DEF CdUp, Mounted
<1>10. ASSUME NEW d, NEW n, Format(d, n), Orderly(TRUE)  PROVE OrderInv'
  BY <1>6, <1>10 DEF Format, Mounted
<1>11. ASSUME NEW d, FormatWhole(d), Orderly(FALSE)  PROVE OrderInv'
  BY <1>4, <1>11
<1>12. ASSUME HasRoot(mbr') /\ Large(mbr') /\ RootFs(mbr') = RootFs(mbr),
              NEW old, partitions' = Scan(mbr', old), part_count' = Cardinality(Found(mbr')),
              UNCHANGED volVars, misdeeds = 0, OnlyRoot
       PROVE  ~ram_mode' /\ Good(mbr', partitions', part_count', instances', Mounted')
  <2>1. Mounted' = {1} /\ ram_mode' = ram_mode /\ instances' = instances
    BY <1>12 DEF volVars, Mounted, OnlyRoot
  <2>2. instances'[1] = RootFs(mbr') /\ ~ram_mode
    BY <1>3, <1>12, <2>1 DEF Good
  <2>3. Good(mbr', Scan(mbr', old), Cardinality(Found(mbr')), instances', {1})
    BY <1>12, <2>2, RootIsGood
  <2> QED  BY <1>12, <2>1, <2>2, <2>3
<1>13. PInv
  BY DEF VInv
<1>14. ASSUME NEW d \in Disks, NEW n \in Nums, NEW mb \in Sizes,
              NextStart(d) + mb * MB <= LAST[d], CreatePartition(d, n, mb),
              UNCHANGED volVars, Orderly(OnlyRoot)
       PROVE  OrderInv'
  <2>1. ASSUME misdeeds = 0, OnlyRoot
        PROVE  ~ram_mode' /\ Good(mbr', partitions', part_count', instances', Mounted')
    <3>1. HasRoot(mbr) /\ Large(mbr)
      BY <1>3, <2>1 DEF Good
    <3>2. /\ HasRoot(mbr') /\ Large(mbr') /\ RootFs(mbr') = RootFs(mbr)
          /\ \E old : partitions' = Scan(mbr', old) /\ part_count' = Cardinality(Found(mbr'))
      BY <1>13, <1>14, <3>1, CreateKeepsOrder
    <3> QED  BY <1>12, <1>14, <2>1, <3>2
  <2>2. OnlyRoot \in BOOLEAN
    BY DEF OnlyRoot
  <2> QED  BY <1>4, <1>14, <2>1, <2>2
<1>15. ASSUME NEW d \in Disks, NEW n \in Nums, DeletePartition(d, n),
              UNCHANGED volVars, Orderly(OnlyRoot /\ <<d, n>> # <<1, 1>>)
       PROVE  OrderInv'
  <2>1. ASSUME misdeeds = 0, OnlyRoot, <<d, n>> # <<1, 1>>
        PROVE  ~ram_mode' /\ Good(mbr', partitions', part_count', instances', Mounted')
    <3>1. HasRoot(mbr) /\ Large(mbr)
      BY <1>3, <2>1 DEF Good
    <3>2. /\ HasRoot(mbr') /\ Large(mbr') /\ RootFs(mbr') = RootFs(mbr)
          /\ \E old : partitions' = Scan(mbr', old) /\ part_count' = Cardinality(Found(mbr'))
      BY <1>13, <1>15, <2>1, <3>1, DeleteKeepsOrder
    <3> QED  BY <1>12, <1>15, <2>1, <3>2
  <2>2. (OnlyRoot /\ <<d, n>> # <<1, 1>>) \in BOOLEAN
    BY DEF OnlyRoot
  <2> QED  BY <1>4, <1>15, <2>1, <2>2
<1>16. ASSUME Reboot, Orderly(TRUE)  PROVE OrderInv'
  <2>1. ASSUME misdeeds = 0
        PROVE  ~ram_mode' /\ Good(mbr', partitions', part_count', instances', Mounted')
    <3>1. HasRoot(mbr) /\ Large(mbr) /\ mbr' = mbr
      BY <1>3, <1>16, <2>1 DEF Good, Reboot
    <3>2. /\ partitions' = Scan(mbr, [s \in Slots |-> NoDevice])
          /\ part_count' = Cardinality(Found(mbr))
          /\ ~ram_mode'
      BY <1>16, <3>1 DEF Reboot, Rescan
    <3>3. instances'[1] = RootFs(mbr) /\ Mounted' = {1}
      BY <1>16 DEF Reboot, Mounted
    <3> QED  BY <3>1, <3>2, <3>3, RootIsGood
  <2> QED  BY <1>4, <1>16, <2>1
<1> QED  BY <1>1, <1>5, <1>7, <1>8, <1>9, <1>10, <1>11, <1>14, <1>15, <1>16 DEF Next

LEMMA InitOrder ==
  ASSUME 0 \notin RootSizes, \A mb \in RootSizes : mb * MB >= FS_SECTORS, Init
  PROVE  OrderInv
<1>1. PICK mb \in RootSizes :
        /\ mbr = InitialMbr(mb)
        /\ partitions = Scan(mbr, [s \in Slots |-> NoDevice])
        /\ part_count = Cardinality(Found(mbr))
  BY DEF Init, PartInit
<1>2. mb > 0 /\ mb * MB >= FS_SECTORS
  BY Constants
<1>3. 1 \in Disks /\ 1 \in Nums
  BY Constants DEF Disks, Nums
<1> DEFINE first == [used |-> TRUE, start |-> FIRST_LBA, count |-> mb * MB]
<1>4. \A d \in Disks :
        mbr[d] = IF d = 1
                 THEN [sig |-> TRUE, parts |-> [n \in Nums |-> IF n = 1 THEN first ELSE Unused]]
                 ELSE Blank
  BY <1>1, <1>2 DEF InitialMbr
<1>5. first.used /\ first.count >= FS_SECTORS
  BY <1>2
<1> HIDE DEF first
<1>6. mbr[1].sig /\ mbr[1].parts = [n \in Nums |-> IF n = 1 THEN first ELSE Unused]
  <2>1. mbr[1] = [sig |-> TRUE, parts |-> [n \in Nums |-> IF n = 1 THEN first ELSE Unused]]
    BY <1>3, <1>4
  <2> QED  BY <2>1
<1>7. HasRoot(mbr)
  BY <1>3, <1>5, <1>6 DEF HasRoot, Found
<1>8. \A d \in Disks, n \in Nums : mbr[d].parts[n] \in {first, Unused}
  <2> TAKE d \in Disks, n \in Nums
  <2>1. CASE d = 1
    BY <1>6, <2>1
  <2>2. CASE d # 1
    <3>1. mbr[d] = Blank
      BY <1>4, <2>2
    <3>2. mbr[d].parts = [k \in Nums |-> Unused]
      BY <3>1 DEF Blank
    <3> QED  BY <3>2
  <2> QED  BY <2>1, <2>2
<1>9. Large(mbr)
  BY <1>5, <1>8, UnusedIsEntry DEF Large
<1>10. instances[1] = RootFs(mbr) /\ Mounted = {1}
  BY DEF Init, Mounted
<1>11. Good(mbr, partitions, part_count, instances, Mounted)
  BY <1>1, <1>7, <1>9, <1>10, RootIsGood
<1> QED  BY <1>7, <1>11 DEF OrderInv, Init

(* Where an instance in order reads and writes. *)
LEMMA ServedPlace ==
  ASSUME Scanned(mbr, partitions, part_count), ~ram_mode, NEW fs, ServesIn(mbr, fs)
  PROVE  \E p \in Found(mbr) :
           /\ fs.dev = Rank(mbr, p)
           /\ fs.asked = [disk |-> p[1], lba |-> mbr[p[1]].parts[p[2]].start]
           /\ Reached(fs.dev) = fs.asked
<1>1. PICK p \in Found(mbr) :
        /\ fs.dev = Rank(mbr, p)
        /\ fs.asked = [disk |-> p[1], lba |-> mbr[p[1]].parts[p[2]].start]
  BY DEF ServesIn
<1>2. partitions[fs.dev] = Describe(mbr, p)
  BY <1>1 DEF Scanned
<1>3. Reached(fs.dev) = fs.asked
  BY <1>1, <1>2 DEF Reached, Place, Describe
<1> QED  BY <1>1, <1>3

LEMMA OrderMeansServed == OrderInv => OrderlyServed
<1> SUFFICES ASSUME OrderInv, misdeeds = 0, NEW f \in Mounted
             PROVE  /\ StillThere(instances[f].asked)
                    /\ Reached(instances[f].dev) = instances[f].asked
  BY DEF OrderlyServed
<1>1. ~ram_mode /\ Scanned(mbr, partitions, part_count) /\ ServesIn(mbr, instances[f])
  BY DEF OrderInv, Good
<1>2. PICK p \in Found(mbr) :
        /\ instances[f].asked = [disk |-> p[1], lba |-> mbr[p[1]].parts[p[2]].start]
        /\ Reached(instances[f].dev) = instances[f].asked
  BY <1>1, ServedPlace
<1>3. p[2] \in Nums /\ mbr[p[1]].parts[p[2]].used
  BY DEF Found
<1> QED  BY <1>2, <1>3 DEF StillThere

LEMMA OrderMeansExclusive == PInv /\ OrderInv => RegionsExclusive
<1> SUFFICES ASSUME PInv, OrderInv, misdeeds = 0, NEW f \in Mounted, NEW g \in Mounted, f # g,
                    Reached(instances[f].dev).disk = Reached(instances[g].dev).disk
             PROVE  LET a == Reached(instances[f].dev)
                        b == Reached(instances[g].dev)
                    IN  a.lba + FS_SECTORS <= b.lba \/ b.lba + FS_SECTORS <= a.lba
  BY DEF RegionsExclusive
<1>1. /\ ~ram_mode /\ Scanned(mbr, partitions, part_count) /\ Large(mbr)
      /\ ServesIn(mbr, instances[f]) /\ ServesIn(mbr, instances[g])
      /\ instances[f].dev # instances[g].dev
  BY DEF OrderInv, Good
<1>2. PICK p \in Found(mbr) :
        /\ instances[f].dev = Rank(mbr, p)
        /\ Reached(instances[f].dev) = [disk |-> p[1], lba |-> mbr[p[1]].parts[p[2]].start]
  BY <1>1, ServedPlace
<1>3. PICK q \in Found(mbr) :
        /\ instances[g].dev = Rank(mbr, q)
        /\ Reached(instances[g].dev) = [disk |-> q[1], lba |-> mbr[q[1]].parts[q[2]].start]
  BY <1>1, ServedPlace
<1>4. /\ p = <<p[1], p[2]>> /\ p[1] \in Disks /\ p[2] \in Nums /\ mbr[p[1]].parts[p[2]].used
      /\ q = <<q[1], q[2]>> /\ q[1] \in Disks /\ q[2] \in Nums /\ mbr[q[1]].parts[q[2]].used
  BY DEF Found
<1>5. p[1] = q[1] /\ p[2] # q[2]
  BY <1>1, <1>2, <1>3, <1>4
<1> DEFINE e == mbr[p[1]].parts[p[2]]
           h == mbr[q[1]].parts[q[2]]
<1>6. e \in Entry /\ h \in Entry
  BY <1>4 DEF PInv, Sound, MbrType, DiskType
<1>7. e.start + e.count <= h.start \/ h.start + h.count <= e.start
  BY <1>4, <1>5 DEF PInv, Sound, Apart
<1>8. e.count >= FS_SECTORS /\ h.count >= FS_SECTORS
  BY <1>1, <1>4 DEF Large
<1>9. Reached(instances[f].dev).lba = e.start /\ Reached(instances[g].dev).lba = h.start
  BY <1>2, <1>3
<1>10. e.start \in Nat /\ e.count \in Nat /\ h.start \in Nat /\ h.count \in Nat
  BY <1>6 DEF Entry
<1> HIDE DEF e, h
<1>11. e.start + FS_SECTORS <= h.start \/ h.start + FS_SECTORS <= e.start
  BY <1>7, <1>8, <1>10, VolumesAssumption
<1> QED  BY <1>9, <1>11

(* What an orderly user mounts is there and is what he works on, for any     *)
(* number of disks, partitions and mounts, if the machine starts with an     *)
(* sda1 and partitions hold a file system.                                   *)
THEOREM OrderlyIsServed ==
  ASSUME \A d \in Disks : LAST[d] < WORD, 0 \notin RootSizes,
         \A mb \in Sizes \cup RootSizes : mb * MB >= FS_SECTORS
  PROVE  Spec => []OrderlyServed
<1>1. Init => VInv /\ OrderInv
  BY InitTables, InitOrder
<1>2. VInv /\ OrderInv /\ [Next]_vars => VInv' /\ OrderInv'
  BY StepTables, StepOrder
<1> QED  BY <1>1, <1>2, OrderMeansServed, PTL DEF Spec

(* And no two of his mounts share a sector: nothing written to one file      *)
(* system turns up in another.                                               *)
THEOREM RegionsStayExclusive ==
  ASSUME \A d \in Disks : LAST[d] < WORD, 0 \notin RootSizes,
         \A mb \in Sizes \cup RootSizes : mb * MB >= FS_SECTORS
  PROVE  Spec => []RegionsExclusive
<1>1. Init => VInv /\ OrderInv
  BY InitTables, InitOrder
<1>2. VInv /\ OrderInv /\ [Next]_vars => VInv' /\ OrderInv'
  BY StepTables, StepOrder
<1>3. VInv /\ OrderInv => RegionsExclusive
  BY OrderMeansExclusive DEF VInv
<1> QED  BY <1>1, <1>2, <1>3, PTL DEF Spec
=============================================================================

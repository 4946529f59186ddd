# Specifications of CalculatorOS

TLA+ models of the kernel under `src/`: its file system MFS, its partitions and
mounts, its disk driver, its prompt with variables, calculations and assembler, and
its heap. TLC checks them on small instances, TLAPS proves what they say of state and
of steps for instances of any size; liveness alone is only checked. Line numbers are those of the files in `src/`.

Contents: 1 the system, 2 modules and code, 3 what is checked, 4 bounds, 5 what is
assumed of user and hardware, 6 where code and documents disagree, 7 what is
proved, 8 what is not modelled, 9 plan.

## 1 The system

CalculatorOS is a 32-bit kernel (i686) for one processor without processes. After
start-up `kernel_main` halts in a loop and everything happens in interrupt handlers,
entered by interrupt gates, so that they do not nest:

* the **timer** (`hpet_handler`, hpet.c:64-89) draws, calls `console_func`, arms the
  comparator again and only then ends the interrupt. `console_func` reads at most one
  key and, when it was Enter, runs the whole command inside the interrupt;
* the **keyboard** (`keyboard_handler`, keyboard_buffer.c:11-21) stores one scan code
  in a ring.

Concurrency is therefore between whole handlers, and *a command is one step* for every
other part, with two exceptions: the disk, which a power cut may leave between any two
writes (`MfsCrash`), and the disk controller, which works beside the command that polls
it and goes on with a request the command has given up (`Ahci`).

| Component | State | Operations | Talks to | What makes it correct |
|---|---|---|---|---|
| MFS name space and allocators (fs.c) | `inode_cache`, directory blocks, two bitmaps, `current_dir` | new, newdir, write, append, symlink, hlink, unlink, rm, rmdir, cp, mv, cd | inode cache, block devices | a name leads to one live inode; a block has one owner; what has a name is not freed; the current directory is reachable; a power cut leaves such a disk |
| MFS inode cache (fs.c:224-250) | cached inodes, `inode_cache_loaded`, sectors | `load_inode`, `save_inode`, mount | everything in fs.c | a call reads what the calls before wrote |
| Partitions and devices (block.c) | MBR of each disk, `partitions[]`, `part_count` | `block_init`, mkpart, delpart, format of a disk, scan | AHCI; mount table by address of slots | partitions do not overlap; devices agree with the MBRs |
| Mount table, VFS (fs.c) | `instances[]`, `vfs_mounts[]`, `current_fs`, `ram_mode` | `fs_init`, mount, umount, format, cd, resolution of paths | partitions, MFS | an instance works on the partition it was mounted from, and on no sector of another |
| AHCI driver (ahci.c) | structures of the ports, command slots, registers of the controller | `ahci_init`, read, write by polling | block devices, page bitmap | structures do not overlap; an outstanding request is left alone; a reported success happened; a call returns |
| Physical page bitmap (kernel.c) | `phys_bitmap` | `init_phys`, `alloc_phys` | AHCI at start-up | a page is handed out once |
| Keyboard buffer (keyboard_buffer.c) | ring, `key_head`, `key_tail` | store, get, has, flush | keyboard, prompt | a bounded queue |
| Console line input (kernel.c:1153-1321) | line buffer, cursor, Shift, Caps Lock | `input_start`, `read_line` | ring, timer | the line is what was typed |
| Kernel heap (kernel.c:157-209) | list of blocks | `malloc`, `free` | append, variables | blocks tile the heap, no two overlap |
| Variables (kernel.c:1015-1131) | `vars[]`, `var_count` | var, delete, echo, type | calculations | the array is a map from names to values |
| Calculations (kernel.c:1354-1520) | none | `parse_expr` and what it calls | variables | the operations that were written are the ones calculated, in their order; nothing of the line is skipped |
| JIT assembler (jit.c) | none | asm | the processor | the code is the instruction that was asked for |
| HPET timer (hpet.c) | comparator | handler | prompt | ticks go on |
| Screen, cursor, mouse, cube; ACPI, PCI, APIC, IDT, boot | — | — | — | not modelled |

**What is hard here.** The inode cache copies more than an inode; entries, parents,
bitmaps and link counts are kept apart, changed by different commands and written to
different sectors one after the other; `rm` and `unlink` free on different conditions;
blocks run out in the middle of a write; cp and mv consist of calls each of which may
fail; mounts hold addresses of slots that a later scan rewrites; a disk command that
timed out may complete into the buffer of the next; two interrupts meet in a ring that
drops codes; keys of several codes can be torn by a tick; five functions of a parser
share a position. `PROJECT.json` lists 40 such hazards with their lines, the properties
on each, and why some have none.

## 2 Modules and code

| Module | Models | State in the code |
|---|---|---|
| `Mfs` | one mounted instance; one action for each command that changes it | `inode` = `inode_cache`, `dirent` = directory blocks, `inode_bitmap`, `block_bitmap`, `current_dir` |
| `MfsCrash` | extends `Mfs`: the same commands as sequences of sector writes in the order of the code, power cuts between any two, `fs_mount` after one | `disk` = the sectors, `pending` = the writes still to be made, `dirty` = `inode_cache_dirty` |
| `Transfer` | extends `MfsCrash`: cp, mv and append as the calls they make, stopping where a call fails | `job` = where `console_func` is in the command |
| `InodeCache` | the cache below `Mfs`: heads (first 148 bytes) and tails of inodes, in cache and sectors, and which inodes a call loads on its way | `inode_cache`, `inode_cache_loaded`, `inode_cache_dirty`, sectors of the inode table, `inode_bitmap`; `node` = what each inode is and the slot of the directory it is listed in |
| `Partitions` | MBRs and the device table | MBRs on the disks, `partitions`, `part_count` |
| `Volumes` | extends `Partitions`: instances and mounts on them, restarts | `instances`, `vfs_mounts`, `current_fs`, `ram_mode`, where superblocks are |
| `Ahci` | the disk driver step by step and, beside it, the controller; the pages it takes | `phys` = `phys_bitmap`, `list`, `fis`, `cmd_table`, `ci` = PORT_CI, `err` = PORT_TFD, `request` = the tables, `call` = the call in hand |
| `KeyRing` | the keyboard ring | `keybuf`, `key_head`, `key_tail` |
| `KeyFifo` | abstract: a bounded queue that only its reader empties | |
| `Console` | extends `KeyRing`: keys, their codes, the keyboard interrupt and the tick | `input_buffer`, `input_len`, `input_pos`, `input_active`, `shift`, `caps` |
| `LineEditor` | abstract: text left and right of a cursor | |
| `Heap` | `malloc`, `free` and the join of free neighbours | `free_list` |
| `Allocator` | abstract: regions that do not overlap | |
| `Variables` | var, delete, echo and type | `vars` with `var_count` as its length |
| `VarStore` | abstract: a map from names to values, of limited size | |
| `Expression` | the parser of calculations, from tokens to the steps of arithmetic it takes | none |
| `Jit` | the assembler: the instructions it looks for, and their bytes | none |
| `Processor` | external: which instruction an x86 processor takes bytes for, and what the text of one means | |
| `Shell` | composes the four: the prompt gives a command and gets an answer | `answer` = what is printed, or run |
| `Extremes` | that the least and greatest elements the loops look for exist, and the functions recursion defines | |
| `...Proofs` | theorems about the module they are named for; `KernelProofs` about `Heap`, `Variables` and `Shell`, `MfsCrashProofs` about `MfsCrash` and `Transfer` (section 7) | |
| `MC...` | constants for TLC | |

*Abstractions.* A file's content is its blocks; a path is its components and whether it
is absolute; an inode head or tail is a version number, `MIXED` standing for bytes of
two versions. Names and paths are what the *user* may type, the rest follows from the
code: `split_path`, `find_inode`, the two ways symlinks are resolved (recursive in the
middle of a path, iterated at its end by `write`, once by `cd`), the bit that `rmdir`
leaves set, the entry that is not made when a directory is full. Numbers that may wrap
keep a modulus (`LINK_MOD`, `WORD`). In `Expression` a token is a number, a name or an
operator, and a value is the sequence of the steps that compute it, in the order the
code takes them: a number goes on a stack, a minus changes the one on top, an operator
takes the two on top. Two values are equal when the same arithmetic was done in the same
order. The five functions of the parser are the cases of one recursive function of the
line, the level and the place; it is recursive over data and no `RECURSIVE` operator, so
that it can be proved about. What steps *mean* — the line one writes for them — is
defined apart from the parser (`Push`, `Text`). In `Jit` a number carries its notation (decimal, `0x`, with a minus), and the operand is
what `parse_dec` or `parse_hex` makes of that notation; a 32-bit operand is one element of
the byte sequence, and `Processor` reads what lies behind an instruction as the next
one. In `MfsCrash` a command changes the memory at once and its writes
follow: nothing else reads the memory in between, since a command runs to its end.

*Faulty definitions.* A definition `X_Fault`, beside `X`, is `X` with the named error of coding (a
test left out, a wrong bound, a missing save, operands exchanged). No specification uses
it. Put in the place of `X` it makes the property that guards `X` fail; `PROJECT.json`
pairs each property with one.

*History variables.* `misdeeds` (Volumes), `meant`, `overrun` and `lost` (InodeCache),
`intact`, `ideal` and `wire` (Console), `granted` (Heap), `unlinking` and `restarts`
(MfsCrash), the fields `stored` and `onto` of `job` (Transfer), `alone` of
`call` (Ahci) and `meant` of `answer` (Shell) are not in the code, no action reads them except through the bounds named below, and properties
are stated with them.

## 3 What is checked

| Run | Shows |
|---|---|
| `MfsTree` | all name-space commands with nested and relative paths, `..`, a path through a symlink, full directories, no free block. Every listed inode is marked (`ListedAllocated`), lies in the directory its parent field names and once only (`EntryAgreesWithParent`), two equal names need a hard link (`SiblingNames`), the current directory is listed up to the root (`CwdIsNamed`), a newly marked inode was named by nothing (`FreshInode`) |
| `MfsData` | direct and indirect blocks, hard links, writes that run out of blocks. No block has two owners or is free in use (`BlocksExclusive`), the link count covers all names (`LinkCountCovers`), data is only taken from a file that has no name left (`DataKept`) |
| `MfsCrash` | what the disk holds at every moment, hence after every power cut: a directory lists only marked inodes (`ListedOnDisk`) that name it as their parent (`ParentsOnDisk`); marked blocks belong to one reachable inode (`BlocksOnDisk`); the count covers the names, except in the middle of an unlink (`CountOnDisk`); a command that came back is on the disk (`Durable`); a file being moved is there, whole, under its old name or its new one, unless the new one is the file itself (`MoveKeepsOne`). `ListedOnDisk` and `ParentsOnDisk` are the invariants of `Mfs` instantiated for the disk |
| `Cache` | the cache over mounts. Link counts and link targets are always right (`TailsCoherent`); names, sizes and blocks are what was last assigned, in the cache and, unless a write without a free block left them unsaved, on the disk, until the inode below is loaded after them in one mount, or a mount forgets what was unsaved (`HeadsCoherent`); within a mount they are spoiled only when one of the two is first loaded (`OnlyFirstLoadSpills`) |
| `Volumes` | two disks, restarts. The device table agrees with the MBRs (`TableAgrees`), partitions do not overlap (`PartitionsApart`), `umount` never takes the current file system (`CurrentIsMounted`), and for an orderly user mounts reach their partition (`OrderlyServed`) and share no sector (`RegionsExclusive`) |
| `Ahci` | set-up of the ports with too few pages, then reads and writes against a controller that completes late, fails or never answers. The structures of the ports lie in pages that `phys_bitmap` has marked, each in its own, and in none that `init_phys` marked (`PagesApart`; it speaks of the bitmap, not of the memory behind it, see section 6), commands go out only on ports that are set up (`OnlyReadyPorts`), the table of an outstanding command is never written (`OutstandingUntouched`), a call that returns 1 and began with nothing outstanding did its work (`SuccessIsDone`), and each call returns (`CallsReturn`, liveness) |
| `ConsoleEdit` | typing and editing through a ring that overflows, with torn keys. The ring is a queue (`IsFifo`, refinement of `KeyFifo`), every tick is one step of a line editor (`EditsALine`, refinement of `LineEditor`), and the line is what was typed if no code was lost or torn (`TypedIsRead`) |
| `ConsoleShift` | the same for Shift, Caps Lock and the four-code arrow; each code leaves the ring (`KeysGetRead`, liveness) |
| `Shell` | the array of variables is a map with a limit (`IsStore`, refinement of `VarStore`); the steps of a calculation of up to three operators are the ones that were written (`CalculatesAsWritten`); no accepted line of up to four tokens loses a token (`NothingSkipped`); the code of each instruction runs as that instruction and then as a ret, but for the list in `Misassembled`, which has the numbers that are not read as they are written (`Misread`) or do not fit (`TooLarge`), and for none of these (`AssemblesAsWritten`) |
| `Heap` | all orders of `malloc` and `free`. Blocks tile the heap (`BlocksTile`), free neighbours are joined (`FreeIsJoined`), and the whole implements `Allocator` (`IsAllocator`) |
| `CacheStale`, `VolRepart` | find the disagreements of section 6 |

`CHECK_DEADLOCK FALSE` stands in the `Mfs...`, `Volumes`, `VolRepart` and `Ahci`
configurations. In the first three groups a failing command is no step (it changes
nothing), and with the instance full and the user's few commands or restarts used up
there may be no step left. In `Ahci` a machine without a disk, or without pages for a
port, has no call to make once the ports are set up, and really stops there.

## 4 Bounds

| Bound | Why it is enough |
|---|---|
| `MAX_INODES` 4, `DIR_SLOTS` 2, names a, b, c | root, two nested directories and a third inode; a directory becomes full; an inode number is freed and handed out again. `/` and the empty path, which `cd` takes to the root, are in the model and the theorems, not among the paths of the run |
| `TOTAL_BLOCKS` 2 (tree), 4 (data), `MAX_BLOCKS_PER_FILE` 1, `INDIRECT_SLOTS` 1 | a write runs out before the direct, the indirect and the listed block; two files compete; no block left for a directory |
| `LINK_MOD` 8, `MAX_LINK_DEPTH` 2, `MAX_FOLLOW` 2, `MAX_WRITE` 0-2 | links counted exceed no inode count; a link through a link; a write of both kinds of blocks. `MAX_FOLLOW` is a bound of the model: `find_inode` recurses without limit |
| `MfsCrash`: three inodes, three blocks, two slots, two direct blocks, `MAX_RESTARTS` 2, names a, b and a path into a directory | a directory with a file in it, or two files that compete; source and target of cp and mv together fill the blocks; a second cut in what was done after the first. `MAX_RESTARTS` bounds the cuts, `UnlinkCut` = FALSE keeps them out of an unlink (section 6) |
| five inodes, `FLAGS` 2, `LAST_USED` 3, `DIR_SLOTS` 2, `HEADS` 2, `TAILS` 3 (cache) | the root and three more: a walk passes through two directories, and leaves one out; a copy reaches one neighbour only, and the flags follow inode 4. `LAST_USED` below the last keeps inode 255's spill into the flags out (section 6). `HEADS` and `TAILS` bound the changes of one inode: made, then changed, then made again or counted down |
| two disks of 14 and 8 sectors, two partitions each, `MB` 2 sectors, `WORD` 64, `FS_SECTORS` 5, `MAX_MOUNTS` 3 | one disk for two partitions, one for one; nested mount points; the last mount slot is reached; slots move when a partition is made or deleted on the earlier disk |
| `MISDEEDS` 1 | one act out of order is enough for the counterexample, and the invariants that hold for any user are checked after it |
| two ports with two slots, eight pages of which one is marked by `init_phys`, `POLLS` 1, one buffer, one sector, two data | a port takes four pages, so that the second one is left without a table or without a list; both slots time out; the one buffer is what calls at one depth of the stack share |
| `KEYBUF_SIZE` 3, `MAX_LEN` 2-3 | the ring is full with two codes, so that keys of two and four codes overflow or are torn; the line becomes full; the cursor stands inside it |
| `MAX_VARS` 2, a name whose first 15 characters are another one, a name beginning with r | the table is full, a variable in the first of two places is deleted, `rx` is rounded |
| calculations of depth two on one number and two names; lines of four tokens of nine | each pair of operators meets in both orders, bracketed and not; each missing operand and bracket |
| numbers 0, 127, 128, 255, 256, 65535, 65536, each as a decimal, with `0x` and with a minus; all registers | every instruction the assembler looks for with every register in it; both sides of the limits of a signed byte, a byte and a word |
| `HEAP_SIZE` 15, `HEADER` 2, sizes 0-5 | up to five blocks; rests of 0, of a header, and just above |

All but the two liveness properties hold beyond these bounds by the theorems of section 7.

## 5 What is assumed

* **A handler is one step.** Interrupt gates mask interrupts, the PIC/APIC delivers the
  next one after the handler.
* **Fairness.** `Console`, `WF_vars(Tick)`: the timer is armed again at the end of each
  `hpet_handler`, so a tick comes again and again. It presupposes that the command
  inside a tick ends (`cat` of a file that was cut short does not, section 6), and that
  the comparator is met: the handler writes `interval`, an absolute value, into a
  one-shot comparator (hpet.c:86), and on hardware whose counter has passed it the next
  match is a wrap of the counter away. `Ahci`, `WF_vars(Driver)`: the loops of the
  driver go on; the controller has no fairness. Neither have keyboard and user.
* **The user of MFS** makes hard links to files (`LinkTargets`, as README.md:97 has it)
  and does not `rmdir` the current directory or `/` (`BusyRmdir`). The code forbids
  neither; without these the properties `LinkCountCovers` and `CwdIsNamed` are false.
  Both are constants: `TypeCorrect` and `BlocksStayExclusive` hold for every value of
  them, the other theorems on `Mfs` and all on `MfsCrash` name them as assumptions.
* **Power cuts** come anywhere but in the middle of an unlink (`UnlinkCut` = FALSE,
  section 6), in the run and in the theorems on `MfsCrash`.
* **The orderly user of volumes** mounts no partition twice, repartitions only when
  nothing but the root is mounted, keeps `sda1`, and formats no whole disk. `misdeeds`
  counts the exceptions; only `OrderlyServed` and `RegionsExclusive` depend on it.
* **Mount points** are other than `/`; the sizes given to mkpart fit the disk and hold a
  file system (4355 sectors). mkpart checks neither.
* **The cache**: `InodeCache` has an instance without device nodes. It follows which
  inodes a walk has loaded as long as the directories it passes are right; once one is
  not, it lets a call load any inode in use, more than the code may. A path that starts
  in the current directory loads nothing above it. Hard links go to files, the current
  directory and `/` are not removed, as above.
* **Memory of the driver**: the structures of `Ahci` are written by driver and controller
  only. The bitmap does not give that (section 6): the pages it hands out lie in `heap[]`.
* **The disk** under the file system does what it is told: `dev_read` and `dev_write`
  ignore errors, so that after a failed read nothing can be said of MFS. `Ahci` says
  when a result of the driver could be trusted. A sector is written whole or not at all.
* **The processor** decodes bytes as `Processor` has it, from the use jit.c makes of them.
  The lines typed for it are those of `Instructions`: one space, one of the operand kinds
  the instruction has, hexadecimal with a small x. What else the comparisons of jit.c let
  pass (`jmp eax`, `10h`, `mov [eax], ebx`) becomes some instruction with a 0 in it.
* **Names in a calculation** consist of letters (kernel.c:1375); the run has x and r.

## 6 Where code and documents disagree

Each with a run that finds it:

* `CacheStale` — `load_inode` copies 512 bytes over a 364-byte inode (fs.c:233): the
  next inode in the cache, if it was loaded before, gets the name, type, size and
  blocks it had when this one was last saved. Making an inode loads all others in its directory
  first, so that it takes a second directory, or a mount: `newdir a`, `newdir b`, `newdir a/x`
  (inodes 1, 2, 3) and `ls a/x`, then `ls b` is the first load of 2 and spoils 3.
* `VolRepart` — a scan rewrites the slots that instances point at (block.c:222-248):
  a mounted instance goes on with another partition.

Met while modelling, without a run of their own:

* README.md:104: a file is deleted when its link count is 0. `rm` of a file with one name
  lowers the count to 0 (fs.c:751-756) and leaves inode and blocks marked.
* A write that finds no block keeps the size it was to have (fs.c:486-489); `cat` of the
  file then loops for ever inside the timer interrupt. It returns without saving the inode
  (fs.c:505, 517, 531), so that the next mount has neither size nor blocks of it.
* `init_phys` marks 4 MB (kernel.c:150), the kernel's `heap[]` has 1000 MB (kernel.c:82, 87)
  in a .bss that begins above 1 MB (linker.ld:5, 20): the pages `alloc_phys` hands out first
  are part of the heap, and of the first thing allocated there, `back_buffer`
  (kernel.c:632-638). Driver and screen write the same memory.
* `unlink` lowers the count on the disk before it removes the link (fs.c:1765): cut in
  between, the link outlives its share of the count.
* `mv a a/` makes a node without a name, `mv a l/a` with a symlink `l` to the directory of
  `a` a node inside the symlink; then the path leads to `a` itself, which is written over
  itself and removed (kernel.c:1920), where README.md:88 has it moved.
* `create_inode` and its like ignore that `dir_add_child` failed: an inode without name.
* `rmdir .` leaves a current directory that is a file; `hlink` to a link is accepted.
* `hlink` does not look its name up.
* `vfs_create_file` resolves a path twice, the second time in the mounted instance.
* `instance_count` is never lowered: the ninth mount is out of bounds (fs.c:1043).
* In RAM mode every device is the RAM disk: mount formats the root.
* A partition of 1 or 2 MB is smaller than the file system; mkpart's sizes wrap at 2^32.
* Loading inode 255 overwrites the first flags of `inode_cache_loaded`.
* `port_count` is used as the number of the last port (ahci.c:239): with a gap between
  the ports a disk that was found cannot be reached.
* `parse_double` has no sign: `var x = -5` is 0, and so is `abs -5` (README.md:29).
* Lines that begin with r are rounded, whatever they say (kernel.c:1509); a name of 16
  characters overflows the buffer of `parse_factor` (kernel.c:1375).
* `set_var` writes through a null pointer when the table is full (kernel.c:1026); names
  are cut to 15 characters by `var` alone, so that `echo` and `delete` do not find them.
* The assembler refuses `push` and `cmp` with a number, takes `ret n`, `retf`, `int1` and
  `xor ax, ax` for other instructions, loses the operand of `lgdt [v]`, names the wrong
  register for `cr0`, `dr0`, `dr1`, exchanges the operands of `divss` and `xorps`, and
  overwrites `eax` before `mov [v], eax` stores it. `jmp`, `je` and `jne` read decimals
  only (jit.c:403, 410, 447): behind them, as any number with a minus, `0x10` is 0. A number
  too large for its byte or word is cut, and `je 200` jumps back (`Misassembled` in
  `Processor`).

## 7 What is proved

TLAPS, for all values of the constants under the `ASSUME`s of the modules. These say
that sizes are naturals, that there is a root inode and a slot in a directory, that paths
are paths, that the links that can be counted do not wrap `link_count`, that the pages
`init_phys` marks are pages, and the like. Assumptions beyond these stand in the theorems.

* **MfsProofs.** `TypeCorrect`: `TypeOK` is inductive; one step for each command, on lemmas
  about `Create`, `AddChild`, `Without` and `WriteData`. `BlocksStayExclusive`: the inductive invariant is
  `TypeOK` with an exclusiveness stated per pair of inodes and kind of block. It needs no
  more because each command takes new blocks from the complement of the bitmap and frees
  only the direct blocks of one inode.

  The other properties of `Mfs` — entries, parents, sibling names, the current directory,
  link counts, `FreshInode`, `DataKept` — are proved from one inductive invariant,
  `NamesInv`, for the user of section 5's assumptions (`LinkTargets \subseteq {"FILE"}`,
  `BusyRmdir = FALSE`). It adds to types and blocks: a directory that has an entry is
  itself named, or is the root, so that a call cannot enter anything in what was removed;
  entries go up in some rank, so that no directory is below itself; the count of a file
  exceeds its links by one at most, so that the count cannot wrap with fewer inodes than
  `LINK_MOD` and is 0 only when nothing is left; and only files in use hold data blocks.
  What a command may name is the point where recursion comes in: `FindNamed` shows that
  `Find` returns the root or a named inode, `ResolveReaches` that `Resolve` returns such a
  one or the target of a named hard link. Both rest on `RecursionExists` in `Extremes`,
  which proves, without an induction rule, that a function defined by recursion along two
  measures exists; from then on the function is known by its equation, and a least
  argument at which the claim fails is refuted. The climb of `CwdIsNamed` is bounded by
  `MAX_INODES` because an inode that n steps do not lead from to the root is above more
  than n others.
* **InodeCacheProofs.** `CacheTypeCorrect` by `TypeOK`, which is inductive.
  `TailsStayCoherent` and `HeadsStayCoherent` by `VInv`, which adds that only inodes up to
  `LAST_USED` are in use or loaded, so that no copy runs over the flags, and, for *every* inode,
  used or not — one that was freed is made again from what is left of it — that its
  tail is right in its sector and, once loaded, in the cache; its head likewise, unless the
  inode was overrun or lost, the sector being behind for a dirty one.
  They assume `LAST_USED < Last`, without which they are false.
  `SpillsAtFirstLoad` is a step property and assumes nothing.
* **VolumesProofs**, in three layers. `PInv` — entries of an MBR end below `WORD` and lie
  apart — gives `PartitionsStayApart`; `VInv` adds the mount table and gives
  `VolumesTypeCorrect` and `CurrentStaysMounted`; these assume that disks are smaller than
  a word of sectors (`LAST[d] < WORD`). `TableAlwaysAgrees` needs no assumption: a scan
  numbers the partitions it finds bijectively (`RanksAreSlots`, by cardinalities), each
  command that changes an MBR ends with one, and format of a disk takes its signature
  away. `OrderInv` — while the user is orderly, each mounted instance holds the rank of
  the partition it was asked for, and no two the same — gives `OrderlyIsServed` and
  `RegionsStayExclusive`, if there is an `sda1` at power on and every size holds a file
  system; mkpart and delpart keep it because then only the root is mounted, whose rank
  is 0 whatever else there is (`RootIsGood`).
* **AhciProofs.** `AhciTypeCorrect`, `PagesStayApart`, `IssuedWhereReady` by one `IInv`:
  besides these, the pages `init_phys` marked stay marked, a port has all of its structures or none,
  ports not yet looked at have none, and a call that waits has a port and a slot that are
  ready. `OutstandingStay` follows from it, the
  slot taken being a free one. `SuccessWasDone` adds `AloneInv`: while the call in hand
  began alone, nothing but its own command is outstanding, that is what it was asked for,
  and once it has completed it failed or buffer and sector agree.
* **ConsoleProofs**, in three parts. The ring: `RingTypeCorrect` and `RingIsFifo`
  (`RingSpec => IsFifo`), where the map takes the codes from `key_tail` up to `key_head`,
  modulo the size, and `key_tail` as the count of codes that have left, so that storing a
  code cannot pass for reading the others. The prompt: `ConsInv` = `TypeOK` and that the
  buffer holds characters below `input_len`; it gives `ConsoleTypeCorrect`,
  `PromptUsesFifo` and, with a lemma for what each key makes of the text left and right of
  the cursor, `PromptEditsALine` (`Spec => EditsALine`). What was typed:
  `TypedKeysAreRead` by `TypedInv`, which adds `Bound`: as long as nothing was lost or
  torn, the codes under way — in the ring, then on the wire — lead the editor from where
  it is now to what an ideal editor made of all keys typed. It speaks of the editor's
  state and not only of its line, because a cursor that differs shows only at the next key.
* **KernelProofs**, in four parts. The heap: `HeapInv` = the headers lie one behind the other from the first byte to
  the last, each with the size that leads to the next, and no two free ones touch. The
  first gives `HeapIsTiled`, the second `HeapIsJoined`, and `HeapIsAllocator`
  (`HeapSpec => IsAllocator`) follows by mapping the blocks that are not free to what the
  allocator gave. `free` joins neighbours by going over the list once; the lemmas say of
  `Joined`, a function recursive in the length of the list, that it keeps first and last
  header and leaves no two free ones side by side.
  The variables: `VarInv` — the array is one, and no name is in it twice — makes the
  first entry of a name the only one; hence `VariablesAreAStore`: `VarSpec => IsStore`,
  and with it `ShellKeepsAStore`, since calculations and asm leave the array alone.

  Calculations. That there is a parser of every line is itself a proof: the parts of a line
  look only at parts further on, or at the same place on a level below, once a part that
  would go back is cut off (`Clamp`); `RecursionExists` gives such a function, and a least
  part at which it went back is refuted, so that the cut never happens. From then on the
  parser is known by its equations, and what holds of a part when it holds of the parts it
  looks at holds of all. `ShellSkipsNothing`: each part leaves what was on the stack, puts
  one entry on it (the loop of a level: changes the one on top), and the text of that
  entry, without brackets, is the line between the part's two places (`Faithful`,
  `Pushes`). `ShellCalculatesAsWritten` goes the other way. `Means` says of a text
  that, wherever it stands in a line and no operator stronger than its level follows, its
  level reads it as these steps and goes on with its loop behind it. Each
  step of a calculation keeps that what is on the stack means the steps since it was put
  there (`Topped`): the brackets of `Within` are just what the levels need. Meaningful
  steps leave one entry, whose text is the line. Neither is an induction over
  sequences: both refute a least place in a line or a sequence of steps.

  The assembler. `ShellAssemblesAsWritten` is one lemma for each form of code: what the
  processor takes the first elements for, wherever they stand (`Taken`, from `AloneFacts`:
  each byte belongs to one arm of `Decoded` only), that reading one, two or three
  instructions ends behind the code (`RunsNone`, `RunsTwo`, `RunsThree`), and that this is
  what was asked for exactly when the instruction is not listed (`AsListed`).
  The properties of numbers come in at one place: what is read of a number, in its
  notation, against what is written. It assumes that numbers are naturals below 2^32.
* **MfsCrashProofs**, the theorems on what a power cut leaves. Memory and disk are two
  *images* of the same kind. `Sound` says what any image must have: listed inodes are
  marked and lie where their parent field says, no two that are reached share a block,
  blocks of those reached are marked. `Counts` says that the count of a file covers its
  names. `Agrees` says that the disk has what memory has, but for inodes left dirty by a
  write that ran out of blocks. A list of writes is a `Trail` if each of them leads from a
  sound image with covered counts to another one. The inductive invariant `CrashInv` is
  that memory is such an image, and that the writes still to come are a trail from the
  disk to an image that agrees with memory. So every state of the disk that the power may
  leave is sound, memory read back from it is again sound, and at the prompt the disk
  agrees with memory: this is `WritesStayATrail`, from which `ListedStayOnDisk`,
  `ParentsStayOnDisk`, `BlocksStayOnDisk`, `CountsStayOnDisk` and `ReturnedStaysDurable`
  follow without another induction. The work is one lemma for each call, that the writes
  it makes lead there (`Leads`), by joining short trails: why a new inode may be on the
  disk before its entry, the block bitmap before the inode that takes the block, the raised
  count before the link, and the removed entry before what it freed.

  The four assumptions are these. `LinkTargets` and `BusyRmdir` as for `Mfs`.
  `UnlinkCut = FALSE`: cut inside an unlink, a count is too low for good (section 6), and
  `CountOnDisk` is false. `MAX_INODES + MAX_RESTARTS < LINK_MOD`: a cut may leave a count
  one too *high* (hlink saves it before the link), after r of them r too high, so that it
  must not wrap; `link_count` is a `uint32_t` (fs.h:46), `LINK_MOD` therefore 2^32, and
  the assumption is that the machine is switched off fewer than 4 billion times.

  `MovedStayWhole` proves `MoveKeepsOne` with two more parts: `SlimInv`, that no inode, in
  memory or on the disk, owns more direct blocks than it has room for — so that a file whose
  write came back complete has the blocks its size asks for — and `MoveInv`, which says for
  each step of mv what the disk has: the source, named and with its old blocks, until the
  write has come back; then, besides it, the destination, named, saved and with room for the text;
  and while the removal is written one of the two.

Only model-checked is liveness, `KeysGetRead` and `CallsReturn`: fairness is out of the
prover's reach. Every other property of a passing run is a theorem above.

## 8 What is not modelled

| Part | Why |
|---|---|
| Device nodes of `/dev` (`fs_update_devices`, `fs_remove_device`) | one more kind of inode, made and removed by scans; planned with the composition of `Mfs` and `Volumes` |
| Files inside `Volumes` | instances are their devices there; the trees of two instances beside the mounts are beyond the bounds TLC can take |
| Reads that fail under MFS | nobody looks at the result (section 5) |
| Comparator of the HPET | a counter and one register; what it does depends on the hardware (section 5) |
| Arithmetic of the calculations, sum, avg, pct and other one-line calculators | computation with doubles, no state; TLA+ has none |
| What the JIT code does when it runs | it may do anything, in the kernel |
| `free_phys`, `alloc_phys` of several pages | nothing calls them so |
| Screen, cursor, mouse, cube, what only prints | drawing; nothing reads it |
| ACPI, PCI, APIC, IDT, boot | hardware set-up, once |

## 9 Plan

1. Done: all modules above, their runs, the theorems of section 7.
2. Device nodes in `Mfs`; `Volumes` with the files of two instances, for the path that is
   resolved twice.

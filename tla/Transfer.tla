------------------------------ MODULE Transfer ------------------------------
(***************************************************************************)
(* cp, mv and append (kernel.c): commands that make several calls of the    *)
(* file system, each with its writes, and go on or stop by what a call      *)
(* returns.  With the other commands and power cuts of MfsCrash.tla.        *)
(***************************************************************************)
EXTENDS MfsCrash

VARIABLE job      \* the rest of a cp or mv, and what it works on

transferVars == <<crashVars, job>>

NoJob == [step |-> "none"]

-----------------------------------------------------------------------------
(* The calls, and when they return failure                                   *)

(* fs_create_file, fs_get_file_size, fs_read_file_to_buf and fs_write_file   *)
(* take a path as find_inode gives it: a link is not a file for them.        *)
FileAt(p) == {i \in At(p) : inode[i].type = "FILE"}

(* What read_file_data gets of file i: it stops at the first block missing.  *)
Readable(i) ==
  IF inode[i].size < Cardinality(inode[i].blocks)
  THEN inode[i].size ELSE Cardinality(inode[i].blocks)

CanCreate(p) ==
  /\ FreeInodes # {}
  /\ \E dir \in At(DirPart(p)) : Lookup(dir, BasePart(p)) = NONE

Keep(i, n) == WriteData(i, n) /\ UNCHANGED <<dirent, inode_bitmap, current_dir>>

(* fs_write_file of n blocks to file i, on the disk as in memory. *)
WriteCall(i, n) ==
  /\ Keep(i, n)
  /\ Gives("write", DataWrites(i, n), IF inode' = inode THEN {} ELSE {i})

-----------------------------------------------------------------------------
(* cp and mv: read the source to its end, then make the destination.         *)
StartTransfer(command, p, q) ==
  /\ \E i \in FileAt(p) :
       job' = [step |-> "create", command |-> command, from |-> i, src |-> p,
               dst |-> q, size |-> Readable(i),
               stored |-> disk.inode[i].blocks, onto |-> NONE]
  /\ UNCHANGED crashVars

(* fs_create_file of the destination; nothing more is done when it fails.    *)
CreateStep ==
  /\ job.step = "create"
  /\ \/ /\ CreateFile(job.dst)
        /\ Gives("new", MadeWrites, {})
        /\ job' = [job EXCEPT !.step = "write"]
     \/ /\ ~CanCreate(job.dst)
        /\ job' = NoJob
        /\ UNCHANGED crashVars

(* The step after a fs_write_file that has written everything, to file i. *)
AfterWrite(i) ==
  IF job.command = "mv" THEN [job EXCEPT !.step = "remove", !.onto = i] ELSE NoJob

WriteStep_ResultIgnored ==
  /\ job.step = "write"
  /\ \/ \E i \in FileAt(job.dst) :
          /\ WriteCall(i, job.size)
          /\ job' = AfterWrite(i)
     \/ /\ FileAt(job.dst) = {}
        /\ job' = NoJob
        /\ UNCHANGED crashVars

(* fs_write_file of the text read: nothing more is done when the file cannot *)
(* be found, its directory having had no room, or a block is missing.        *)
WriteStep ==
  /\ job.step = "write"
  /\ \/ \E i \in FileAt(job.dst) :
          /\ WriteCall(i, job.size)
          /\ job' = IF Complete(i, job.size) THEN AfterWrite(i) ELSE NoJob
     \/ /\ FileAt(job.dst) = {}
        /\ job' = NoJob
        /\ UNCHANGED crashVars

(* fs_remove_file of the source, which mv looks up again by its path. *)
RemoveStep ==
  /\ job.step = "remove"
  /\ \/ /\ RemoveFile(job.src)
        /\ Gives("rm", RemoveWrites(Find(job.src)), {})
        /\ job' = [job EXCEPT !.step = "removing"]
     \/ /\ FileAt(job.src) = {}
        /\ job' = NoJob
        /\ UNCHANGED crashVars

(* The command returns to the prompt when the removal is on the disk. *)
MovedStep ==
  /\ job.step = "removing"
  /\ job' = NoJob
  /\ UNCHANGED crashVars

(* append: the whole text is written again, longer by n blocks.  Where the   *)
(* old text could not be read to its end, the buffer that malloc returned    *)
(* holds anything, up to the old size.  No text is longer than MAX_WRITE.    *)
AppendFile(p, n) ==
  \E i \in FileAt(p) : \E old \in Readable(i) .. inode[i].size :
    /\ old + n <= MAX_WRITE
    /\ WriteCall(i, old + n)
    /\ UNCHANGED job

-----------------------------------------------------------------------------
TransferInit == CrashInit /\ job = NoJob

(* The shell takes the next command when the last one has returned. *)
Prompt ==
  \/ Command /\ UNCHANGED job
  \/ \E p \in Typed("cp", Paths), q \in Paths : StartTransfer("cp", p, q)
  \/ \E p \in Typed("mv", Paths), q \in Paths : StartTransfer("mv", p, q)
  \/ \E p \in Typed("append", Paths), n \in 0 .. 1 : AppendFile(p, n)

TransferNext ==
  \/ pending = <<>> /\ job = NoJob /\ Prompt
  \/ pending = <<>> /\ (CreateStep \/ WriteStep \/ RemoveStep \/ MovedStep)
  \/ Write /\ UNCHANGED job
  \/ Restart /\ job' = NoJob

TransferSpec == TransferInit /\ [][TransferNext]_transferVars

-----------------------------------------------------------------------------
(* At every moment of an mv the disk has the file: the source with a name    *)
(* and all the blocks it had there, or the file that fs_write_file found at  *)
(* the destination, with a name and all that was read of the source.         *)
(* Whenever the power goes, a restart finds one.  Not when that file is the  *)
(* source itself: "mv a a/" makes a node that it does not find again, and so *)
(* does a destination in a link to the source's directory; then mv writes    *)
(* the source over itself and removes it.                                    *)
MoveKeepsOne ==
  (job.step # "none" /\ job.command = "mv" /\ job.onto # job.from) =>
    \/ job.from \in NamedOnDisk /\ job.stored \subseteq disk.inode[job.from].blocks
    \/ job.onto \in NamedOnDisk /\ Cardinality(disk.inode[job.onto].blocks) >= job.size
=============================================================================

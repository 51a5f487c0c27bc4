----------------------------- MODULE ImageCache -----------------------------
(***************************************************************************)
(* core/include/image_cache.h, core/src/image_cache.cpp: one .aifill path  *)
(* of the cache directory, written by the worker threads of any number of  *)
(* nodes and read by main threads.  A file is an inode whose content is a  *)
(* sequence of blocks: block 1 is the header, the rest pixels; a block     *)
(* holds the number of the image it was written for, or Hole.  Names and   *)
(* inodes are apart, because a writer can go on writing to a file that     *)
(* another writer has renamed or removed.                                  *)
(***************************************************************************)
EXTENDS Naturals, Sequences

CONSTANTS
  Writers,         \* threads inside image_cache_write for this path
  Readers,         \* threads inside image_cache_read for this path
  NBlocks,         \* blocks of a complete file
  MaxWrites,       \* bound: calls of image_cache_write
  MaxCrashes       \* bound: kills of the process

ASSUME ImageCacheAssumption ==
  /\ NBlocks \in Nat \ {0}
  /\ MaxWrites \in Nat \ {0}
  /\ MaxCrashes \in Nat

VARIABLES
  dir,        \* ["dst" -> inode or NoFile, "tmp" -> inode or NoFile]
  inode,      \* [Inodes -> sequence of blocks]
  writer,     \* [Writers -> local state of a call, with the last result]
  reader,     \* [Readers -> local state of a call, with what it got]
  writes,     \* images handed to image_cache_write so far
  crashes,
  flushLost   \* history: the flush of a closing stream has failed

counts == <<writes, crashes>>
vars == <<dir, inode, writer, reader, counts, flushLost>>

NoFile == 0
Hole == 0
Images == 1 .. MaxWrites
Inodes == Images            \* every write creates at most one file

Whole(s) == /\ Len(s) = NBlocks
            /\ s[1] # Hole
            /\ \A i \in 1 .. NBlocks : s[i] = s[1]

FreshWriter == [pc |-> "idle", image |-> 0, fd |-> NoFile, at |-> 1, ok |-> FALSE]
FreshReader == [pc |-> "idle", fd |-> NoFile, got |-> <<>>]

Init ==
  /\ dir = [name \in {"dst", "tmp"} |-> NoFile]
  /\ inode = [i \in Inodes |-> <<>>]
  /\ writer = [w \in Writers |-> FreshWriter]
  /\ reader = [r \in Readers |-> FreshReader]
  /\ writes = 0
  /\ crashes = 0
  /\ flushLost = FALSE

-----------------------------------------------------------------------------
(* The file system, as far as the code relies on it *)

(* fs::remove with an error code that nobody reads: it can fail for reasons *)
(* of its own (the file is open elsewhere, access is denied).              *)
Remove(name) == dir' \in {[dir EXCEPT ![name] = NoFile], dir}

(* Writing block b at offset i: what lies between the end and i is a hole. *)
WriteAt(s, i, b) ==
  [k \in 1 .. (IF i > Len(s) THEN i ELSE Len(s)) |->
     IF k = i THEN b ELSE IF k <= Len(s) THEN s[k] ELSE Hole]

-----------------------------------------------------------------------------
(* image_cache_write *)

(* A null buffer or dimensions out of range: returns false. *)
WriteRejected(w) ==
  /\ writer[w].pc = "idle"
  /\ writer' = [writer EXCEPT ![w].ok = FALSE]
  /\ UNCHANGED <<dir, inode, reader, counts, flushLost>>

WriteCall(w) ==
  /\ writer[w].pc = "idle"
  /\ writes < MaxWrites
  /\ writes' = writes + 1
  /\ writer' = [writer EXCEPT ![w] = [FreshWriter EXCEPT !.pc = "open", !.image = writes']]
  /\ UNCHANGED <<dir, inode, reader, crashes, flushLost>>

Return(w, ok) == writer' = [writer EXCEPT ![w] = [FreshWriter EXCEPT !.ok = ok]]

(* std::ofstream(path + ".tmp", trunc): the file is created, or an         *)
(* existing one, whoever is writing it, is cut to nothing.                 *)
Open(w) ==
  /\ writer[w].pc = "open"
  /\ LET i == IF dir["tmp"] = NoFile THEN writer[w].image ELSE dir["tmp"] IN
       /\ dir' = [dir EXCEPT !["tmp"] = i]
       /\ inode' = [inode EXCEPT ![i] = <<>>]
       /\ writer' = [writer EXCEPT ![w].pc = "write", ![w].fd = i]
  /\ UNCHANGED <<reader, counts, flushLost>>

OpenFails(w) ==
  /\ writer[w].pc = "open"
  /\ Return(w, FALSE)
  /\ UNCHANGED <<dir, inode, reader, counts, flushLost>>

(* out.write: the end of what is written stays in the stream's buffer.     *)
WriteBlock(w) ==
  LET at == writer[w].at IN
  /\ writer[w].pc = "write"
  /\ at <= NBlocks
  /\ inode' = IF at = NBlocks THEN inode
              ELSE [inode EXCEPT ![writer[w].fd] = WriteAt(@, at, writer[w].image)]
  /\ writer' = [writer EXCEPT ![w].at = at + 1]
  /\ UNCHANGED <<dir, reader, counts, flushLost>>

(* Mutant: out.good() is not looked at after the writes. *)
WriteFailsUnseen(w) ==
  /\ writer[w].pc = "write"
  /\ writer' = [writer EXCEPT ![w].pc = "remove", ![w].fd = NoFile]
  /\ UNCHANGED <<dir, inode, reader, counts, flushLost>>

(* ! out.good(): a write failed; close, remove the temporary file. *)
WriteFails(w) ==
  /\ writer[w].pc = "write"
  /\ writer' = [writer EXCEPT ![w].pc = "discard", ![w].fd = NoFile]
  /\ UNCHANGED <<dir, inode, reader, counts, flushLost>>

(* fs::remove(tmp); return false: after a failed write or rename. *)
Discard(w) ==
  /\ writer[w].pc = "discard"
  /\ Remove("tmp")
  /\ Return(w, FALSE)
  /\ UNCHANGED <<inode, reader, counts, flushLost>>

(* Mutant: the last block is never written. *)
CloseEarly(w) ==
  /\ writer[w].pc = "write"
  /\ writer[w].at >= NBlocks
  /\ writer' = [writer EXCEPT ![w].pc = "remove", ![w].fd = NoFile]
  /\ UNCHANGED <<dir, inode, reader, counts, flushLost>>

(* The stream was good; its destructor flushes what it holds, and nobody   *)
(* looks whether that succeeds.                                            *)
Close(w) ==
  LET fd == writer[w].fd IN
  /\ writer[w].pc = "write"
  /\ writer[w].at > NBlocks
  /\ \/ /\ inode' = [inode EXCEPT ![fd] = WriteAt(@, NBlocks, writer[w].image)]
        /\ UNCHANGED flushLost
     \/ /\ flushLost' = TRUE
        /\ UNCHANGED inode
  /\ writer' = [writer EXCEPT ![w].pc = "remove", ![w].fd = NoFile]
  /\ UNCHANGED <<dir, reader, counts>>

RemoveDst(w) ==
  /\ writer[w].pc = "remove"
  /\ Remove("dst")
  /\ writer' = [writer EXCEPT ![w].pc = "rename"]
  /\ UNCHANGED <<inode, reader, counts, flushLost>>

(* Mutant: the error code of the rename is not looked at. *)
RenameErrorIgnored(w) ==
  /\ writer[w].pc = "rename"
  /\ Return(w, TRUE)
  /\ UNCHANGED <<dir, inode, reader, counts, flushLost>>

Rename(w) ==
  /\ writer[w].pc = "rename"
  /\ dir["tmp"] # NoFile
  /\ dir' = [dir EXCEPT !["dst"] = dir["tmp"], !["tmp"] = NoFile]
  /\ Return(w, TRUE)
  /\ UNCHANGED <<inode, reader, counts, flushLost>>

(* rn_ec: the name is gone, a file is open elsewhere, or access is denied. *)
RenameFails(w) ==
  /\ writer[w].pc = "rename"
  /\ writer' = [writer EXCEPT ![w].pc = "discard"]
  /\ UNCHANGED <<dir, inode, reader, counts, flushLost>>

-----------------------------------------------------------------------------
(* image_cache_read *)

ReadFails(r) == reader' = [reader EXCEPT ![r] = FreshReader]

ReadCall(r) ==
  /\ reader[r].pc # "read"
  /\ dir["dst"] # NoFile
  /\ reader' = [reader EXCEPT ![r] = [pc |-> "read", fd |-> dir["dst"], got |-> <<>>]]
  /\ UNCHANGED <<dir, inode, writer, counts, flushLost>>

ReadCannotOpen(r) ==
  /\ reader[r].pc # "read"
  /\ dir["dst"] = NoFile
  /\ ReadFails(r)
  /\ UNCHANGED <<dir, inode, writer, counts, flushLost>>

(* The block the reader comes to next, if the file has one. *)
NextAt(r) == Len(reader[r].got) + 1
Short(r) == NextAt(r) > Len(inode[reader[r].fd])
BadHeader(r) == NextAt(r) = 1 /\ inode[reader[r].fd][1] = Hole

ReadBlock(r) ==
  /\ reader[r].pc = "read"
  /\ NextAt(r) <= NBlocks
  /\ ~ Short(r)
  /\ ~ BadHeader(r)
  /\ reader' = [reader EXCEPT ![r].got = Append(@, inode[reader[r].fd][NextAt(r)])]
  /\ UNCHANGED <<dir, inode, writer, counts, flushLost>>

(* "short read" or "bad magic": ok stays false. *)
ReadRejects(r) ==
  /\ reader[r].pc = "read"
  /\ NextAt(r) <= NBlocks
  /\ Short(r) \/ BadHeader(r)
  /\ ReadFails(r)
  /\ UNCHANGED <<dir, inode, writer, counts, flushLost>>

(* Mutant: gcount() is not compared with the size asked for. *)
ReadDoneShort(r) ==
  /\ reader[r].pc = "read"
  /\ NextAt(r) > NBlocks \/ Short(r)
  /\ reader' = [reader EXCEPT ![r].pc = "ok", ![r].fd = NoFile]
  /\ UNCHANGED <<dir, inode, writer, counts, flushLost>>

ReadDone(r) ==
  /\ reader[r].pc = "read"
  /\ NextAt(r) > NBlocks
  /\ reader' = [reader EXCEPT ![r].pc = "ok", ![r].fd = NoFile]
  /\ UNCHANGED <<dir, inode, writer, counts, flushLost>>

-----------------------------------------------------------------------------
(* clear_cache_dir of the ops removes every .aifill file, and no .tmp. *)
Clear ==
  /\ dir["dst"] # NoFile
  /\ Remove("dst")
  /\ UNCHANGED <<inode, writer, reader, counts, flushLost>>

(* The process is killed: what reached the files stays. *)
Crash ==
  /\ crashes < MaxCrashes
  /\ crashes' = crashes + 1
  /\ writer' = [w \in Writers |-> FreshWriter]
  /\ reader' = [r \in Readers |-> FreshReader]
  /\ UNCHANGED <<dir, inode, writes, flushLost>>

WriteStep(w) ==
  \/ Open(w) \/ OpenFails(w) \/ WriteBlock(w) \/ WriteFails(w) \/ Discard(w)
  \/ Close(w) \/ RemoveDst(w) \/ Rename(w) \/ RenameFails(w)

ReadStep(r) ==
  \/ ReadCall(r) \/ ReadCannotOpen(r) \/ ReadBlock(r) \/ ReadRejects(r)
  \/ ReadDone(r)

Next ==
  \/ \E w \in Writers : WriteRejected(w) \/ WriteCall(w) \/ WriteStep(w)
  \/ \E r \in Readers : ReadStep(r)
  \/ Clear
  \/ Crash

Spec == Init /\ [][Next]_vars

-----------------------------------------------------------------------------
(* Names, handles and offsets stay within their ranges. *)
TypeOK ==
  /\ dir \in [{"dst", "tmp"} -> Inodes \cup {NoFile}]
  /\ \A i \in Inodes : Len(inode[i]) <= NBlocks
  /\ writer \in [Writers ->
       [pc : {"idle", "open", "write", "discard", "remove", "rename"},
        image : Images \cup {0}, fd : Inodes \cup {NoFile},
        at : 1 .. NBlocks + 1, ok : BOOLEAN]]
  /\ \A r \in Readers : Len(reader[r].got) <= NBlocks
  /\ writes \in 0 .. MaxWrites
  /\ crashes \in 0 .. MaxCrashes
  /\ flushLost \in BOOLEAN

(* What can be found under the .aifill name is a complete image, whatever  *)
(* failed write, failed rename or kill came before ("never a half-written  *)
(* one"); only the flush at the end of a write is not looked at.           *)
PublishedWhole == dir["dst"] # NoFile /\ ~ flushLost => Whole(inode[dir["dst"]])

(* A read that reports ok returns one complete image, although files are   *)
(* removed and replaced while it reads.                                    *)
ReadOkIsWhole == \A r \in Readers : reader[r].pc = "ok" => Whole(reader[r].got)

(* A call that returns true has put its own image under the name, the      *)
(* whole of it unless a flush was lost.                                    *)
TrueMeansPublished ==
  [][\A w \in Writers :
       writer[w].pc # "idle" /\ writer'[w].pc = "idle" /\ writer'[w].ok
         => /\ dir'["dst"] # NoFile
            /\ ~ flushLost =>
                 inode'[dir'["dst"]] = [k \in 1 .. NBlocks |-> writer[w].image]]_vars

(* "On failure, leaves no partial file on disk": after a call that opened  *)
(* its file and returned false, no incomplete file is under the .tmp name. *)
FalseLeavesNoPartial ==
  [][\A w \in Writers :
       writer[w].pc \notin {"idle", "open"} /\ writer'[w].pc = "idle"
         /\ ~ writer'[w].ok /\ crashes' = crashes
         => dir'["tmp"] = NoFile \/ Whole(inode'[dir'["tmp"]])]_vars

(* The old image goes only once the new one is complete on disk.           *)
OldGoesForWhole ==
  [][\A w \in Writers :
       writer[w].pc = "remove" /\ writer'[w].pc = "rename"
         => dir["tmp"] # NoFile /\ (flushLost \/ Whole(inode[dir["tmp"]]))]_vars

(* "a concurrent reader either sees the old file or the new one": a writer *)
(* never makes the name disappear.                                         *)
NeverVanishes ==
  [][dir["dst"] # NoFile /\ writer' # writer => dir'["dst"] # NoFile]_vars
=============================================================================

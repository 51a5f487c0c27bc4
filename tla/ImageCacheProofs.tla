-------------------------- MODULE ImageCacheProofs --------------------------
(***************************************************************************)
(* Proofs about ImageCache for a path that one thread at a time writes     *)
(* (OneWriter), for any number of readers, blocks, calls and kills.  The   *)
(* argument is that the inode under the temporary name is never the one    *)
(* under the final name nor one that a reader holds, so what is published  *)
(* or being read is never written again.                                   *)
(***************************************************************************)
EXTENDS ImageCache, SequenceTheorems, TLAPS

(* One node per path: with a second writer the temporary file is shared.   *)
OneWriter == \A v, w \in Writers : v = w

WriterRecords ==
  [pc : {"idle", "open", "write", "discard", "remove", "rename"},
   image : Images \cup {0}, fd : Inodes \cup {NoFile},
   at : 1 .. NBlocks + 1, ok : BOOLEAN]

ReaderRecords == [pc : {"idle", "read", "ok"}, fd : Inodes \cup {NoFile}, got : Seq(Nat)]

Typed ==
  /\ dir \in [{"dst", "tmp"} -> Inodes \cup {NoFile}]
  /\ inode \in [Inodes -> Seq(Nat)]
  /\ writer \in [Writers -> WriterRecords]
  /\ reader \in [Readers -> ReaderRecords]
  /\ writes \in 0 .. MaxWrites /\ crashes \in 0 .. MaxCrashes
  /\ flushLost \in BOOLEAN

(* The first n blocks of image m, and nothing else. *)
Filled(s, m, n) == Len(s) = n /\ \A k \in 1 .. n : s[k] = m

(* What Close leaves: the last block is missing only if a flush was lost.  *)
Closed(s, m, lost) == Filled(s, m, NBlocks) \/ (lost /\ Filled(s, m, NBlocks - 1))
Readable(s, lost) == \E m \in Images : Closed(s, m, lost)

(* Inodes above n are not in use. *)
UsedUpTo(n) ==
  /\ dir["dst"] <= n /\ dir["tmp"] <= n
  /\ \A r \in Readers : reader[r].fd <= n

NamesInv ==
  /\ UsedUpTo(writes)
  /\ dir["dst"] # NoFile =>
       dir["dst"] # dir["tmp"] /\ Readable(inode[dir["dst"]], flushLost)

WriterInv(c) ==
  /\ c.pc # "write" => c.fd = NoFile
  /\ c.pc # "idle" => c.image \in Images
  /\ c.pc = "open" => c.image = writes /\ c.at = 1 /\ UsedUpTo(writes - 1)
  /\ c.pc = "write" =>
       /\ c.fd = dir["tmp"] /\ c.fd # NoFile
       /\ Filled(inode[c.fd], c.image, IF c.at > NBlocks THEN NBlocks - 1 ELSE c.at - 1)
  /\ c.pc \in {"remove", "rename"} =>
       dir["tmp"] # NoFile /\ Closed(inode[dir["tmp"]], c.image, flushLost)

(* What was read so far is how the file begins. *)
Begins(got, s) == Len(got) <= Len(s) /\ \A k \in 1 .. Len(got) : got[k] = s[k]

ReaderInv(c) ==
  /\ c.pc # "read" => c.fd = NoFile
  /\ c.pc = "read" =>
       /\ c.fd # NoFile /\ c.fd # dir["tmp"]
       /\ Readable(inode[c.fd], flushLost) /\ Begins(c.got, inode[c.fd])
  /\ c.pc = "ok" => Whole(c.got)

IInv ==
  /\ Typed /\ NamesInv
  /\ \A w \in Writers : WriterInv(writer[w])
  /\ \A r \in Readers : ReaderInv(reader[r])

-----------------------------------------------------------------------------
(* Sequences of blocks *)

LEMMA Blocks == NBlocks \in Nat /\ NBlocks >= 1 /\ MaxWrites \in Nat /\ MaxWrites >= 1
  BY ImageCacheAssumption

LEMMA WriteAtEnd ==
  ASSUME NEW s \in Seq(Nat), NEW m \in Nat, NEW n \in Nat, Filled(s, m, n)
  PROVE  WriteAt(s, n + 1, m) \in Seq(Nat) /\ Filled(WriteAt(s, n + 1, m), m, n + 1)
<1> DEFINE t == WriteAt(s, n + 1, m)
<1>1. t = [k \in 1 .. n + 1 |-> IF k = n + 1 THEN m ELSE IF k <= n THEN s[k] ELSE Hole]
  BY DEF WriteAt, Filled
<1>2. \A k \in 1 .. n + 1 : t[k] = m
  BY <1>1 DEF Filled
<1>3. t \in [1 .. n + 1 -> Nat] /\ DOMAIN t = 1 .. n + 1
  BY <1>1, <1>2
<1> HIDE DEF t
<1>4. t \in Seq(Nat)
  BY <1>3, n + 1 \in Nat
<1>5. Len(t) = n + 1
  BY <1>3, <1>4, LenProperties
<1> QED BY <1>2, <1>4, <1>5 DEF t, Filled

LEMMA FilledWhole ==
  ASSUME NEW s \in Seq(Nat), NEW m \in Images, Filled(s, m, NBlocks)
  PROVE  Whole(s) /\ s = [k \in 1 .. NBlocks |-> m]
<1>1. s \in [1 .. NBlocks -> Nat]
  BY LenProperties DEF Filled
<1> QED BY <1>1, Blocks DEF Filled, Whole, Images, Hole

LEMMA ReadWhole ==
  ASSUME NEW s \in Seq(Nat), NEW got \in Seq(Nat), NEW lost,
         Readable(s, lost), Begins(got, s), Len(got) + 1 > NBlocks
  PROVE  Whole(got)
<1>1. PICK m \in Images : Closed(s, m, lost)
  BY DEF Readable
<1>2. Len(got) \in Nat /\ Len(s) \in Nat
  BY LenProperties
<1>3. Len(got) = NBlocks /\ Len(s) = NBlocks
  BY <1>1, <1>2, Blocks DEF Begins, Closed, Filled
<1>4. Filled(s, m, NBlocks)
  BY <1>1, <1>3, Blocks DEF Closed, Filled
<1> QED BY <1>3, <1>4, Blocks DEF Begins, Filled, Whole, Images, Hole

LEMMA ReadOn ==
  ASSUME NEW s \in Seq(Nat), NEW got \in Seq(Nat), Begins(got, s), Len(got) + 1 <= Len(s)
  PROVE  /\ Append(got, s[Len(got) + 1]) \in Seq(Nat)
         /\ Begins(Append(got, s[Len(got) + 1]), s)
<1>1. Len(got) \in Nat /\ Len(s) \in Nat
  BY LenProperties
<1>2. s[Len(got) + 1] \in Nat
  BY <1>1, ElementOfSeq
<1> QED BY <1>1, <1>2, AppendProperties DEF Begins

-----------------------------------------------------------------------------
(* What the steps have in common *)

LEMMA Local ==
  ASSUME IInv
  PROVE  /\ \A w \in Writers : writer[w] \in WriterRecords /\ WriterInv(writer[w])
         /\ \A r \in Readers : reader[r] \in ReaderRecords /\ ReaderInv(reader[r])
         /\ dir["dst"] \in Inodes \cup {NoFile} /\ dir["tmp"] \in Inodes \cup {NoFile}
         /\ \A i \in Inodes : inode[i] \in Seq(Nat)
  BY DEF IInv, Typed

LEMMA TheWriter ==
  ASSUME OneWriter, NEW w \in Writers, WriterInv(writer[w])'
  PROVE  \A v \in Writers : WriterInv(writer[v])'
  BY DEF OneWriter

(* Readers do not notice what happens to other inodes. *)
LEMMA ReadersKept ==
  ASSUME IInv, reader' = reader,
         flushLost => flushLost',
         \A r \in Readers : reader[r].fd # NoFile =>
            reader[r].fd # dir'["tmp"] /\ inode'[reader[r].fd] = inode[reader[r].fd]
  PROVE  \A r \in Readers : ReaderInv(reader[r])'
<1> SUFFICES ASSUME NEW r \in Readers PROVE ReaderInv(reader[r])'
  OBVIOUS
<1>1. ReaderInv(reader[r])
  BY Local
<1>2. ASSUME NEW s, Readable(s, flushLost) PROVE Readable(s, flushLost')
  BY <1>2 DEF Readable, Closed
<1> QED BY <1>1, <1>2 DEF ReaderInv

(* A step of the writer that leaves the files alone. *)
LEMMA WriterOnly ==
  ASSUME OneWriter, IInv, NEW w \in Writers,
         \E c \in WriterRecords : writer' = [writer EXCEPT ![w] = c],
         UNCHANGED <<dir, inode, reader, counts, flushLost>>,
         WriterInv(writer[w])'
  PROVE  IInv'
<1>1. Typed'
  BY DEF IInv, Typed, counts
<1>2. NamesInv'
  BY DEF IInv, NamesInv, UsedUpTo, counts
<1>3. \A r \in Readers : ReaderInv(reader[r])'
  BY Local, ReadersKept DEF ReaderInv
<1> QED BY <1>1, <1>2, <1>3, TheWriter DEF IInv

LEMMA FreshWriterType == \A ok \in BOOLEAN : [FreshWriter EXCEPT !.ok = ok] \in WriterRecords
  BY Blocks DEF FreshWriter, WriterRecords

(* Every step of a writer sets its record to one of the right type. *)
LEMMA Returned ==
  ASSUME Typed, NEW w \in Writers, NEW ok \in BOOLEAN, Return(w, ok)
  PROVE  /\ \E c \in WriterRecords : writer' = [writer EXCEPT ![w] = c]
         /\ writer'[w].pc = "idle" /\ writer'[w].fd = NoFile /\ writer'[w].ok = ok
<1> DEFINE c == [FreshWriter EXCEPT !.ok = ok]
<1>1. c \in WriterRecords /\ c.pc = "idle" /\ c.fd = NoFile /\ c.ok = ok
  BY FreshWriterType DEF FreshWriter
<1>2. writer' = [writer EXCEPT ![w] = c]
  BY DEF Return
<1> HIDE DEF c
<1> QED BY <1>1, <1>2 DEF Typed

LEMMA WriterMoved ==
  ASSUME Typed, NEW w \in Writers,
         NEW pc \in {"idle", "open", "write", "discard", "remove", "rename"},
         NEW fd \in Inodes \cup {NoFile},
         \/ writer' = [writer EXCEPT ![w].pc = pc, ![w].fd = fd]
         \/ fd = writer[w].fd /\ writer' = [writer EXCEPT ![w].pc = pc]
  PROVE  /\ \E c \in WriterRecords : writer' = [writer EXCEPT ![w] = c]
         /\ writer'[w].pc = pc /\ writer'[w].fd = fd /\ writer'[w].at = writer[w].at
         /\ writer'[w].image = writer[w].image
<1>1. writer[w] \in WriterRecords
  BY DEF Typed
<1>2. CASE writer' = [writer EXCEPT ![w].pc = pc, ![w].fd = fd]
  <2> DEFINE c == [writer[w] EXCEPT !.pc = pc, !.fd = fd]
  <2>1. c \in WriterRecords /\ c.pc = pc /\ c.fd = fd /\ c.at = writer[w].at /\ c.image = writer[w].image
    BY <1>1 DEF WriterRecords
  <2>2. writer' = [writer EXCEPT ![w] = c]
    BY <1>1, <1>2 DEF Typed, WriterRecords
  <2> HIDE DEF c
  <2> QED BY <2>1, <2>2 DEF Typed
<1>3. CASE fd = writer[w].fd /\ writer' = [writer EXCEPT ![w].pc = pc]
  <2> DEFINE c == [writer[w] EXCEPT !.pc = pc]
  <2>1. c \in WriterRecords /\ c.pc = pc /\ c.fd = fd /\ c.at = writer[w].at /\ c.image = writer[w].image
    BY <1>1, <1>3 DEF WriterRecords
  <2>2. writer' = [writer EXCEPT ![w] = c]
    BY <1>3
  <2> HIDE DEF c
  <2> QED BY <2>1, <2>2 DEF Typed
<1> QED BY <1>2, <1>3

(* Names after a step that removes one or leaves both alone. *)
LEMMA Removed ==
  ASSUME IInv, NEW name \in {"dst", "tmp"}, Remove(name)
  PROVE  /\ dir' \in [{"dst", "tmp"} -> Inodes \cup {NoFile}]
         /\ dir'[name] \in {dir[name], NoFile}
         /\ \A other \in {"dst", "tmp"} \ {name} : dir'[other] = dir[other]
  BY DEF IInv, Typed, Remove

-----------------------------------------------------------------------------
(* The steps of a call of image_cache_write *)

LEMMA WriteRejectedInv ==
  ASSUME OneWriter, IInv, NEW w \in Writers, WriteRejected(w)
  PROVE  IInv'
<1> DEFINE c == [writer[w] EXCEPT !.ok = FALSE]
<1>1. c \in WriterRecords /\ c.pc = "idle" /\ c.fd = NoFile
  BY Local DEF WriterRecords, WriterInv, WriteRejected
<1>2. writer' = [writer EXCEPT ![w] = c]
  BY DEF WriteRejected
<1> HIDE DEF c
<1>3. WriterInv(writer[w])'
  BY <1>1, <1>2 DEF IInv, Typed, WriterInv
<1> QED BY <1>1, <1>2, <1>3, WriterOnly DEF WriteRejected

LEMMA WriteCallInv ==
  ASSUME OneWriter, IInv, NEW w \in Writers, WriteCall(w)
  PROVE  IInv'
<1> DEFINE c == [FreshWriter EXCEPT !.pc = "open", !.image = writes']
<1>1. writes' = writes + 1 /\ writes' \in Images /\ writes \in Nat
  BY Blocks DEF WriteCall, IInv, Typed, Images
<1>2. /\ c \in WriterRecords /\ c.pc = "open" /\ c.fd = NoFile
      /\ c.at = 1 /\ c.image = writes'
  <2>1. FreshWriter \in WriterRecords /\ FreshWriter.fd = NoFile /\ FreshWriter.at = 1
    BY Blocks DEF FreshWriter, WriterRecords
  <2> QED BY <1>1, <2>1 DEF WriterRecords
<1>3. writer' = [writer EXCEPT ![w] = c]
  BY DEF WriteCall
<1> HIDE DEF c
<1>4. UNCHANGED <<dir, inode, reader, crashes, flushLost>>
  BY DEF WriteCall
<1>5. Typed' /\ writer'[w] = c
  BY <1>1, <1>2, <1>3, <1>4 DEF IInv, Typed, Images
<1>6. UsedUpTo(writes)' /\ UsedUpTo(writes - 1)'
  <2>1. \A r \in Readers : reader[r].fd \in Nat /\ reader[r].fd <= writes
    BY Local DEF ReaderRecords, IInv, NamesInv, UsedUpTo, Inodes, Images, NoFile
  <2>2. dir["dst"] \in Nat /\ dir["tmp"] \in Nat /\ dir["dst"] <= writes /\ dir["tmp"] <= writes
    BY Local DEF IInv, NamesInv, UsedUpTo, Inodes, Images, NoFile
  <2> QED BY <1>1, <1>4, <2>1, <2>2 DEF UsedUpTo
<1>7. NamesInv'
  BY <1>4, <1>6 DEF IInv, NamesInv
<1>8. WriterInv(writer[w])'
  BY <1>1, <1>2, <1>5, <1>6 DEF WriterInv
<1>9. \A r \in Readers : ReaderInv(reader[r])'
  BY <1>4, Local, ReadersKept DEF ReaderInv
<1> QED BY <1>5, <1>7, <1>8, <1>9, TheWriter DEF IInv

LEMMA OpenInv ==
  ASSUME OneWriter, IInv, NEW w \in Writers, Open(w)
  PROVE  IInv'
<1> DEFINE i == IF dir["tmp"] = NoFile THEN writer[w].image ELSE dir["tmp"]
<1>1. /\ writer[w] \in WriterRecords /\ WriterInv(writer[w]) /\ writer[w].pc = "open"
      /\ writer[w].image = writes /\ writes \in Images /\ writer[w].at = 1
      /\ UsedUpTo(writes - 1)
  BY Local DEF Open, WriterInv
<1>2. /\ i \in Inodes /\ i # NoFile /\ i # dir["dst"] /\ i <= writes
      /\ \A r \in Readers : reader[r].fd # i
  <2>1. \A r \in Readers : reader[r] \in ReaderRecords /\ ReaderInv(reader[r])
    BY Local
  <2>2. CASE dir["tmp"] = NoFile
    BY <1>1, <2>1, <2>2, Local
       DEF UsedUpTo, Inodes, Images, NoFile, ReaderRecords
  <2>3. CASE dir["tmp"] # NoFile
    <3>1. \A r \in Readers : reader[r].fd # dir["tmp"]
      BY <2>1, <2>3 DEF ReaderInv
    <3>2. dir["dst"] # dir["tmp"] /\ dir["tmp"] <= writes
      BY <2>3 DEF IInv, NamesInv, UsedUpTo
    <3> QED BY <2>3, <3>1, <3>2, Local
  <2> QED BY <2>2, <2>3
<1>3. /\ dir' = [dir EXCEPT !["tmp"] = i]
      /\ inode' = [inode EXCEPT ![i] = <<>>]
      /\ writer' = [writer EXCEPT ![w].pc = "write", ![w].fd = i]
      /\ UNCHANGED <<reader, counts, flushLost>>
  BY DEF Open
<1> HIDE DEF i
<1>4. /\ \E c \in WriterRecords : writer' = [writer EXCEPT ![w] = c]
      /\ writer'[w].pc = "write" /\ writer'[w].fd = i /\ writer'[w].at = 1
      /\ writer'[w].image = writer[w].image
  BY <1>1, <1>2, <1>3, WriterMoved DEF IInv
<1>5. dir'["tmp"] = i /\ dir'["dst"] = dir["dst"] /\ inode'[i] = <<>>
      /\ \A k \in Inodes \ {i} : inode'[k] = inode[k]
  BY <1>2, <1>3 DEF IInv, Typed
<1>6. Typed'
  <2>1. <<>> \in Seq(Nat)
    BY EmptySeq
  <2> QED BY <1>2, <1>3, <1>4, <2>1 DEF IInv, Typed, counts
<1>7. NamesInv'
  BY <1>2, <1>3, <1>5, Local DEF IInv, NamesInv, UsedUpTo, counts
<1>8. WriterInv(writer[w])'
  <2>1. Filled(<<>>, writer[w].image, 0)
    BY DEF Filled
  <2> QED BY <1>1, <1>2, <1>4, <1>5, <2>1, Blocks DEF WriterInv
<1>9. \A r \in Readers : ReaderInv(reader[r])'
  BY <1>2, <1>3, <1>5, Local, ReadersKept DEF ReaderRecords
<1> QED BY <1>6, <1>7, <1>8, <1>9, TheWriter DEF IInv

LEMMA OpenFailsInv ==
  ASSUME OneWriter, IInv, NEW w \in Writers, OpenFails(w)
  PROVE  IInv'
<1>1. Return(w, FALSE) /\ Typed /\ UNCHANGED <<dir, inode, reader, counts, flushLost>>
  BY DEF OpenFails, IInv
<1>2. /\ \E c \in WriterRecords : writer' = [writer EXCEPT ![w] = c]
      /\ writer'[w].pc = "idle" /\ writer'[w].fd = NoFile
  BY <1>1, Returned
<1>3. WriterInv(writer[w])'
  BY <1>2 DEF WriterInv
<1> QED BY <1>1, <1>2, <1>3, WriterOnly

LEMMA WriteFailsInv ==
  ASSUME OneWriter, IInv, NEW w \in Writers, WriteFails(w)
  PROVE  IInv'
<1>1. /\ Typed /\ writer' = [writer EXCEPT ![w].pc = "discard", ![w].fd = NoFile]
      /\ WriterInv(writer[w]) /\ writer[w].pc = "write"
  BY Local DEF WriteFails, IInv
<1>2. /\ \E c \in WriterRecords : writer' = [writer EXCEPT ![w] = c]
      /\ writer'[w].pc = "discard" /\ writer'[w].fd = NoFile
      /\ writer'[w].image = writer[w].image
  BY <1>1, WriterMoved
<1>3. WriterInv(writer[w])'
  BY <1>1, <1>2 DEF WriterInv
<1> QED BY <1>2, <1>3, WriterOnly DEF WriteFails

LEMMA RenameFailsInv ==
  ASSUME OneWriter, IInv, NEW w \in Writers, RenameFails(w)
  PROVE  IInv'
<1>1. /\ Typed /\ writer' = [writer EXCEPT ![w].pc = "discard"]
      /\ WriterInv(writer[w]) /\ writer[w].pc = "rename"
      /\ writer[w].fd \in Inodes \cup {NoFile}
  BY Local DEF RenameFails, IInv, WriterRecords
<1>2. /\ \E c \in WriterRecords : writer' = [writer EXCEPT ![w] = c]
      /\ writer'[w].pc = "discard" /\ writer'[w].fd = writer[w].fd
      /\ writer'[w].image = writer[w].image
  BY <1>1, WriterMoved
<1>3. WriterInv(writer[w])'
  BY <1>1, <1>2 DEF WriterInv
<1> QED BY <1>2, <1>3, WriterOnly DEF RenameFails

(* The file being written is neither the published one nor a reader's. *)
LEMMA OwnFile ==
  ASSUME IInv, NEW w \in Writers, writer[w].pc = "write"
  PROVE  /\ writer[w].fd \in Inodes /\ writer[w].fd = dir["tmp"] /\ writer[w].fd # dir["dst"]
         /\ \A r \in Readers : reader[r].fd # writer[w].fd
         /\ writer[w].image \in Images /\ writer[w].at \in 1 .. NBlocks + 1
         /\ inode[writer[w].fd] \in Seq(Nat)
<1>1. WriterInv(writer[w]) /\ writer[w] \in WriterRecords
  BY Local
<1>2. \A r \in Readers : ReaderInv(reader[r])
  BY Local
<1>3. writer[w].fd = dir["tmp"] /\ writer[w].fd # NoFile /\ writer[w].fd \in Inodes
  BY <1>1 DEF WriterInv, WriterRecords
<1> QED BY <1>1, <1>2, <1>3, Local DEF IInv, NamesInv, ReaderInv, WriterInv, WriterRecords

(* A step that writes to that file. *)
LEMMA FileWritten ==
  ASSUME OneWriter, IInv, NEW w \in Writers, writer[w].pc = "write",
         inode' \in [Inodes -> Seq(Nat)],
         \A i \in Inodes : i # writer[w].fd => inode'[i] = inode[i],
         \E c \in WriterRecords : writer' = [writer EXCEPT ![w] = c],
         flushLost' \in BOOLEAN, flushLost => flushLost',
         UNCHANGED <<dir, reader, counts>>,
         WriterInv(writer[w])'
  PROVE  IInv'
<1>1. Typed'
  BY DEF IInv, Typed, counts
<1>2. NamesInv'
  <2>1. ASSUME NEW s, Readable(s, flushLost) PROVE Readable(s, flushLost')
    BY <2>1 DEF Readable, Closed
  <2> QED BY <2>1, OwnFile, Local DEF IInv, NamesInv, UsedUpTo, counts
<1>3. \A r \in Readers : ReaderInv(reader[r])'
  <2>1. \A r \in Readers : reader[r].fd # NoFile =>
            reader[r].fd # dir'["tmp"] /\ inode'[reader[r].fd] = inode[reader[r].fd]
    <3>1. \A r \in Readers : reader[r].fd # writer[w].fd /\ reader[r].fd \in Inodes \cup {NoFile}
      BY OwnFile, Local DEF ReaderRecords
    <3>2. writer[w].fd = dir'["tmp"]
      BY OwnFile
    <3> QED BY <3>1, <3>2
  <2> QED BY <2>1, ReadersKept
<1> QED BY <1>1, <1>2, <1>3, TheWriter DEF IInv

LEMMA WriteBlockInv ==
  ASSUME OneWriter, IInv, NEW w \in Writers, WriteBlock(w)
  PROVE  IInv'
<1> DEFINE at == writer[w].at
           fd == writer[w].fd
           m == writer[w].image
           s == inode[fd]
           c == [writer[w] EXCEPT !.at = at + 1]
<1>1. /\ writer[w].pc = "write" /\ at <= NBlocks /\ at \in 1 .. NBlocks + 1
      /\ fd \in Inodes /\ fd = dir["tmp"] /\ fd # NoFile
      /\ m \in Images /\ s \in Seq(Nat) /\ WriterInv(writer[w]) /\ writer[w] \in WriterRecords
  BY OwnFile, Local DEF WriteBlock, WriterInv
<1>2. Filled(s, m, at - 1)
  <2>1. ~ (at > NBlocks)
    BY <1>1, Blocks
  <2> QED BY <1>1, <2>1 DEF WriterInv
<1>3. /\ c \in WriterRecords /\ c.pc = "write" /\ c.at = at + 1 /\ c.fd = fd /\ c.image = m
      /\ writer' = [writer EXCEPT ![w] = c]
  BY <1>1, Blocks DEF WriterRecords, WriteBlock
<1>4. /\ inode' = IF at = NBlocks THEN inode ELSE [inode EXCEPT ![fd] = WriteAt(s, at, m)]
      /\ UNCHANGED <<dir, reader, counts, flushLost>>
  BY <1>1 DEF WriteBlock, IInv, Typed
<1> HIDE DEF c, at, fd, m, s
<1>5. WriteAt(s, at, m) \in Seq(Nat) /\ Filled(WriteAt(s, at, m), m, at)
  <2>1. at - 1 \in Nat /\ m \in Nat /\ (at - 1) + 1 = at
    BY <1>1, Blocks DEF Images
  <2> QED BY <1>1, <1>2, <2>1, WriteAtEnd
<1>6. writer'[w] = c
  BY <1>3 DEF IInv, Typed
<1>7. inode' \in [Inodes -> Seq(Nat)] /\ \A i \in Inodes : i # fd => inode'[i] = inode[i]
  BY <1>1, <1>4, <1>5 DEF IInv, Typed
<1>8. Filled(inode'[fd], m, IF at + 1 > NBlocks THEN NBlocks - 1 ELSE at)
  <2>1. CASE at = NBlocks
    BY <1>1, <1>2, <1>4, <2>1, Blocks DEF s
  <2>2. CASE at # NBlocks
    <3>1. inode'[fd] = WriteAt(s, at, m)
      BY <1>1, <1>4, <2>2 DEF IInv, Typed
    <3>2. ~ (at + 1 > NBlocks)
      BY <1>1, <2>2, Blocks
    <3> QED BY <1>5, <3>1, <3>2
  <2> QED BY <2>1, <2>2
<1>9. WriterInv(writer[w])'
  <2>1. (at + 1) - 1 = at /\ c.image \in Images /\ c.fd = dir'["tmp"] /\ c.fd # NoFile
    BY <1>1, <1>3, <1>4, Blocks
  <2>2. Filled(inode'[c.fd], c.image, IF c.at > NBlocks THEN NBlocks - 1 ELSE c.at - 1)
    BY <1>3, <1>8, <2>1
  <2> QED BY <1>3, <1>6, <2>1, <2>2 DEF WriterInv
<1>10. flushLost' \in BOOLEAN /\ (flushLost => flushLost')
  BY <1>4 DEF IInv, Typed
<1> QED BY <1>1, <1>3, <1>4, <1>7, <1>9, <1>10, FileWritten DEF fd

LEMMA CloseInv ==
  ASSUME OneWriter, IInv, NEW w \in Writers, Close(w)
  PROVE  IInv'
<1> DEFINE fd == writer[w].fd
           m == writer[w].image
           s == inode[fd]
           t == WriteAt(s, NBlocks, m)
<1>1. /\ writer[w].pc = "write" /\ writer[w].at > NBlocks
      /\ fd \in Inodes /\ fd = dir["tmp"] /\ fd # NoFile
      /\ m \in Images /\ s \in Seq(Nat) /\ WriterInv(writer[w])
  BY OwnFile, Local DEF Close, WriterInv
<1>2. Filled(s, m, NBlocks - 1)
  BY <1>1 DEF WriterInv
<1>3. t \in Seq(Nat) /\ Filled(t, m, NBlocks)
  <2>1. NBlocks - 1 \in Nat /\ m \in Nat /\ (NBlocks - 1) + 1 = NBlocks
    BY <1>1, Blocks DEF Images
  <2> QED BY <1>1, <1>2, <2>1, WriteAtEnd
<1>4. writer' = [writer EXCEPT ![w].pc = "remove", ![w].fd = NoFile]
  BY DEF Close
<1>5. \/ inode' = [inode EXCEPT ![fd] = t] /\ flushLost' = flushLost
      \/ inode' = inode /\ flushLost' = TRUE
  BY <1>1 DEF Close, IInv, Typed
<1> HIDE DEF fd, m, s, t
<1>6. /\ \E c \in WriterRecords : writer' = [writer EXCEPT ![w] = c]
      /\ writer'[w].pc = "remove" /\ writer'[w].fd = NoFile
      /\ writer'[w].image = writer[w].image
  BY <1>4, WriterMoved DEF IInv
<1>7. inode' \in [Inodes -> Seq(Nat)] /\ \A i \in Inodes : i # fd => inode'[i] = inode[i]
  BY <1>1, <1>3, <1>5 DEF IInv, Typed
<1>8. flushLost' \in BOOLEAN /\ (flushLost => flushLost')
  BY <1>5 DEF IInv, Typed
<1>9. UNCHANGED <<dir, reader, counts>>
  BY DEF Close
<1>10. Closed(inode'[fd], m, flushLost')
  <2>1. CASE inode' = [inode EXCEPT ![fd] = t] /\ flushLost' = flushLost
    <3>1. inode'[fd] = t
      BY <1>1, <2>1 DEF IInv, Typed
    <3> QED BY <1>3, <3>1 DEF Closed
  <2>2. CASE inode' = inode /\ flushLost' = TRUE
    BY <1>2, <2>2 DEF Closed, s
  <2> QED BY <1>5, <2>1, <2>2
<1>11. WriterInv(writer[w])'
  BY <1>1, <1>6, <1>9, <1>10 DEF WriterInv, m
<1> QED BY <1>1, <1>6, <1>7, <1>8, <1>9, <1>11, FileWritten DEF fd

(* A step that takes a name away, or tries to. *)
LEMMA NameRemoved ==
  ASSUME OneWriter, IInv, NEW name \in {"dst", "tmp"}, Remove(name),
         UNCHANGED <<inode, reader, counts, flushLost>>,
         writer' \in [Writers -> WriterRecords],
         \A w \in Writers : WriterInv(writer[w])'
  PROVE  IInv'
<1>1. /\ dir' \in [{"dst", "tmp"} -> Inodes \cup {NoFile}]
      /\ dir'["dst"] \in {dir["dst"], NoFile} /\ dir'["tmp"] \in {dir["tmp"], NoFile}
  BY Removed
<1>2. Typed'
  BY <1>1 DEF IInv, Typed, counts
<1>3. NamesInv'
  <2>1. dir'["dst"] <= writes /\ dir'["tmp"] <= writes
    BY <1>1 DEF IInv, Typed, NamesInv, UsedUpTo, NoFile
  <2> QED BY <1>1, <2>1 DEF IInv, NamesInv, UsedUpTo, counts
<1>4. \A r \in Readers : ReaderInv(reader[r])'
  BY <1>1, Local, ReadersKept DEF ReaderInv
<1> QED BY <1>2, <1>3, <1>4 DEF IInv

LEMMA DiscardInv ==
  ASSUME OneWriter, IInv, NEW w \in Writers, Discard(w)
  PROVE  IInv'
<1>1. /\ Return(w, FALSE) /\ Typed /\ Remove("tmp")
      /\ UNCHANGED <<inode, reader, counts, flushLost>>
  BY DEF Discard, IInv
<1>2. /\ \E c \in WriterRecords : writer' = [writer EXCEPT ![w] = c]
      /\ writer'[w].pc = "idle" /\ writer'[w].fd = NoFile
  BY <1>1, Returned
<1>3. WriterInv(writer[w])'
  BY <1>2 DEF WriterInv
<1>4. writer' \in [Writers -> WriterRecords]
  BY <1>1, <1>2 DEF Typed
<1> QED BY <1>1, <1>3, <1>4, TheWriter, NameRemoved

LEMMA RemoveDstInv ==
  ASSUME OneWriter, IInv, NEW w \in Writers, RemoveDst(w)
  PROVE  IInv'
<1>1. /\ writer' = [writer EXCEPT ![w].pc = "rename"] /\ Typed /\ Remove("dst")
      /\ UNCHANGED <<inode, reader, counts, flushLost>>
      /\ writer[w].pc = "remove" /\ WriterInv(writer[w])
      /\ writer[w].fd \in Inodes \cup {NoFile}
  BY Local DEF RemoveDst, IInv, WriterRecords
<1>2. /\ \E c \in WriterRecords : writer' = [writer EXCEPT ![w] = c]
      /\ writer'[w].pc = "rename" /\ writer'[w].fd = writer[w].fd
      /\ writer'[w].image = writer[w].image
  BY <1>1, WriterMoved
<1>3. dir'["tmp"] = dir["tmp"]
  BY <1>1, Removed
<1>4. WriterInv(writer[w])'
  BY <1>1, <1>2, <1>3 DEF WriterInv
<1>5. writer' \in [Writers -> WriterRecords]
  BY <1>1, <1>2 DEF Typed
<1> QED BY <1>1, <1>4, <1>5, TheWriter, NameRemoved

LEMMA RenameInv ==
  ASSUME OneWriter, IInv, NEW w \in Writers, Rename(w)
  PROVE  IInv'
<1>1. /\ Return(w, TRUE) /\ Typed /\ dir["tmp"] # NoFile
      /\ dir' = [dir EXCEPT !["dst"] = dir["tmp"], !["tmp"] = NoFile]
      /\ UNCHANGED <<inode, reader, counts, flushLost>>
      /\ writer[w].pc = "rename" /\ WriterInv(writer[w])
  BY Local DEF Rename, IInv
<1>2. /\ \E c \in WriterRecords : writer' = [writer EXCEPT ![w] = c]
      /\ writer'[w].pc = "idle" /\ writer'[w].fd = NoFile
  BY <1>1, Returned
<1>3. dir'["dst"] = dir["tmp"] /\ dir'["tmp"] = NoFile
  BY <1>1 DEF Typed
<1>4. Typed'
  BY <1>1, <1>2, <1>3 DEF Typed, counts
<1>5. Readable(inode[dir["tmp"]], flushLost)
  BY <1>1 DEF WriterInv, Readable
<1>6. NamesInv'
  BY <1>1, <1>3, <1>5 DEF IInv, Typed, NamesInv, UsedUpTo, counts, NoFile
<1>7. WriterInv(writer[w])'
  BY <1>2 DEF WriterInv
<1>8. \A r \in Readers : ReaderInv(reader[r])'
  BY <1>1, <1>3, Local, ReadersKept
<1> QED BY <1>4, <1>6, <1>7, <1>8, TheWriter DEF IInv

-----------------------------------------------------------------------------
(* The steps of a call of image_cache_read, and those of neither *)

LEMMA FreshReaderInv == FreshReader \in ReaderRecords /\ ReaderInv(FreshReader)
  BY EmptySeq DEF FreshReader, ReaderRecords, ReaderInv

LEMMA ReaderStep ==
  ASSUME IInv, NEW r \in Readers,
         \E c \in ReaderRecords : /\ reader' = [reader EXCEPT ![r] = c]
                                   /\ ReaderInv(c)
                                   /\ c.fd \in {reader[r].fd, dir["dst"], NoFile},
         UNCHANGED <<dir, inode, writer, counts, flushLost>>
  PROVE  IInv'
<1>1. PICK c \in ReaderRecords : /\ reader' = [reader EXCEPT ![r] = c]
                                 /\ ReaderInv(c)
                                 /\ c.fd \in {reader[r].fd, dir["dst"], NoFile}
  OBVIOUS
<1>2. Typed' /\ reader'[r] = c
  BY <1>1 DEF IInv, Typed, counts
<1>3. \A q \in Readers : reader'[q].fd \in {reader[q].fd, dir["dst"], NoFile}
  BY <1>1 DEF IInv, Typed
<1>4. \A n \in Nat : UsedUpTo(n) => UsedUpTo(n)'
  BY <1>3 DEF UsedUpTo, NoFile
<1>5. writes \in Nat /\ (writes \in Images => writes - 1 \in Nat) /\ writes' = writes
  BY Blocks DEF IInv, Typed, Images, counts
<1>6. UsedUpTo(writes) => UsedUpTo(writes)'
  BY <1>4, <1>5 DEF UsedUpTo
<1>7. UsedUpTo(writes - 1) /\ writes \in Images => UsedUpTo(writes - 1)'
  BY <1>4, <1>5 DEF UsedUpTo
<1>8. NamesInv'
  BY <1>6 DEF IInv, NamesInv
<1>9. \A w \in Writers : WriterInv(writer[w])'
  BY <1>5, <1>7 DEF IInv, WriterInv
<1>10. \A q \in Readers : ReaderInv(reader[q])'
  <2> SUFFICES ASSUME NEW q \in Readers PROVE ReaderInv(reader[q])'
    OBVIOUS
  <2>1. reader'[q] = reader[q] \/ reader'[q] = c
    BY <1>1 DEF IInv, Typed
  <2>2. ReaderInv(reader[q]) /\ ReaderInv(c)
    BY <1>1, Local
  <2> QED BY <2>1, <2>2 DEF ReaderInv
<1> QED BY <1>2, <1>8, <1>9, <1>10 DEF IInv

LEMMA ReadFailsInv ==
  ASSUME IInv, NEW r \in Readers, ReadCannotOpen(r) \/ ReadRejects(r)
  PROVE  IInv'
  BY FreshReaderInv, ReaderStep DEF ReadCannotOpen, ReadRejects, ReadFails, FreshReader

LEMMA ReadCallInv ==
  ASSUME IInv, NEW r \in Readers, ReadCall(r)
  PROVE  IInv'
<1> DEFINE c == [pc |-> "read", fd |-> dir["dst"], got |-> <<>>]
<1>1. /\ dir["dst"] # NoFile /\ dir["dst"] \in Inodes
      /\ dir["dst"] # dir["tmp"] /\ Readable(inode[dir["dst"]], flushLost)
      /\ inode[dir["dst"]] \in Seq(Nat)
  BY Local DEF ReadCall, IInv, NamesInv
<1>2. <<>> \in Seq(Nat) /\ Begins(<<>>, inode[dir["dst"]])
  BY <1>1, EmptySeq, LenProperties DEF Begins
<1>3. c \in ReaderRecords /\ ReaderInv(c) /\ c.fd = dir["dst"]
  BY <1>1, <1>2 DEF ReaderRecords, ReaderInv
<1>4. reader' = [reader EXCEPT ![r] = c]
  BY DEF ReadCall
<1> HIDE DEF c
<1> QED BY <1>3, <1>4, ReaderStep DEF ReadCall

LEMMA ReadBlockInv ==
  ASSUME IInv, NEW r \in Readers, ReadBlock(r)
  PROVE  IInv'
<1> DEFINE s == inode[reader[r].fd]
           got == reader[r].got
           next == Append(got, s[Len(got) + 1])
           c == [reader[r] EXCEPT !.got = next]
<1>1. /\ reader[r].pc = "read" /\ reader[r] \in ReaderRecords /\ ReaderInv(reader[r])
      /\ reader[r].fd \in Inodes /\ s \in Seq(Nat) /\ got \in Seq(Nat) /\ Begins(got, s)
  BY Local DEF ReadBlock, ReaderInv, ReaderRecords
<1>2. Len(got) + 1 <= Len(s)
  <2>1. ~ (Len(got) + 1 > Len(s))
    BY DEF ReadBlock, Short, NextAt
  <2> HIDE DEF got, s
  <2> QED BY <1>1, <2>1, LenProperties
<1>3. next \in Seq(Nat) /\ Begins(next, s)
  <2> HIDE DEF got, s
  <2> QED BY <1>1, <1>2, ReadOn
<1>4. reader' = [reader EXCEPT ![r] = c]
  BY <1>1 DEF ReadBlock, NextAt, IInv, Typed, ReaderRecords
<1> HIDE DEF next
<1>5. c \in ReaderRecords /\ c.pc = "read" /\ c.fd = reader[r].fd /\ c.got = next
  BY <1>1, <1>3 DEF ReaderRecords
<1> HIDE DEF c
<1>6. ReaderInv(c)
  BY <1>1, <1>3, <1>5 DEF ReaderInv
<1> QED BY <1>4, <1>5, <1>6, ReaderStep DEF ReadBlock

LEMMA ReadDoneInv ==
  ASSUME IInv, NEW r \in Readers, ReadDone(r)
  PROVE  IInv'
<1> DEFINE s == inode[reader[r].fd]
           got == reader[r].got
           c == [reader[r] EXCEPT !.pc = "ok", !.fd = NoFile]
<1>1. /\ reader[r].pc = "read" /\ reader[r] \in ReaderRecords /\ ReaderInv(reader[r])
      /\ s \in Seq(Nat) /\ got \in Seq(Nat) /\ Begins(got, s) /\ Readable(s, flushLost)
  BY Local DEF ReadDone, ReaderInv, ReaderRecords
<1>2. Len(got) + 1 > NBlocks
  BY DEF ReadDone, NextAt
<1>3. Whole(got)
  <2> HIDE DEF got, s
  <2> QED BY <1>1, <1>2, ReadWhole
<1>4. reader' = [reader EXCEPT ![r] = c]
  BY <1>1 DEF ReadDone, IInv, Typed, ReaderRecords
<1>5. c \in ReaderRecords /\ c.pc = "ok" /\ c.fd = NoFile /\ c.got = got
  BY <1>1 DEF ReaderRecords
<1> HIDE DEF c
<1>6. ReaderInv(c)
  BY <1>3, <1>5 DEF ReaderInv
<1> QED BY <1>4, <1>5, <1>6, ReaderStep DEF ReadDone

LEMMA ClearInv == ASSUME OneWriter, IInv, Clear PROVE IInv'
<1>1. /\ Typed /\ Remove("dst") /\ UNCHANGED <<inode, writer, reader, counts, flushLost>>
  BY DEF Clear, IInv
<1>2. dir'["tmp"] = dir["tmp"]
  BY <1>1, Removed
<1>3. \A w \in Writers : WriterInv(writer[w])'
  <2> SUFFICES ASSUME NEW w \in Writers PROVE WriterInv(writer[w])'
    OBVIOUS
  <2>1. dir'["dst"] \in {dir["dst"], NoFile}
    BY <1>1, Removed
  <2>2. UsedUpTo(writes - 1) /\ writes \in Images => UsedUpTo(writes - 1)'
    BY <1>1, <1>2, <2>1, Blocks DEF UsedUpTo, counts, NoFile, Images
  <2> QED BY <1>1, <1>2, <2>2, Local DEF WriterInv, counts
<1>4. writer' \in [Writers -> WriterRecords]
  BY <1>1 DEF Typed
<1> QED BY <1>1, <1>3, <1>4, NameRemoved

LEMMA CrashInv == ASSUME OneWriter, IInv, Crash PROVE IInv'
<1>1. /\ FreshWriter \in WriterRecords /\ FreshWriter.pc = "idle" /\ FreshWriter.fd = NoFile
      /\ FreshReader \in ReaderRecords /\ FreshReader.fd = NoFile /\ FreshReader.pc = "idle"
  BY Blocks, FreshReaderInv DEF FreshWriter, WriterRecords, FreshReader
<1>2. Typed'
  BY <1>1, ImageCacheAssumption DEF Crash, IInv, Typed
<1>3. NamesInv'
  BY <1>1 DEF Crash, IInv, Typed, NamesInv, UsedUpTo, NoFile
<1>4. \A w \in Writers : WriterInv(writer[w])'
  BY <1>1 DEF Crash, WriterInv
<1>5. \A r \in Readers : ReaderInv(reader[r])'
  BY <1>1 DEF Crash, ReaderInv
<1> QED BY <1>2, <1>3, <1>4, <1>5 DEF IInv

-----------------------------------------------------------------------------
LEMMA InitInv == Init => IInv
<1> SUFFICES ASSUME Init PROVE IInv
  OBVIOUS
<1>1. /\ FreshWriter \in WriterRecords /\ FreshWriter.pc = "idle" /\ FreshWriter.fd = NoFile
      /\ FreshReader \in ReaderRecords /\ FreshReader.fd = NoFile /\ FreshReader.pc = "idle"
  BY Blocks, FreshReaderInv DEF FreshWriter, WriterRecords, FreshReader
<1>2. Typed
  <2>1. <<>> \in Seq(Nat) /\ 0 \in 0 .. MaxWrites /\ 0 \in 0 .. MaxCrashes
    BY EmptySeq, ImageCacheAssumption
  <2> QED BY <1>1, <2>1 DEF Init, Typed
<1>3. NamesInv
  BY <1>1 DEF Init, NamesInv, UsedUpTo, NoFile
<1> QED BY <1>1, <1>2, <1>3 DEF Init, IInv, WriterInv, ReaderInv

LEMMA NextInv == OneWriter /\ IInv /\ [Next]_vars => IInv'
<1> SUFFICES ASSUME OneWriter, IInv, [Next]_vars PROVE IInv'
  OBVIOUS
<1>1. ASSUME NEW w \in Writers, WriteRejected(w) \/ WriteCall(w) \/ WriteStep(w) PROVE IInv'
  BY <1>1, WriteRejectedInv, WriteCallInv, OpenInv, OpenFailsInv, WriteBlockInv, WriteFailsInv,
     DiscardInv, CloseInv, RemoveDstInv, RenameInv, RenameFailsInv DEF WriteStep
<1>2. ASSUME NEW r \in Readers, ReadStep(r) PROVE IInv'
  BY <1>2, ReadCallInv, ReadFailsInv, ReadBlockInv, ReadDoneInv DEF ReadStep
<1>3. CASE UNCHANGED vars
  BY <1>3 DEF vars, counts, IInv, Typed, NamesInv, UsedUpTo, WriterInv, ReaderInv
<1> QED BY <1>1, <1>2, <1>3, ClearInv, CrashInv DEF Next

LEMMA Invariant == OneWriter => (Spec => []IInv)
<1> SUFFICES ASSUME OneWriter PROVE Spec => []IInv
  OBVIOUS
<1>1. IInv /\ [Next]_vars => IInv'
  BY NextInv
<1> QED BY <1>1, InitInv, PTL DEF Spec

(* What a reader finds under the .aifill name is a complete image, after   *)
(* any failed write, failed rename or kill of image_cache_write.           *)
THEOREM PublishedIsWhole == OneWriter => (Spec => []PublishedWhole)
<1> SUFFICES ASSUME OneWriter PROVE Spec => []PublishedWhole
  OBVIOUS
<1>1. IInv => PublishedWhole
  <2> SUFFICES ASSUME IInv, dir["dst"] # NoFile, ~ flushLost PROVE Whole(inode[dir["dst"]])
    BY DEF PublishedWhole
  <2>1. inode[dir["dst"]] \in Seq(Nat) /\ Readable(inode[dir["dst"]], flushLost)
    BY Local DEF IInv, NamesInv
  <2> QED BY <2>1, FilledWhole DEF Readable, Closed
<1> QED BY <1>1, Invariant, PTL

(* image_cache_read never reports ok for a mixture of two images or for    *)
(* one cut short, not even after a lost flush.                             *)
THEOREM ReadsAreWhole == OneWriter => (Spec => []ReadOkIsWhole)
<1> SUFFICES ASSUME OneWriter PROVE Spec => []ReadOkIsWhole
  OBVIOUS
<1>1. IInv => ReadOkIsWhole
  BY DEF IInv, ReaderInv, ReadOkIsWhole
<1> QED BY <1>1, Invariant, PTL

-----------------------------------------------------------------------------
(* What a single step does *)

LEMMA EndsOfCalls ==
  ASSUME OneWriter, IInv, [Next]_vars, NEW w \in Writers,
         writer[w].pc # "idle", writer'[w].pc = "idle"
  PROVE  \/ OpenFails(w) /\ ~ writer'[w].ok
         \/ Discard(w) /\ ~ writer'[w].ok
         \/ Rename(w) /\ writer'[w].ok
         \/ Crash /\ ~ writer'[w].ok
<1>1. Typed /\ writer[w] \in WriterRecords /\ \A v \in Writers : v = w
  BY DEF IInv, Typed, OneWriter
<1>2. ASSUME NEW v \in Writers, WriteRejected(v) \/ WriteCall(v) PROVE FALSE
  BY <1>1, <1>2 DEF WriteRejected, WriteCall
<1>3. ASSUME NEW v \in Writers,
             Open(v) \/ WriteBlock(v) \/ WriteFails(v) \/ Close(v) \/ RemoveDst(v) \/ RenameFails(v)
      PROVE  FALSE
  <2>1. v = w
    BY <1>1
  <2>2. writer'[w].pc \in {"write", "discard", "remove", "rename"}
    BY <1>1, <1>3, <2>1
       DEF Open, WriteBlock, WriteFails, Close, RemoveDst, RenameFails, Typed, WriterRecords
  <2> QED BY <2>2
<1>4. ASSUME NEW v \in Writers, OpenFails(v) \/ Discard(v)
      PROVE  (OpenFails(w) \/ Discard(w)) /\ ~ writer'[w].ok
  BY <1>1, <1>4, Returned DEF OpenFails, Discard
<1>5. ASSUME NEW v \in Writers, Rename(v) PROVE Rename(w) /\ writer'[w].ok
  BY <1>1, <1>5, Returned DEF Rename
<1>6. CASE Crash
  BY <1>6 DEF Crash, FreshWriter
<1>7. CASE (\E r \in Readers : ReadStep(r)) \/ Clear \/ UNCHANGED vars
  <2>1. writer' = writer
    BY <1>7 DEF ReadStep, ReadCall, ReadCannotOpen, ReadBlock, ReadRejects, ReadDone, Clear, vars
  <2> QED BY <2>1
<1> QED BY <1>2, <1>3, <1>4, <1>5, <1>6, <1>7 DEF Next, WriteStep

(* true from image_cache_write: this very image is under the name, all of  *)
(* it unless a flush was lost.                                             *)
THEOREM TruePublishes == OneWriter => (Spec => TrueMeansPublished)
<1> SUFFICES ASSUME OneWriter PROVE Spec => TrueMeansPublished
  OBVIOUS
<1>1. ASSUME IInv, [Next]_vars, NEW w \in Writers,
             writer[w].pc # "idle", writer'[w].pc = "idle", writer'[w].ok
      PROVE  /\ dir'["dst"] # NoFile
             /\ ~ flushLost =>
                  inode'[dir'["dst"]] = [k \in 1 .. NBlocks |-> writer[w].image]
  <2>1. Rename(w)
    BY <1>1, EndsOfCalls
  <2>2. /\ dir["tmp"] # NoFile /\ dir'["dst"] = dir["tmp"] /\ inode' = inode
        /\ writer[w].pc = "rename"
    BY <1>1, <2>1 DEF Rename, IInv, Typed
  <2>3. /\ Closed(inode[dir["tmp"]], writer[w].image, flushLost)
        /\ writer[w].image \in Images /\ inode[dir["tmp"]] \in Seq(Nat)
    BY <1>1, <2>2, Local DEF WriterInv
  <2> QED BY <2>2, <2>3, FilledWhole DEF Closed
<1>2. IInv /\ [Next]_vars =>
        [\A w \in Writers :
           writer[w].pc # "idle" /\ writer'[w].pc = "idle" /\ writer'[w].ok
             => /\ dir'["dst"] # NoFile
                /\ ~ flushLost =>
                     inode'[dir'["dst"]] = [k \in 1 .. NBlocks |-> writer[w].image]]_vars
  BY <1>1
<1> QED BY <1>2, Invariant, PTL DEF Spec, TrueMeansPublished

(* The old file is removed only with the new one complete beside it.       *)
THEOREM OldGivesWay == OneWriter => (Spec => OldGoesForWhole)
<1> SUFFICES ASSUME OneWriter PROVE Spec => OldGoesForWhole
  OBVIOUS
<1>1. ASSUME IInv, NEW w \in Writers, writer[w].pc = "remove"
      PROVE  dir["tmp"] # NoFile /\ (flushLost \/ Whole(inode[dir["tmp"]]))
  <2>1. /\ dir["tmp"] # NoFile /\ Closed(inode[dir["tmp"]], writer[w].image, flushLost)
        /\ writer[w].image \in Images /\ inode[dir["tmp"]] \in Seq(Nat)
    BY <1>1, Local DEF WriterInv
  <2> QED BY <2>1, FilledWhole DEF Closed
<1>2. IInv /\ [Next]_vars =>
        [\A w \in Writers :
           writer[w].pc = "remove" /\ writer'[w].pc = "rename"
             => dir["tmp"] # NoFile /\ (flushLost \/ Whole(inode[dir["tmp"]]))]_vars
  BY <1>1
<1> QED BY <1>2, Invariant, PTL DEF Spec, OldGoesForWhole
=============================================================================

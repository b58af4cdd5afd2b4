-------------------------------- MODULE Fs --------------------------------
(***************************************************************************)
(* The FUSE file system of fslab/fs.c: one action per handler that changes *)
(* the disk.  FUSE runs with -s, so handlers run one at a time, and main   *)
(* formats the disk at every start, so a session always begins with mkfs.  *)
(*                                                                         *)
(* The kernel looks paths up (through fs_getattr) before it calls a        *)
(* handler; its checks are the Kernel... operators.  Times are left out.   *)
(***************************************************************************)
EXTENDS Disk, Sequences, SequencesExt

CONSTANTS
  Names,           (* File names: numbers, for a name is a word of a block.*)
  MaxDepth,        (* Bound: names in a path.                              *)
  MaxSize,         (* Bound: words in a file.                              *)
  Writes,          (* The sequences of words that calls write.             *)
  Sparse,          (* Whether a write may start after the end of the file. *)
  CutHoles,        (* Whether a file may be cut in the middle of a hole.   *)
  RemoveNonEmpty   (* Whether a directory with entries may be removed.     *)

ASSUME NamesAssumption  == Names \subseteq Nat \ {0}
ASSUME DepthAssumption  == MaxDepth \in Nat
ASSUME WritesAssumption == Writes \subseteq Seq(Nat)
(* The source does not check that a file fits its one pointer block.       *)
ASSUME SizeAssumption  == MaxSize \in Nat /\ MaxSize <= BlockSize * BlockSize
ASSUME DirectorySizeAssumption ==
         IsFiniteSet(Names) /\ EntrySize * Cardinality(Names) <= BlockSize * BlockSize

VARIABLES
  disk,   (* Bitmaps, inodes and blocks.                                   *)
  reply   (* What the last handler returned.                               *)

vars  == <<disk, reply>>
Paths == UNION {[1 .. n -> Names] : n \in 0 .. MaxDepth}
Named == Paths \ {<< >>}

(***************************************************************************)
(* Paths.                                                                  *)
(***************************************************************************)
lookup(d, i, name) ==
  LET entries == entries_read(d, d.inode[i])
      found   == entries_find(entries, name)
  IN  IF i = NoInode \/ ~ d.inode[i].is_directory \/ found = {} THEN NoInode
      ELSE entries[CHOOSE e \in found : \A f \in found : e <= f].inode_id

resolve_path(d, path) ==
  LET inode_at[n \in 0 .. Len(path)] ==
        IF n = 0 THEN ROOT_INODE
        ELSE IF inode_at[n-1] = NoInode THEN NoInode
        ELSE lookup(d, inode_at[n-1], path[n])
  IN  inode_at[Len(path)]

resolve_parent_path(d, path) == resolve_path(d, Front(path))

IsDirectory(d, path) == /\ resolve_path(d, path) # NoInode
                        /\ d.inode[resolve_path(d, path)].is_directory
IsFile(d, path)      == /\ resolve_path(d, path) # NoInode
                        /\ ~ d.inode[resolve_path(d, path)].is_directory

Done(d)   == [disk |-> d, reply |-> "OK"]
Failed(d) == [disk |-> d, reply |-> "ENOSPC"]

(***************************************************************************)
(* Handlers, as what they leave on the disk and what they return.  A       *)
(* longjmp out of an allocation leaves what was written before it.         *)
(***************************************************************************)
(* Mutant of RoomToMake: one block is thought to be enough.                *)
roomforone(d) == inode_seek(d, 1) /\ block_seek(d, 1)

RoomToMake(d) == inode_seek(d, 1) /\ block_seek(d, 2)

make_directory_or_file(d, path, is_directory) ==
  LET parent   == resolve_parent_path(d, path)
      in       == d.inode[parent]
      grown    == [in EXCEPT !.size = @ + EntrySize]
      extended == entries_extend(d, in)
      i        == NewInode(extended)
      made     == inode_initialize(inode_new(extended), i, is_directory)
      entries  == Append(entries_read(d, in), [name |-> Last(path), inode_id |-> i])
  IN  IF ~ RoomToMake(d) THEN Failed(d)
      ELSE IF ~ block_seek(extended, 1) THEN Failed(inode_new(extended))
      ELSE Done(entries_write(inode_write(made, parent, grown), grown, entries))

(* Mutant of remove: the last entry of the directory goes, not the one     *)
(* that was named.                                                         *)
removelast(d, path) ==
  LET parent  == resolve_parent_path(d, path)
      in      == d.inode[parent]
      entries == entries_read(d, in)
      shrunk  == [in EXCEPT !.size = @ - EntrySize]
      found   == entries_find(entries, Last(path))
  IN  IF parent = NoInode \/ found = {} THEN d
      ELSE LET e == CHOOSE e \in found : \A f \in found : e <= f
           IN  inode_write(entries_write(inode_finalize(d, entries[e].inode_id), shrunk,
                                         Front(entries)), parent, shrunk)

(* The entries after the removed one move up.                              *)
remove(d, path) ==
  LET parent  == resolve_parent_path(d, path)
      in      == d.inode[parent]
      entries == entries_read(d, in)
      shrunk  == [in EXCEPT !.size = @ - EntrySize]
      found   == entries_find(entries, Last(path))
  IN  IF parent = NoInode \/ found = {} THEN d
      ELSE LET e == CHOOSE e \in found : \A f \in found : e <= f
           IN  inode_write(entries_write(inode_finalize(d, entries[e].inode_id), shrunk,
                                         RemoveAt(entries, e)), parent, shrunk)

(* rename within one directory gives the entry its new name.               *)
rename_entry(d, dir, from, to) ==
  LET in      == d.inode[dir]
      entries == entries_read(d, in)
      e       == CHOOSE e \in entries_find(entries, from) : TRUE
  IN  inode_write(entries_write(d, in, [entries EXCEPT ![e].name = to]), dir, in)

(* rename between directories: the entry is added to one, then leaves the  *)
(* other.                                                                  *)
move_entry(d, src, from, dst, to) ==
  LET src_in      == d.inode[src]
      dst_in      == d.inode[dst]
      src_entries == entries_read(d, src_in)
      e           == CHOOSE e \in entries_find(src_entries, from) : TRUE
      dst_entries == Append(entries_read(d, dst_in),
                            [name |-> to, inode_id |-> src_entries[e].inode_id])
      grown       == [dst_in EXCEPT !.size = @ + EntrySize]
      shrunk      == [src_in EXCEPT !.size = @ - EntrySize]
      added       == inode_write(entries_write(entries_extend(d, dst_in), grown, dst_entries),
                                 dst, grown)
  IN  inode_write(entries_write(added, shrunk, RemoveAt(src_entries, e)), src, shrunk)

(* The new path is unlinked first, whatever comes of the rest.             *)
fs_rename(d, oldpath, newpath) ==
  LET unlinked == remove(d, newpath)
      src      == resolve_parent_path(unlinked, oldpath)
      dst      == resolve_parent_path(unlinked, newpath)
  IN  IF src = dst THEN Done(rename_entry(unlinked, src, Last(oldpath), Last(newpath)))
      ELSE IF ~ block_seek(unlinked, ExtendsBy(unlinked.inode[dst])) THEN Failed(unlinked)
      ELSE Done(move_entry(unlinked, src, Last(oldpath), dst, Last(newpath)))

(***************************************************************************)
(* fs_write takes all the blocks it needs at once, before it writes any,   *)
(* and hands them out from the last to the first.                          *)
(***************************************************************************)
fs_write(d, path, offset, words) ==
  LET i       == resolve_path(d, path)
      in      == d.inode[i]
      end     == offset + Len(words)
      ids     == Pointers(d, in)
      written == (offset \div BlockSize) .. (block_count_from_size(end) - 1)
      holes   == {k \in written : ids[k] = 0}
      filled  == [k \in Offsets |->
                    IF k \in holes THEN NewBlock(d, Cardinality({h \in holes : h > k}))
                    ELSE ids[k]]
      block   == [k \in written |->
                    [w \in Offsets |->
                       LET n == k * BlockSize + w
                       IN  IF offset <= n /\ n < end THEN words[n - offset + 1]
                           ELSE block_read(d, filled[k])[w]]]
      stored  == block_write_many(Mark(d, NewBlocks(d, Cardinality(holes))),
                                  [k \in written |-> filled[k]], block)
  IN  IF ~ block_seek(d, Cardinality(holes)) THEN Failed(d)
      ELSE Done(inode_write(block_write(stored, in.pointer_block, filled), i,
                            [in EXCEPT !.size = IF @ < end THEN end ELSE @]))

(***************************************************************************)
(* fs_truncate.  A file that grows gets blocks for all of its new size; of *)
(* one that shrinks the rest of the last block is zeroed and the blocks    *)
(* after it are deleted.                                                   *)
(***************************************************************************)
grow(d, i, size) ==
  LET in     == d.inode[i]
      old    == block_count_from_size(in.size)
      new    == block_count_from_size(size)
      ids    == Pointers(d, in)
      filled == [k \in Offsets |->
                   IF old <= k /\ k < new THEN NewBlock(d, new - 1 - k) ELSE ids[k]]
      marked == Mark(d, NewBlocks(d, new - old))
  IN  IF ~ block_seek(d, new - old) THEN Failed(d)
      ELSE Done(inode_write(block_write(marked, in.pointer_block, filled), i,
                            [in EXCEPT !.size = size]))

(* Mutant of zerotail: the rest of the last block is left as it was.       *)
keeptail(d, b, tail) == d

zerotail(d, b, tail) ==
  IF tail = 0 THEN d
  ELSE block_write(d, b, [w \in Offsets |-> IF w < tail THEN block_read(d, b)[w] ELSE 0])

shrink(d, i, size) ==
  LET in   == d.inode[i]
      ids  == Pointers(d, in)
      cut  == block_count_from_size(size) .. (block_count_from_size(in.size) - 1)
      last == IF size = 0 THEN 0 ELSE ids[block_count_from_size(size) - 1]
      rest == block_delete(zerotail(d, last, size % BlockSize), {ids[k] : k \in cut})
  IN  inode_write(block_write(rest, in.pointer_block,
                              [k \in Offsets |-> IF k \in cut THEN 0 ELSE ids[k]]),
                  i, [in EXCEPT !.size = size])

fs_truncate(d, path, size) ==
  LET i == resolve_path(d, path)
  IN  IF size > d.inode[i].size THEN grow(d, i, size) ELSE Done(shrink(d, i, size))

(***************************************************************************)
(* What the kernel checks before it calls.  It leaves to the file system   *)
(* whether a directory that is removed or replaced is empty.               *)
(***************************************************************************)
KernelMayMake(path) ==
  /\ resolve_path(disk, path) = NoInode
  /\ IsDirectory(disk, Front(path))

Removable(path) ==
  RemoveNonEmpty \/ entries_count(disk.inode[resolve_path(disk, path)]) = 0

KernelMayRename(old, new) ==
  /\ resolve_path(disk, old) # NoInode
  /\ IsDirectory(disk, Front(new))
  /\ ~ IsPrefix(old, new) /\ ~ IsPrefix(new, old)
  /\ resolve_path(disk, new) # NoInode =>
       IsDirectory(disk, old) = IsDirectory(disk, new)

(* Bound: nothing is moved below the deepest path of the model.            *)
StaysInBounds(old, new) ==
  \A p \in Paths : IsPrefix(old, p) /\ resolve_path(disk, p) # NoInode =>
                     Len(p) - Len(old) + Len(new) <= MaxDepth

(* The word at which a file of this size ends lies in a hole.              *)
EndsInHole(i, size) ==
  /\ size < disk.inode[i].size /\ size % BlockSize # 0
  /\ Pointers(disk, disk.inode[i])[size \div BlockSize] = 0

(***************************************************************************)
(* Actions.                                                                *)
(***************************************************************************)
Returns(result) == disk' = result.disk /\ reply' = result.reply

Mknod(path) == /\ KernelMayMake(path)
               /\ Returns(make_directory_or_file(disk, path, FALSE))

Mkdir(path) == /\ KernelMayMake(path)
               /\ Returns(make_directory_or_file(disk, path, TRUE))

Unlink(path) == /\ IsFile(disk, path)
                /\ Returns(Done(remove(disk, path)))

Rmdir(path) == /\ IsDirectory(disk, path)
               /\ Removable(path)
               /\ Returns(Done(remove(disk, path)))

Rename(old, new) ==
  /\ KernelMayRename(old, new)
  /\ StaysInBounds(old, new)
  /\ IsDirectory(disk, new) => Removable(new)
  /\ Returns(fs_rename(disk, old, new))

Write(path, offset, words) ==
  /\ IsFile(disk, path)
  /\ offset + Len(words) <= MaxSize
  /\ Sparse \/ offset <= disk.inode[resolve_path(disk, path)].size
  /\ Returns(fs_write(disk, path, offset, words))

Truncate(path, size) ==
  /\ IsFile(disk, path)
  /\ CutHoles \/ ~ EndsInHole(resolve_path(disk, path), size)
  /\ Returns(fs_truncate(disk, path, size))

Init == disk = mkfs /\ reply = "OK"

Next ==
  \E path \in Named :
    \/ Mknod(path) \/ Mkdir(path) \/ Unlink(path) \/ Rmdir(path)
    \/ \E new \in Named : Rename(path, new)
    \/ \E offset \in 0 .. MaxSize, words \in Writes : Write(path, offset, words)
    \/ \E size \in 0 .. MaxSize : Truncate(path, size)

Spec == Init /\ [][Next]_vars

(***************************************************************************)
(* Properties.                                                             *)
(***************************************************************************)
TypeOK ==
  /\ disk.bitmap \subseteq BlockIds
  /\ disk.inodes \subseteq InodeIds \ {ROOT_INODE}
  /\ disk.inode \in [InodeIds -> Inode]
  /\ disk.block \in [BlockIds -> [Offsets -> Nat]]
  /\ reply \in {"OK", "ENOSPC"}

InUse    == disk.inodes \cup {ROOT_INODE}
Ids(i)   == Pointers(disk, disk.inode[i])
Owned(i) == ({Ids(i)[k] : k \in Offsets} \ {0}) \cup {disk.inode[i].pointer_block}
Found    == {resolve_path(disk, p) : p \in Paths} \ {NoInode}

(* No block serves two purposes: every pointer block and every block of    *)
(* every file and directory is another one, and all of them are marked.    *)
BlocksAreExclusive ==
  \A i \in InUse :
    /\ Owned(i) \subseteq disk.bitmap
    /\ disk.inode[i].pointer_block \notin {Ids(i)[k] : k \in Offsets}
    /\ \A k, l \in Offsets : k # l /\ Ids(i)[k] # 0 => Ids(i)[k] # Ids(i)[l]
    /\ \A j \in InUse \ {i} : Owned(i) \cap Owned(j) = {}

(* A block that may be allocated is empty: files, pointer blocks and holes *)
(* of a block written in part rely on it, and a file never shows what      *)
(* another one held.                                                       *)
FreshBlocksAreEmpty == \A b \in Available(disk) : disk.block[b] = EmptyBlock

(* No pointer is left behind the end of a file or directory (an extension  *)
(* would overwrite it and lose the block).                                 *)
NoStrayPointers ==
  \A i \in InUse, k \in Offsets :
    Ids(i)[k] # 0 => k < block_count_from_size(disk.inode[i].size)

(* Entries form a tree: no name twice in a directory, no inode in two      *)
(* entries, none of them the root or an inode that may be allocated again. *)
EntriesOf(i) == LET entries == entries_read(disk, disk.inode[i])
                IN  {[dir |-> i, place |-> e, name |-> entries[e].name,
                      inode_id |-> entries[e].inode_id] : e \in DOMAIN entries}
EntriesFormATree ==
  LET entries == UNION {EntriesOf(i) : i \in {j \in Found : disk.inode[j].is_directory}}
  IN  \A x, y \in entries :
        /\ x.inode_id \in disk.inodes
        /\ x # y => /\ x.inode_id # y.inode_id
                    /\ x.dir = y.dir => x.name # y.name

(* Blocks and inodes that no path leads to are free: what fs_statfs counts *)
(* as used is in use.                                                      *)
NothingLeaks ==
  /\ disk.inodes = Found \ {ROOT_INODE}
  /\ disk.bitmap = UNION {Owned(i) : i \in Found}

(* A call that runs out of space changes nothing, whatever it had done     *)
(* before it found out ("prevent inconsistent on failure", fs.c:552).      *)
FailureChangesNothing == [][reply' = "ENOSPC" => disk' = disk]_vars

(* "Make sure there're enough blocks to store a new entry" (fs.c:271):     *)
(* every entry lies in blocks of its directory.                            *)
EntriesHaveBlocks ==
  \A i \in InUse : disk.inode[i].is_directory =>
    \A k \in 0 .. (block_count_from_size(disk.inode[i].size) - 1) : Ids(i)[k] # 0

(* "Get if there're enough available blocks" (fs.c:138): a block counted   *)
(* as available is not in use.                                             *)
AvailableBlocksAreUnused == \A i \in InUse : Owned(i) \cap Available(disk) = {}

(***************************************************************************)
(* The invariant that induction needs: besides what Disk says of blocks,   *)
(* no name is twice in a directory, whether a path leads there or not, and *)
(* no inode in two entries.  What is reached from the root is then a tree. *)
(***************************************************************************)
Entries(d, i) == entries_read(d, d.inode[i])

Listed(d) ==
  /\ ROOT_INODE \in Directories(d)
  /\ \A i \in Directories(d) :
       /\ d.inode[i].size = EntrySize * Len(Entries(d, i))
       /\ \A e \in DOMAIN Entries(d, i) : /\ Entries(d, i)[e].name \in Names
                                          /\ Entries(d, i)[e].inode_id \in d.inodes
       /\ \A e, f \in DOMAIN Entries(d, i) : Entries(d, i)[e].name = Entries(d, i)[f].name => e = f
  /\ \A i, j \in Directories(d) : \A e \in DOMAIN Entries(d, i), f \in DOMAIN Entries(d, j) :
       Entries(d, i)[e].inode_id = Entries(d, j)[f].inode_id => i = j /\ e = f

Consistent(d) == IsDisk(d) /\ Laid(d) /\ Emptied(d) /\ Sized(d) /\ Listed(d)

IInv == Consistent(disk) /\ reply \in {"OK", "ENOSPC"}

(* Every inode in use is at the end of a path: what removing and moving    *)
(* entries must keep besides, so that nothing leaks.                       *)
Led(d) == \A i \in Used(d) : \E path \in Paths : resolve_path(d, path) = i

(* A new entry begins in a block of the directory only if it fits there,   *)
(* in any directory that Names can fill.                                   *)
EntriesFit ==
  \A n \in 0 .. (Cardinality(Names) - 1) :
    block_count_from_size(EntrySize * n + 1) = block_count_from_size(EntrySize * (n + 1))

=============================================================================

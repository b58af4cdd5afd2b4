------------------------------- MODULE Disk -------------------------------
(***************************************************************************)
(* The virtual disk of the file system (fslab/fs.c, first half): blocks,   *)
(* the two bitmaps, inodes, and the helper routines that read and change   *)
(* them.  They are operators on a disk value; module Fs holds the disk in  *)
(* a variable and calls them in the order the handlers do.                 *)
(*                                                                         *)
(* A block is an array of BlockSize words.  A word stands for what the     *)
(* source stores in a few bytes: a byte of a file, half a directory entry  *)
(* (its name or its inode number) or a block number in a pointer block.    *)
(* Words are numbers, so that any block can be read as anything, and a     *)
(* zeroed block is all zeroes whatever it is read as.                      *)
(***************************************************************************)
EXTENDS Integers, FiniteSets

CONSTANTS
  BlockSize,   (* Words in a block; also the pointers in a pointer block.  *)
  BlockNum,    (* Blocks on the disk (BLOCK_NUM).                          *)
  FirstBlock,  (* DATA_AND_POINTER_BLOCK_START.                            *)
  InodeNum     (* Inodes (INODE_NUM), the root's included.                 *)

ASSUME BlockSizeAssumption == BlockSize \in Nat \ {0}
ASSUME InodeNumAssumption  == InodeNum \in Nat \ {0, 1}
ASSUME BlockNumAssumption  == BlockNum \in Nat
ASSUME FirstBlockAssumption == FirstBlock \in Nat \ {0} /\ FirstBlock < BlockNum - 1

(* The loops run up to DATA_AND_POINTER_BLOCK_END, which is BLOCK_NUM - 1: *)
(* the last block of the disk is never used.                               *)
BlockIds   == FirstBlock .. (BlockNum - 2)
ROOT_INODE == 0
InodeIds   == 0 .. (InodeNum - 1)
Offsets    == 0 .. (BlockSize - 1)
EmptyBlock == [w \in Offsets |-> 0]
NoInode    == -1

Inode == [size : Nat, is_directory : BOOLEAN, pointer_block : BlockIds \cup {0}]

(***************************************************************************)
(* Block 0 holds the block bitmap, WordBits bits to a word.  The model     *)
(* keeps the bitmap as the set of the blocks marked, and these two give    *)
(* block 0 as it is read and the set it holds after it is written.         *)
(***************************************************************************)
WordBits == (BlockNum + BlockSize - 1) \div BlockSize

BitmapWord(marked, w) ==
  LET sum[k \in 0 .. WordBits] ==
        IF k = 0 THEN 0
        ELSE sum[k-1] + (IF w * WordBits + k - 1 \in marked THEN 2^(k-1) ELSE 0)
  IN  sum[WordBits]

BitmapBlock(marked) == [w \in Offsets |-> BitmapWord(marked, w)]
MarkedIn(words)     == {b \in 0 .. (BlockNum - 1) :
                          (words[b \div WordBits] \div 2^(b % WordBits)) % 2 = 1}

block_read(d, b) == IF b = 0 THEN BitmapBlock(d.bitmap) ELSE d.block[b]

(***************************************************************************)
(* Writes in a row, of words[0] to block id[0], words[1] to id[1] and so   *)
(* on; of two writes to one block the later one stays.                     *)
(***************************************************************************)
block_write_many(d, id, words) ==
  LET Last(b)    == CHOOSE i \in DOMAIN id : /\ id[i] = b
                                             /\ \A j \in DOMAIN id : j > i => id[j] # b
      written(b) == \E i \in DOMAIN id : id[i] = b
  IN  [d EXCEPT !.block  = [b \in DOMAIN @ |-> IF written(b) THEN words[Last(b)] ELSE @[b]],
                !.bitmap = IF written(0) THEN MarkedIn(words[Last(0)]) ELSE @]

block_write(d, b, words) == block_write_many(d, [i \in {0} |-> b], [i \in {0} |-> words])

(***************************************************************************)
(* Allocation takes the lowest blocks first.  NewBlocks(d, n) are the      *)
(* blocks that block_new_many(n, ..) takes, and NewBlock(d, k) is the one  *)
(* it stores at place k (counted from 0) of its result.                    *)
(***************************************************************************)
Available(d)      == BlockIds \ d.bitmap
block_seek(d, n)  == Cardinality(Available(d)) >= n
Below(d, b)       == Cardinality({c \in Available(d) : c < b})
NewBlock(d, k)    == CHOOSE b \in Available(d) : Below(d, b) = k
NewBlocks(d, n)   == {b \in Available(d) : Below(d, b) < n}
Mark(d, ids)      == [d EXCEPT !.bitmap = @ \cup ids]
block_new(d)      == Mark(d, NewBlocks(d, 1))

(* Mutant of block_delete: the blocks are not emptied.                     *)
unmark(d, ids) == [d EXCEPT !.bitmap = @ \ ids]

(***************************************************************************)
(* Deleted blocks are emptied, so that a new block is always empty.  When  *)
(* 0 is among the numbers (a hole), block 0 is emptied too, but the bitmap *)
(* is written back after it.                                               *)
(***************************************************************************)
block_delete(d, ids) ==
  [d EXCEPT !.bitmap = @ \ ids,
            !.block  = [b \in DOMAIN @ |-> IF b \in ids THEN EmptyBlock ELSE @[b]]]

block_count_from_size(size) == (size + BlockSize - 1) \div BlockSize

(***************************************************************************)
(* Inodes.  Pointers are the block numbers an inode's pointer block holds, *)
(* the first block_count_from_size(size) of them its data blocks.          *)
(***************************************************************************)
FreeInodes(d)         == {i \in InodeIds \ {ROOT_INODE} : i \notin d.inodes}
inode_seek(d, n)      == Cardinality(FreeInodes(d)) >= n
NewInode(d)           == CHOOSE i \in FreeInodes(d) : \A j \in FreeInodes(d) : i <= j
inode_new(d)          == [d EXCEPT !.inodes = @ \cup {NewInode(d)}]
inode_delete(d, i)    == [d EXCEPT !.inodes = @ \ {i}]
inode_write(d, i, in) == [d EXCEPT !.inode[i] = in]

Pointers(d, in)   == block_read(d, in.pointer_block)
DataBlocks(d, in) == {Pointers(d, in)[k] : k \in 0 .. (block_count_from_size(in.size) - 1)}

inode_initialize(d, i, is_directory) ==
  inode_write(block_new(d), i, [size |-> 0, is_directory |-> is_directory,
                                pointer_block |-> NewBlock(d, 0)])

(* Mutant of inode_finalize: the pointer block is kept.                    *)
keeppointers(d, i) == inode_delete(block_delete(d, DataBlocks(d, d.inode[i])), i)

inode_finalize(d, i) ==
  inode_delete(block_delete(block_delete(d, DataBlocks(d, d.inode[i])),
                            {d.inode[i].pointer_block}), i)

(***************************************************************************)
(* mkfs on a disk of zeroes: the root directory, whose inode is never      *)
(* marked in the inode bitmap because inode_new starts at 1.               *)
(***************************************************************************)
ZeroedDisk == [bitmap |-> {}, inodes |-> {}, block |-> [b \in BlockIds |-> EmptyBlock],
               inode |-> [i \in InodeIds |-> [size |-> 0, is_directory |-> FALSE,
                                              pointer_block |-> 0]]]
mkfs == inode_initialize(ZeroedDisk, ROOT_INODE, TRUE)

(***************************************************************************)
(* Word k of what an inode holds, through its pointer block; what fs_read  *)
(* copies to its caller for each offset it is asked for.                   *)
(***************************************************************************)
WordAt(d, in, k) == block_read(d, Pointers(d, in)[k \div BlockSize])[k % BlockSize]

(***************************************************************************)
(* Directories.  An entry takes two words, the name and the inode number,  *)
(* and entries follow one another through the directory's blocks.          *)
(***************************************************************************)
EntrySize         == 2
entries_count(in) == in.size \div EntrySize
entries_read(d, in) ==
  [e \in 1 .. entries_count(in) |-> [name     |-> WordAt(d, in, EntrySize * (e-1)),
                                     inode_id |-> WordAt(d, in, EntrySize * (e-1) + 1)]]

entries_find(entries, name) == {e \in DOMAIN entries : entries[e].name = name}

(***************************************************************************)
(* A block is added when one more byte than the directory has would need   *)
(* one (not when a whole entry would).                                     *)
(***************************************************************************)
ExtendsBy(in) == block_count_from_size(in.size + 1) - block_count_from_size(in.size)

entries_extend(d, in) ==
  IF ExtendsBy(in) = 0 THEN d
  ELSE block_write(block_new(d), in.pointer_block,
                   [Pointers(d, in) EXCEPT ![block_count_from_size(in.size + 1) - 1] = NewBlock(d, 0)])

(***************************************************************************)
(* entries_write writes the blocks the directory's size asks for, then     *)
(* deletes the pointers that follow, up to the first zero.  The words past *)
(* the last entry are whatever the buffer in memory held; nothing reads    *)
(* them and the model writes zeroes.                                       *)
(***************************************************************************)
EntryWords(entries, k) ==
  [w \in Offsets |-> LET n == k * BlockSize + w
                         e == n \div EntrySize + 1
                     IN  IF e \notin DOMAIN entries THEN 0
                         ELSE IF n % EntrySize = 0 THEN entries[e].name
                         ELSE entries[e].inode_id]

Surplus(ids, n) == {k \in Offsets : k >= n /\ \A j \in n .. k : ids[j] # 0}

(* Mutants of entries_write: the blocks no longer used stay; or they are   *)
(* deleted but the pointers to them stay.                                  *)
keepsurplus(d, in, entries) ==
  LET ids  == Pointers(d, in)
      used == 0 .. (block_count_from_size(in.size) - 1)
  IN  block_write_many(d, [k \in used |-> ids[k]], [k \in used |-> EntryWords(entries, k)])

keepdangling(d, in, entries) ==
  LET ids == Pointers(d, in)
  IN  block_delete(keepsurplus(d, in, entries),
                   {ids[k] : k \in Surplus(ids, block_count_from_size(in.size))})

entries_write(d, in, entries) ==
  LET ids     == Pointers(d, in)
      n       == block_count_from_size(in.size)
      surplus == Surplus(ids, n)
      used    == 0 .. (n - 1)
      filled  == block_write_many(d, [k \in used |-> ids[k]],
                                  [k \in used |-> EntryWords(entries, k)])
  IN  block_write(block_delete(filled, {ids[k] : k \in surplus}), in.pointer_block,
                  [k \in Offsets |-> IF k \in surplus THEN 0 ELSE ids[k]])

(***************************************************************************)
(* The invariant that induction needs, of a disk d.  Place -1 of an inode  *)
(* is its pointer block, and place k the block that its pointer k leads to.*)
(***************************************************************************)
Used(d)        == d.inodes \cup {ROOT_INODE}
Directories(d) == {i \in Used(d) : d.inode[i].is_directory}
Places         == Offsets \cup {-1}
At(d, i, k)    == IF k = -1 THEN d.inode[i].pointer_block ELSE Pointers(d, d.inode[i])[k]

IsDisk(d) ==
  /\ d = [bitmap |-> d.bitmap, inodes |-> d.inodes, block |-> d.block, inode |-> d.inode]
  /\ d.bitmap \subseteq BlockIds
  /\ d.inodes \subseteq InodeIds \ {ROOT_INODE}
  /\ d.inode \in [InodeIds -> Inode]
  /\ d.block \in [BlockIds -> [Offsets -> Nat]]

(* Every block at a place is marked, no block is at two places, and no     *)
(* block is marked that is at none.                                        *)
Laid(d) ==
  /\ \A i \in Used(d) : At(d, i, -1) # 0 /\ \A k \in Places : At(d, i, k) \in d.bitmap \cup {0}
  /\ \A i, j \in Used(d), k, l \in Places :
       At(d, i, k) = At(d, j, l) /\ At(d, i, k) # 0 => i = j /\ k = l
  /\ \A b \in d.bitmap : \E i \in Used(d), k \in Places : At(d, i, k) = b

Emptied(d) == \A b \in Available(d) : d.block[b] = EmptyBlock

(* No pointer lies behind the end, an end inside a block is not in a hole, *)
(* and a directory has no holes.                                           *)
SizedAt(d, i) ==
  LET size == d.inode[i].size
  IN  /\ size <= BlockSize * BlockSize
      /\ \A k \in Offsets : k >= block_count_from_size(size) => At(d, i, k) = 0
      /\ size % BlockSize # 0 => At(d, i, size \div BlockSize) # 0
      /\ i \in Directories(d) =>
           \A k \in Offsets : k < block_count_from_size(size) => At(d, i, k) # 0

Sized(d) == \A i \in Used(d) : SizedAt(d, i)

=============================================================================

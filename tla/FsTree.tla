------------------------------ MODULE FsTree ------------------------------
(***************************************************************************)
(* The tree of files and directories a user of the file system sees, read  *)
(* off the disk, and the refinement of FileTree by Fs.  The variable tree  *)
(* is what the refinement maps the disk to; it is kept so that it is       *)
(* computed once for every step, and never restricts a step of Fs.         *)
(***************************************************************************)
EXTENDS Fs

CONSTANT Hole  (* Stands for a word in a hole of a file.                   *)

VARIABLE tree

(* Word by word what fs_read returns, for every size and offset in a file, *)
(* but for a hole, where it returns the words of block 0 (WordAt).         *)
InHole(d, in, k) == Pointers(d, in)[k \div BlockSize] = 0

Content(d, in) ==
  [k \in 1 .. in.size |-> IF InHole(d, in, k - 1) THEN Hole ELSE WordAt(d, in, k - 1)]

NodeOf(d, in) == [is_directory |-> in.is_directory,
                  data         |-> IF in.is_directory THEN << >> ELSE Content(d, in)]

TreeOf(d) ==
  LET inode_at == [p \in Paths |-> resolve_path(d, p)]
  IN  [p \in {q \in Paths : inode_at[q] # NoInode} |-> NodeOf(d, d.inode[inode_at[p]])]

TreeSpec == /\ Init /\ tree = TreeOf(disk)
            /\ [][Next /\ \E d \in {disk'} : tree' = TreeOf(d)]_<<vars, tree>>

(* Whatever the handlers do to bitmaps, inodes and blocks, the user sees   *)
(* exactly one change of the tree for a call that succeeds, and none for   *)
(* one that fails: paths lead to the right files after entries have moved, *)
(* and files hold what was written to them and zeroes where nothing was.   *)
Tree == INSTANCE FileTree
ImplementsFileTree == Tree!TreeSpec

=============================================================================

----------------------------- MODULE FileTree -----------------------------
(***************************************************************************)
(* What a user of the file system is promised: a tree of files and         *)
(* directories named by paths, changed by one call at a time.  A call may  *)
(* also fail and then changes nothing (a stuttering step).  Module Fs      *)
(* implements it on blocks, bitmaps and inodes.                            *)
(*                                                                         *)
(* A file holds what was written to it.  Where a write starts after the    *)
(* end of the file, what it passes over is zeroes or a hole, and nothing   *)
(* is promised of the words of a hole; they may become zeroes later.       *)
(***************************************************************************)
EXTENDS Integers, Sequences, SequencesExt

CONSTANTS
  Names,     (* File names.                                                *)
  MaxDepth,  (* Bound: names in a path.                                    *)
  MaxSize,   (* Bound: words in a file.                                    *)
  Writes,    (* The sequences of words that calls write.                   *)
  Hole       (* Stands for a word in a hole.                               *)

VARIABLE tree  (* The node at every path that exists.                      *)

Paths     == UNION {[1 .. n -> Names] : n \in 0 .. MaxDepth}
Directory == [is_directory |-> TRUE,  data |-> << >>]
EmptyFile == [is_directory |-> FALSE, data |-> << >>]
Exists    == DOMAIN tree
Below(p)  == {q \in Exists : IsPrefix(p, q)}

TreeInit == tree = [p \in {<< >>} |-> Directory]

Create(p, node) ==
  /\ p \notin Exists
  /\ Front(p) \in Exists /\ tree[Front(p)].is_directory
  /\ tree' = [q \in Exists \cup {p} |-> IF q = p THEN node ELSE tree[q]]

(* Removing a directory removes what is below it.                          *)
Delete(p) ==
  /\ p \in Exists
  /\ tree' = [q \in Exists \ Below(p) |-> tree[q]]

(* What was at the new path, if anything, is replaced; all that is below   *)
(* the old path moves.                                                     *)
Move(old, new) ==
  LET moved(q)    == IsPrefix(new, q)
      from(q)     == old \o SubSeq(q, Len(new) + 1, Len(q))
      arriving    == {new \o SubSeq(q, Len(old) + 1, Len(q)) : q \in Below(old)}
  IN  /\ old \in Exists
      /\ ~ IsPrefix(old, new) /\ ~ IsPrefix(new, old)
      /\ Front(new) \in Exists /\ tree[Front(new)].is_directory
      /\ tree' = [q \in (Exists \ (Below(old) \cup Below(new))) \cup arriving |->
                    IF moved(q) THEN tree[from(q)] ELSE tree[q]]

IsFile(p) == p \in Exists /\ ~ tree[p].is_directory

(* The data of one file changes.                                           *)
Changes(p, Becomes(_, _)) ==
  /\ IsFile(p)
  /\ tree' = [tree EXCEPT ![p].data = tree'[p].data]
  /\ Becomes(tree[p].data, tree'[p].data)

Keeps(word, new) == new = word \/ (word = Hole /\ new = 0)

Store(p, offset, words) ==
  LET end == offset + Len(words)
  IN  Changes(p, LAMBDA old, new :
        /\ Len(new) = IF Len(old) < end THEN end ELSE Len(old)
        /\ \A k \in DOMAIN new :
             \/ k \in offset + 1 .. end /\ new[k] = words[k - offset]
             \/ k \notin offset + 1 .. end /\ k \in DOMAIN old /\ Keeps(old[k], new[k])
             \/ k \notin offset + 1 .. end /\ k \notin DOMAIN old /\ new[k] \in {0, Hole})

(* A file grows with zeroes, or with what is left of a hole at its end.    *)
Resize(p, size) ==
  Changes(p, LAMBDA old, new :
    /\ Len(new) = size
    /\ \A k \in DOMAIN new :
         \/ k \in DOMAIN old /\ Keeps(old[k], new[k])
         \/ k \notin DOMAIN old /\ new[k] = 0
         \/ k \notin DOMAIN old /\ new[k] = Hole /\ old # <<>> /\ Last(old) = Hole)

TreeNext ==
  \E p \in Paths \ {<< >>} :
    \/ Create(p, EmptyFile) \/ Create(p, Directory) \/ Delete(p)
    \/ \E q \in Paths \ {<< >>} : Move(p, q)
    \/ \E offset \in 0 .. MaxSize, words \in Writes : Store(p, offset, words)
    \/ \E size \in 0 .. MaxSize : Resize(p, size)

TreeSpec == TreeInit /\ [][TreeNext]_tree
=============================================================================

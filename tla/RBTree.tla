------------------------------ MODULE RBTree ------------------------------
(***************************************************************************)
(* The red-black tree of free blocks in malloclab/mm.c, ordered by the     *)
(* length of a block: rb_insert, rb_delete and rb_lower_bound, with the    *)
(* rotations and the two fix-up loops.  Module Heap takes the tree for the *)
(* set of its blocks and rb_lower_bound for a search of that set; the      *)
(* invariants below are what that rests on.                                *)
(*                                                                         *)
(* Nodes are the addresses of blocks.  No address is compared with         *)
(* another, so they may be taken for one another.                          *)
(***************************************************************************)
EXTENDS Integers, FiniteSets

CONSTANTS
  Nodes,   (* Addresses of blocks.                                         *)
  Values,  (* Lengths of blocks.                                           *)
  rbnull   (* The null node.                                               *)

ASSUME NodesAssumption  == IsFiniteSet(Nodes) /\ rbnull \notin Nodes
ASSUME ValuesAssumption == Values \subseteq Nat \ {0}

VARIABLE tree  (* root, and parent, child, color and value of every node.  *)

LEFT      == 0
RIGHT     == 1
Sides     == {LEFT, RIGHT}
Other(w)  == 1 - w

(***************************************************************************)
(* Accessors.  rbnull is black and its own parent and child, and setting   *)
(* any of these does nothing to it.                                        *)
(***************************************************************************)
rb_parent(t, n)   == IF n = rbnull THEN rbnull ELSE t.parent[n]
rb_child(t, n, w) == IF n = rbnull THEN rbnull ELSE t.child[n][w]
rb_color(t, n)    == IF n = rbnull THEN "BLACK" ELSE t.color[n]
rb_value(t, n)    == t.value[n]
rb_which(t, n, p) == IF n = rb_child(t, p, LEFT) THEN LEFT ELSE RIGHT

set_parent(t, n, p)   == IF n = rbnull THEN t ELSE [t EXCEPT !.parent[n] = p]
set_child(t, n, w, c) == IF n = rbnull THEN t ELSE [t EXCEPT !.child[n][w] = c]
set_color(t, n, c)    == IF n = rbnull THEN t ELSE [t EXCEPT !.color[n] = c]
set_root(t, n)        == [t EXCEPT !.root = n]

(* p and n become parent and child.                                        *)
link(t, p, w, n) == set_parent(set_child(t, p, w, n), n, p)

(***************************************************************************)
(* node takes the place of its parent, whose child it becomes on the other *)
(* side than it was on.                                                    *)
(***************************************************************************)
(* Mutant of rb_rotate: the child that changes sides keeps its parent.     *)
rotatechildless(t, node, which, parent, parent_which, grandparent) ==
  LET child  == rb_child(t, node, Other(which))
      up     == link(t, grandparent, parent_which, node)
      across == set_child(up, parent, which, child)
      down   == link(across, node, Other(which), parent)
  IN  IF grandparent = rbnull THEN set_root(down, node) ELSE down

rb_rotate(t, node, which, parent, parent_which, grandparent) ==
  LET child  == rb_child(t, node, Other(which))
      up     == link(t, grandparent, parent_which, node)
      across == link(up, parent, which, child)
      down   == link(across, node, Other(which), parent)
  IN  IF grandparent = rbnull THEN set_root(down, node) ELSE down

(* Rotate about a node where the tree has it.                              *)
rotate_up(t, node) ==
  LET parent == rb_parent(t, node)
      grand  == rb_parent(t, parent)
  IN  rb_rotate(t, node, rb_which(t, node, parent), parent, rb_which(t, parent, grand), grand)

(***************************************************************************)
(* A loop is iterated as often as the tree may be deep; an iteration after *)
(* the loop has ended changes nothing.                                     *)
(***************************************************************************)
Rounds == Cardinality(Nodes) + 1
Loop(Step(_), s) ==
  LET after[k \in 0 .. Rounds] == IF k = 0 THEN s ELSE Step(after[k-1])
  IN  after[Rounds]

(***************************************************************************)
(* rb_insert_fixup.                                                        *)
(***************************************************************************)
(* One round: node is the red node that may have a red parent, rbnull when *)
(* the loop has ended.                                                     *)
InsertFixup(s) ==
  LET t      == s.tree
      node   == s.node
      parent == rb_parent(t, node)
      grand  == rb_parent(t, parent)
      p_side == rb_which(t, parent, grand)
      uncle  == rb_child(t, grand, Other(p_side))
      inner  == rb_which(t, node, parent) # p_side
      top    == IF inner THEN node ELSE parent
      turned == IF inner THEN rotate_up(t, node) ELSE t
  IN  IF node = rbnull THEN s
      ELSE IF node = t.root THEN [tree |-> set_color(t, node, "BLACK"), node |-> rbnull]
      ELSE IF rb_color(t, parent) = "BLACK" THEN [tree |-> t, node |-> rbnull]
      ELSE IF rb_color(t, uncle) = "RED"
      THEN [tree |-> set_color(set_color(set_color(t, parent, "BLACK"), uncle, "BLACK"),
                               grand, "RED"),
            node |-> grand]
      ELSE [tree |-> rotate_up(set_color(set_color(turned, top, "BLACK"),
                                         rb_parent(turned, top), "RED"), top),
            node |-> rbnull]

rb_insert_fixup(t, node) == Loop(InsertFixup, [tree |-> t, node |-> node]).tree

(***************************************************************************)
(* rb_insert: down to a free place, equal values to the left.              *)
(***************************************************************************)
SideFor(t, node, current) == IF rb_value(t, node) <= rb_value(t, current) THEN LEFT ELSE RIGHT

Place(t, node) ==
  LET Down(current) == LET child == rb_child(t, current, SideFor(t, node, current))
                       IN  IF child = rbnull THEN current ELSE child
  IN  Loop(Down, t.root)

rb_insert(t, node) ==
  LET fresh == [t EXCEPT !.child[node] = [w \in Sides |-> rbnull]]
      place == Place(fresh, node)
  IN  IF t.root = rbnull
      THEN set_parent(set_color(set_root(fresh, node), node, "BLACK"), node, rbnull)
      ELSE rb_insert_fixup(set_color(link(fresh, place, SideFor(fresh, node, place), node),
                                     node, "RED"), node)

(***************************************************************************)
(* rb_delete_fixup: one round.  The side "which" of parent is one black    *)
(* node short; parent is rbnull when the loop has ended.                   *)
(***************************************************************************)
(* Mutant of DeleteFixup's second case: the parent's color is not looked   *)
(* at.                                                                     *)
goonup(t, parent, brother) ==
  [tree |-> set_color(t, brother, "RED"), parent |-> rb_parent(t, parent),
   which |-> rb_which(t, parent, rb_parent(t, parent))]

(* Both children of the brother are black.                                 *)
Recolor(t, parent, brother) ==
  LET red == set_color(t, brother, "RED")
  IN  IF rb_color(t, parent) = "RED"
      THEN [tree |-> set_color(red, parent, "BLACK"), parent |-> rbnull, which |-> LEFT]
      ELSE [tree |-> red, parent |-> rb_parent(t, parent),
            which |-> rb_which(t, parent, rb_parent(t, parent))]

(* One of them is red: it gives the missing black node.                    *)
Borrow(t, parent, which, brother) ==
  LET near   == rb_child(t, brother, which)
      far    == rb_child(t, brother, Other(which))
      turn   == rb_color(t, far) = "BLACK"
      turned == IF turn
                THEN rb_rotate(set_color(set_color(t, brother, "RED"), near, "BLACK"),
                               near, which, brother, Other(which), parent)
                ELSE t
      top    == IF turn THEN near ELSE brother
      color1 == set_color(turned, top, rb_color(turned, parent))
      color2 == set_color(color1, parent, "BLACK")
      color3 == set_color(color2, rb_child(color2, top, Other(which)), "BLACK")
      grand  == rb_parent(color3, parent)
      up     == rb_rotate(color3, top, Other(which), parent,
                          rb_which(color3, parent, grand), grand)
  IN  [tree |-> set_color(up, up.root, "BLACK"), parent |-> rbnull, which |-> LEFT]

DeleteFixup(s) ==
  LET old     == rb_child(s.tree, s.parent, Other(s.which))
      grand   == rb_parent(s.tree, s.parent)
      colored == set_color(set_color(s.tree, old, "BLACK"), s.parent, "RED")
      t       == IF rb_color(s.tree, old) = "RED"
                 THEN rb_rotate(colored, old, Other(s.which), s.parent,
                                rb_which(colored, s.parent, grand), grand)
                 ELSE s.tree
      brother == rb_child(t, s.parent, Other(s.which))
  IN  IF s.parent = rbnull THEN s
      ELSE IF \A w \in Sides : rb_color(t, rb_child(t, brother, w)) = "BLACK"
      THEN Recolor(t, s.parent, brother)
      ELSE Borrow(t, s.parent, s.which, brother)

rb_delete_fixup(t, parent, which) ==
  Loop(DeleteFixup, [tree |-> t, parent |-> parent, which |-> which]).tree

(* child takes the place of a node of this color under parent.             *)
rb_delete_with_at_most_one_child(t, child, parent, which, color) ==
  LET linked == link(t, parent, which, child)
  IN  IF color = "RED" THEN linked
      ELSE IF rb_color(linked, child) = "RED" THEN set_color(linked, child, "BLACK")
      ELSE rb_delete_fixup(linked, parent, which)

(***************************************************************************)
(* rb_delete.  A node with two children first changes places with its      *)
(* successor.                                                              *)
(***************************************************************************)
(* Mutant of Successor: the search goes on to the right.                   *)
rightmost(t, node) ==
  LET Right(n) == IF rb_child(t, n, RIGHT) = rbnull THEN n ELSE rb_child(t, n, RIGHT)
  IN  Loop(Right, rb_child(t, node, RIGHT))

Successor(t, node) ==
  LET Left(n) == IF rb_child(t, n, LEFT) = rbnull THEN n ELSE rb_child(t, n, LEFT)
  IN  Loop(Left, rb_child(t, node, RIGHT))

(* successor in node's place, with its color and its other subtree.        *)
replace(t, node, successor) ==
  LET parent == rb_parent(t, node)
      up     == link(t, parent, rb_which(t, node, parent), successor)
      left   == link(up, successor, LEFT, rb_child(t, node, LEFT))
      both   == IF successor = rb_child(t, node, RIGHT) THEN left
                ELSE link(left, successor, RIGHT, rb_child(t, node, RIGHT))
      root   == IF node = t.root THEN set_root(both, successor) ELSE both
  IN  set_color(root, successor, rb_color(t, node))

(* A node outside the tree is its own parent.  Its value, its children and *)
(* its color are not read again before rb_insert has set them; they are    *)
(* given one value here.                                                   *)
leave(t, node) ==
  [t EXCEPT !.parent[node] = node, !.child[node] = [w \in Sides |-> rbnull],
            !.color[node] = "RED", !.value[node] = 0]

(* Two children.                                                           *)
remove_inner(t, node) ==
  LET successor == Successor(t, node)
      from      == rb_parent(t, successor)
      moved     == replace(t, node, successor)
      right     == rb_child(t, successor, RIGHT)
      color     == rb_color(t, successor)
  IN  IF from = node
      THEN rb_delete_with_at_most_one_child(moved, right, successor, RIGHT, color)
      ELSE rb_delete_with_at_most_one_child(moved, right, from, LEFT, color)

(* At most one child.                                                      *)
remove_outer(t, node) ==
  LET left   == rb_child(t, node, LEFT)
      child  == IF left = rbnull THEN rb_child(t, node, RIGHT) ELSE left
      parent == rb_parent(t, node)
      gone   == rb_delete_with_at_most_one_child(t, child, parent, rb_which(t, node, parent),
                                                 rb_color(t, node))
  IN  IF node = t.root THEN set_root(gone, child) ELSE gone

rb_delete(t, node) ==
  leave(IF \A w \in Sides : rb_child(t, node, w) # rbnull
        THEN remove_inner(t, node) ELSE remove_outer(t, node), node)

(***************************************************************************)
(* rb_lower_bound: the block that mm_malloc takes for a length.            *)
(***************************************************************************)
(* Mutant of rb_lower_bound: the first block found is taken.               *)
firstfit(t, value) ==
  LET Step(s) == IF s.node = rbnull THEN s
                 ELSE IF rb_value(t, s.node) >= value
                 THEN [node |-> rbnull, result |-> s.node]
                 ELSE [s EXCEPT !.node = rb_child(t, s.node, RIGHT)]
  IN  Loop(Step, [node |-> t.root, result |-> rbnull]).result

rb_lower_bound(t, value) ==
  LET Step(s) == IF s.node = rbnull THEN s
                 ELSE IF rb_value(t, s.node) >= value
                 THEN [node |-> rb_child(t, s.node, LEFT), result |-> s.node]
                 ELSE [s EXCEPT !.node = rb_child(t, s.node, RIGHT)]
  IN  Loop(Step, [node |-> t.root, result |-> rbnull]).result

(***************************************************************************)
(* The blocks of the heap enter and leave the tree as they become free and *)
(* stop being so.                                                          *)
(***************************************************************************)
InTree(n) == tree.parent[n] # n

Init ==
  tree = [root   |-> rbnull,
          parent |-> [n \in Nodes |-> n],
          child  |-> [n \in Nodes |-> [w \in Sides |-> rbnull]],
          color  |-> [n \in Nodes |-> "RED"],
          value  |-> [n \in Nodes |-> 0]]

Insert(n, v) ==
  /\ ~InTree(n)
  /\ tree' = rb_insert([tree EXCEPT !.value[n] = v], n)

Delete(n) ==
  /\ InTree(n)
  /\ tree' = rb_delete(tree, n)

Next == \E n \in Nodes : Delete(n) \/ \E v \in Values : Insert(n, v)

Spec == Init /\ [][Next]_tree

----------------------------------------------------------------------------
(***************************************************************************)
(* Properties.                                                             *)
(***************************************************************************)
Kids(n) == {rb_child(tree, n, w) : w \in Sides} \ {rbnull}

(* The nodes of the subtree of n.                                          *)
Under(n) ==
  LET Wider(s)  == s \cup UNION {Kids(m) : m \in s}
  IN  Loop(Wider, {n} \ {rbnull})

(* The black nodes on the way down from n, on its left edge.               *)
BlackHeight(n) ==
  LET Step(s) == IF s.node = rbnull THEN s
                 ELSE [node   |-> rb_child(tree, s.node, LEFT),
                       height |-> s.height + (IF rb_color(tree, s.node) = "BLACK" THEN 1 ELSE 0)]
  IN  Loop(Step, [node |-> n, height |-> 0]).height

(* rb_insert and rb_delete leave a tree of nodes, each with a color and,   *)
(* outside the tree, nothing left of it.                                   *)
TypeOK ==
  /\ tree.root \in Nodes \cup {rbnull}
  /\ tree.parent \in [Nodes -> Nodes \cup {rbnull}]
  /\ tree.child \in [Nodes -> [Sides -> Nodes \cup {rbnull}]]
  /\ tree.color \in [Nodes -> {"RED", "BLACK"}]
  /\ \A n \in Nodes : tree.value[n] \in IF InTree(n) THEN Values ELSE {0}

(* What rb_traversal asserts: a red node has black children, and the two   *)
(* subtrees of a node have as many black nodes on each way down.  The root *)
(* is black.  It is what makes the search short, and what the fix-up of    *)
(* rb_delete relies on to find a brother that is not rbnull.               *)
RedBlack ==
  /\ rb_color(tree, tree.root) = "BLACK"
  /\ \A n \in Nodes : InTree(n) =>
       /\ rb_color(tree, n) = "RED" => \A m \in Kids(n) : rb_color(tree, m) = "BLACK"
       /\ BlackHeight(rb_child(tree, n, LEFT)) = BlackHeight(rb_child(tree, n, RIGHT))

(* No node of the left subtree is longer than its root, none of the right  *)
(* one shorter.  Rotations may put an equal one on either side.            *)
SearchOrder ==
  \A n \in Nodes : InTree(n) =>
    /\ \A m \in Under(rb_child(tree, n, LEFT))  : rb_value(tree, m) <= rb_value(tree, n)
    /\ \A m \in Under(rb_child(tree, n, RIGHT)) : rb_value(tree, m) >= rb_value(tree, n)

(* A free block that the root does not reach is lost, and one reached but  *)
(* not free is handed out twice: the nodes under the root are those that   *)
(* went in and did not come out, and every child knows its parent.         *)
NoNodeIsLost ==
  /\ Under(tree.root) = {n \in Nodes : InTree(n)}
  /\ \A n \in Nodes : InTree(n) =>
       tree.parent[n] = rbnull <=> n = tree.root
  /\ \A n \in Nodes : InTree(n) => \A m \in Kids(n) : rb_parent(tree, m) = n

(* rb_lower_bound finds a block of the least length that is enough, and    *)
(* rbnull only when no block is: what mm_malloc needs to extend the heap   *)
(* only when it must.                                                      *)
LowerBoundIsBest ==
  \A v \in Values :
    LET enough == {n \in Nodes : InTree(n) /\ rb_value(tree, n) >= v}
        found  == rb_lower_bound(tree, v)
    IN  IF enough = {} THEN found = rbnull
        ELSE found \in enough /\ \A n \in enough : rb_value(tree, found) <= rb_value(tree, n)
============================================================================

---------------------------- MODULE RBTreeProofs ----------------------------
(***************************************************************************)
(* The red-black tree of free blocks, for any number of blocks and any     *)
(* lengths.                                                                *)
(***************************************************************************)
EXTENDS RBTree, BasicFacts

Node0  == Nodes \cup {rbnull}
Colors == {"RED", "BLACK"}

IsTree(t) ==
  /\ t = [root |-> t.root, parent |-> t.parent, child |-> t.child,
          color |-> t.color, value |-> t.value]
  /\ t.root \in Node0 /\ t.parent \in [Nodes -> Node0] /\ t.child \in [Nodes -> [Sides -> Node0]]
  /\ t.color \in [Nodes -> Colors] /\ t.value \in [Nodes -> Nat]

LEMMA SidesAre ==
  /\ LEFT \in Sides /\ RIGHT \in Sides /\ LEFT # RIGHT
  /\ Other(LEFT) = RIGHT /\ Other(RIGHT) = LEFT
  /\ \A w \in Sides : w = LEFT \/ w = RIGHT
BY DEF Sides, LEFT, RIGHT, Other

LEMMA OthersAre ==
  ASSUME NEW w \in Sides
  PROVE  /\ Other(w) \in Sides /\ Other(w) # w /\ Other(Other(w)) = w
         /\ \A v \in Sides : v = w \/ v = Other(w)
BY DEF Sides, LEFT, RIGHT, Other

-----------------------------------------------------------------------------
(* What is read of a tree after one of its fields was set.                 *)

LEMMA ReadsAre ==
  ASSUME NEW t, IsTree(t)
  PROVE  /\ \A n \in Node0 : rb_parent(t, n) \in Node0 /\ rb_color(t, n) \in Colors
         /\ \A n \in Node0, w \in Sides : rb_child(t, n, w) \in Node0
         /\ \A n \in Node0, p \in Node0 : rb_which(t, n, p) \in Sides
         /\ \A w \in Sides : rb_child(t, rbnull, w) = rbnull
         /\ rb_color(t, rbnull) = "BLACK" /\ rb_parent(t, rbnull) = rbnull
         /\ t.root \in Node0 /\ t.value \in [Nodes -> Nat]
<1>1. /\ \A n \in Node0 : rb_parent(t, n) \in Node0 /\ rb_color(t, n) \in Colors
      /\ \A n \in Node0, w \in Sides : rb_child(t, n, w) \in Node0
  BY DEF IsTree, rb_parent, rb_color, rb_child, Node0, Colors
<1>2. \A n \in Node0, p \in Node0 : rb_which(t, n, p) \in Sides
  BY SidesAre DEF rb_which
<1> QED BY <1>1, <1>2 DEF IsTree, rb_parent, rb_color, rb_child

(* s differs from t in nothing but colors.                                 *)
Tinted(s, t) ==
  /\ IsTree(s) /\ s.root = t.root /\ s.value = t.value
  /\ \A m \in Node0 : rb_parent(s, m) = rb_parent(t, m)
  /\ \A m \in Node0, v \in Sides : rb_child(s, m, v) = rb_child(t, m, v)

LEMMA SetColorIs ==
  ASSUME NEW t, IsTree(t), NEW n \in Node0, NEW c \in Colors
  PROVE  /\ Tinted(set_color(t, n, c), t)
         /\ \A m \in Node0 : rb_color(set_color(t, n, c), m)
                               = IF m = n /\ n # rbnull THEN c ELSE rb_color(t, m)
<1>1. CASE n = rbnull
  BY <1>1 DEF set_color, Tinted
<1>2. CASE n # rbnull
  <2> DEFINE s == set_color(t, n, c)
  <2>1. n \in Nodes
    BY <1>2 DEF Node0
  <2>2. s = [t EXCEPT !.color[n] = c]
    BY <1>2 DEF set_color
  <2>3. /\ s = [root |-> s.root, parent |-> s.parent, child |-> s.child, color |-> s.color, value |-> s.value]
        /\ s.root = t.root /\ s.parent = t.parent /\ s.child = t.child /\ s.value = t.value
        /\ s.color = [t.color EXCEPT ![n] = c]
    BY <2>2 DEF IsTree
  <2> HIDE DEF s
  <2>4. IsTree(s)
    BY <2>1, <2>3 DEF IsTree, Colors
  <2>5. /\ \A m \in Node0 : rb_parent(s, m) = rb_parent(t, m)
        /\ \A m \in Node0, v \in Sides : rb_child(s, m, v) = rb_child(t, m, v)
    BY <2>3 DEF rb_parent, rb_child
  <2>6. \A m \in Node0 : rb_color(s, m) = IF m = n /\ n # rbnull THEN c ELSE rb_color(t, m)
    BY <1>2, <2>1, <2>3 DEF rb_color, IsTree, Node0
  <2> QED BY <2>3, <2>4, <2>5, <2>6 DEF Tinted, s
<1> QED BY <1>1, <1>2

LEMMA TintedTwice ==
  ASSUME NEW r, NEW s, NEW t, Tinted(r, s), Tinted(s, t)
  PROVE  Tinted(r, t)
BY DEF Tinted

(* s is t with another root, with p as the parent of n, with c as a child  *)
(* of n, or with n as a child of p that knows it.                          *)
RootSet(s, t, n) ==
  /\ IsTree(s) /\ s.root = n /\ s.value = t.value
  /\ \A m \in Node0 : rb_parent(s, m) = rb_parent(t, m) /\ rb_color(s, m) = rb_color(t, m)
  /\ \A m \in Node0, v \in Sides : rb_child(s, m, v) = rb_child(t, m, v)

ParentSet(s, t, n, p) ==
  /\ IsTree(s) /\ s.root = t.root /\ s.value = t.value
  /\ \A m \in Node0 : /\ rb_parent(s, m) = IF m = n /\ n # rbnull THEN p ELSE rb_parent(t, m)
                      /\ rb_color(s, m) = rb_color(t, m)
  /\ \A m \in Node0, v \in Sides : rb_child(s, m, v) = rb_child(t, m, v)

ChildSet(s, t, n, w, c) ==
  /\ IsTree(s) /\ s.root = t.root /\ s.value = t.value
  /\ \A m \in Node0 : rb_parent(s, m) = rb_parent(t, m) /\ rb_color(s, m) = rb_color(t, m)
  /\ \A m \in Node0, v \in Sides :
       rb_child(s, m, v) = IF m = n /\ n # rbnull /\ v = w THEN c ELSE rb_child(t, m, v)

Linked(s, t, p, w, n) ==
  /\ IsTree(s) /\ s.root = t.root /\ s.value = t.value
  /\ \A m \in Node0 : /\ rb_parent(s, m) = IF m = n /\ n # rbnull THEN p ELSE rb_parent(t, m)
                      /\ rb_color(s, m) = rb_color(t, m)
  /\ \A m \in Node0, v \in Sides :
       rb_child(s, m, v) = IF m = p /\ p # rbnull /\ v = w THEN n ELSE rb_child(t, m, v)

LEMMA SetRootIs ==
  ASSUME NEW t, IsTree(t), NEW n \in Node0
  PROVE  RootSet(set_root(t, n), t, n)
<1> DEFINE s == set_root(t, n)
<1>1. /\ s = [root |-> s.root, parent |-> s.parent, child |-> s.child, color |-> s.color, value |-> s.value]
      /\ s.root = n /\ s.parent = t.parent /\ s.child = t.child /\ s.value = t.value /\ s.color = t.color
  BY DEF IsTree, set_root
<1> HIDE DEF s
<1>2. RootSet(s, t, n)
  BY <1>1 DEF RootSet, IsTree, rb_parent, rb_child, rb_color
<1> QED BY <1>2 DEF s

LEMMA SetParentIs ==
  ASSUME NEW t, IsTree(t), NEW n \in Node0, NEW p \in Node0
  PROVE  ParentSet(set_parent(t, n, p), t, n, p)
<1>1. CASE n = rbnull
  BY <1>1 DEF set_parent, ParentSet
<1>2. CASE n # rbnull
  <2> DEFINE s == set_parent(t, n, p)
  <2>1. n \in Nodes
    BY <1>2 DEF Node0
  <2>2. s = [t EXCEPT !.parent[n] = p]
    BY <1>2 DEF set_parent
  <2>3. /\ s = [root |-> s.root, parent |-> s.parent, child |-> s.child, color |-> s.color, value |-> s.value]
        /\ s.root = t.root /\ s.color = t.color /\ s.child = t.child /\ s.value = t.value
        /\ s.parent = [t.parent EXCEPT ![n] = p]
    BY <2>2 DEF IsTree
  <2> HIDE DEF s
  <2>4. IsTree(s)
    BY <2>1, <2>3 DEF IsTree
  <2>5. /\ \A m \in Node0 : rb_color(s, m) = rb_color(t, m)
        /\ \A m \in Node0, v \in Sides : rb_child(s, m, v) = rb_child(t, m, v)
    BY <2>3 DEF rb_color, rb_child
  <2>6. \A m \in Node0 : rb_parent(s, m) = IF m = n /\ n # rbnull THEN p ELSE rb_parent(t, m)
    BY <1>2, <2>1, <2>3 DEF rb_parent, IsTree, Node0
  <2>7. ParentSet(s, t, n, p)
    BY <2>3, <2>4, <2>5, <2>6 DEF ParentSet
  <2> QED BY <2>7 DEF s
<1> QED BY <1>1, <1>2

LEMMA SetChildIs ==
  ASSUME NEW t, IsTree(t), NEW n \in Node0, NEW w \in Sides, NEW c \in Node0
  PROVE  ChildSet(set_child(t, n, w, c), t, n, w, c)
<1>1. CASE n = rbnull
  BY <1>1 DEF set_child, ChildSet
<1>2. CASE n # rbnull
  <2> DEFINE s == set_child(t, n, w, c)
  <2>1. n \in Nodes
    BY <1>2 DEF Node0
  <2>2. s = [t EXCEPT !.child[n][w] = c]
    BY <1>2 DEF set_child
  <2>3. /\ s = [root |-> s.root, parent |-> s.parent, child |-> s.child, color |-> s.color, value |-> s.value]
        /\ s.root = t.root /\ s.color = t.color /\ s.parent = t.parent /\ s.value = t.value
        /\ s.child = [t.child EXCEPT ![n] = [t.child[n] EXCEPT ![w] = c]]
    BY <2>2 DEF IsTree
  <2> HIDE DEF s
  <2>4. /\ s.child \in [Nodes -> [Sides -> Node0]]
        /\ \A m \in Nodes, v \in Sides :
             s.child[m][v] = IF m = n /\ v = w THEN c ELSE t.child[m][v]
    BY <2>1, <2>3 DEF IsTree
  <2>5. IsTree(s)
    BY <2>3, <2>4 DEF IsTree
  <2>6. \A m \in Node0 : rb_color(s, m) = rb_color(t, m) /\ rb_parent(s, m) = rb_parent(t, m)
    BY <2>3 DEF rb_color, rb_parent
  <2>7. \A m \in Node0, v \in Sides :
          rb_child(s, m, v) = IF m = n /\ n # rbnull /\ v = w THEN c ELSE rb_child(t, m, v)
    BY <1>2, <2>1, <2>4 DEF rb_child, Node0
  <2>8. ChildSet(s, t, n, w, c)
    BY <2>3, <2>5, <2>6, <2>7 DEF ChildSet
  <2> QED BY <2>8 DEF s
<1> QED BY <1>1, <1>2

LEMMA LinkIs ==
  ASSUME NEW t, IsTree(t), NEW p \in Node0, NEW w \in Sides, NEW n \in Node0
  PROVE  Linked(link(t, p, w, n), t, p, w, n)
<1> DEFINE r == set_child(t, p, w, n)
           s == set_parent(r, n, p)
<1>1. ChildSet(r, t, p, w, n)
  BY SetChildIs
<1>2. link(t, p, w, n) = s
  BY DEF link
<1> HIDE DEF r
<1>3. IsTree(r)
  BY <1>1 DEF ChildSet
<1>4. ParentSet(s, r, n, p)
  BY <1>3, SetParentIs
<1> HIDE DEF s
<1>5. Linked(s, t, p, w, n)
  BY <1>1, <1>4 DEF ChildSet, ParentSet, Linked
<1> QED BY <1>2, <1>5

-----------------------------------------------------------------------------
(* A rotation.                                                             *)

(* node has taken the place of its parent p, on side pw of g.              *)
Rotated(s, t, node, w, p, pw, g) ==
  /\ IsTree(s) /\ s.value = t.value
  /\ s.root = IF g = rbnull THEN node ELSE t.root
  /\ \A m \in Node0 : rb_color(s, m) = rb_color(t, m)
  /\ \A m \in Node0, v \in Sides :
       rb_child(s, m, v) =
         IF m = node /\ v = Other(w) THEN p
         ELSE IF m = p /\ v = w THEN rb_child(t, node, Other(w))
         ELSE IF m = g /\ m # rbnull /\ v = pw THEN node
         ELSE rb_child(t, m, v)
  /\ \A m \in Node0 :
       rb_parent(s, m) =
         IF m = p THEN node
         ELSE IF m = node THEN g
         ELSE IF m = rb_child(t, node, Other(w)) /\ m # rbnull THEN p
         ELSE rb_parent(t, m)

LEMMA RotateIs ==
  ASSUME NEW t, IsTree(t), NEW node \in Nodes, NEW w \in Sides, NEW p \in Nodes,
         NEW pw \in Sides, NEW g \in Node0, node # p, node # g, p # g,
         rb_child(t, node, Other(w)) \notin {node, p}
  PROVE  Rotated(rb_rotate(t, node, w, p, pw, g), t, node, w, p, pw, g)
<1> DEFINE c == rb_child(t, node, Other(w))
           up == link(t, g, pw, node)
           across == link(up, p, w, c)
           down == link(across, node, Other(w), p)
           s == rb_rotate(t, node, w, p, pw, g)
<1>1. /\ node \in Node0 /\ p \in Node0 /\ c \in Node0 /\ Other(w) \in Sides /\ Other(w) # w
      /\ node # rbnull /\ p # rbnull
  BY ReadsAre, OthersAre, NodesAssumption DEF Node0
<1>2. s = IF g = rbnull THEN set_root(down, node) ELSE down
  BY DEF rb_rotate
<1>3. c \notin {node, p}
  OBVIOUS
<1>4. c = rb_child(t, node, Other(w))
  OBVIOUS
<1>5. Linked(up, t, g, pw, node)
  BY <1>1, LinkIs
<1> HIDE DEF up, c
<1>6. Linked(across, up, p, w, c)
  <2>1. IsTree(up)
    BY <1>5 DEF Linked
  <2> QED BY <1>1, <2>1, LinkIs
<1> HIDE DEF across
<1>7. Linked(down, across, node, Other(w), p)
  <2>1. IsTree(across)
    BY <1>6 DEF Linked
  <2> QED BY <1>1, <2>1, LinkIs
<1> HIDE DEF down, s
<1>8. /\ IsTree(s) /\ s.value = down.value /\ s.root = IF g = rbnull THEN node ELSE down.root
      /\ \A m \in Node0 : rb_parent(s, m) = rb_parent(down, m) /\ rb_color(s, m) = rb_color(down, m)
      /\ \A m \in Node0, v \in Sides : rb_child(s, m, v) = rb_child(down, m, v)
  <2>1. IsTree(down)
    BY <1>7 DEF Linked
  <2>2. CASE g = rbnull
    <3>1. s = set_root(down, node)
      BY <1>2, <2>2
    <3>2. RootSet(s, down, node)
      BY <1>1, <2>1, <3>1, SetRootIs
    <3> QED BY <2>2, <3>2 DEF RootSet
  <2>3. CASE g # rbnull
    BY <1>2, <2>1, <2>3
  <2> QED BY <2>2, <2>3
<1>9. \A m \in Node0, v \in Sides :
       rb_child(s, m, v) =
         IF m = node /\ v = Other(w) THEN p
         ELSE IF m = p /\ v = w THEN c
         ELSE IF m = g /\ m # rbnull /\ v = pw THEN node
         ELSE rb_child(t, m, v)
  BY <1>1, <1>5, <1>6, <1>7, <1>8 DEF Linked
<1>10. \A m \in Node0 :
       rb_parent(s, m) =
         IF m = p THEN node
         ELSE IF m = node THEN g
         ELSE IF m = c /\ m # rbnull THEN p
         ELSE rb_parent(t, m)
  BY <1>1, <1>3, <1>5, <1>6, <1>7, <1>8 DEF Linked
<1>11. /\ s.value = t.value /\ s.root = IF g = rbnull THEN node ELSE t.root
       /\ \A m \in Node0 : rb_color(s, m) = rb_color(t, m)
  BY <1>5, <1>6, <1>7, <1>8 DEF Linked
<1>12. Rotated(s, t, node, w, p, pw, g)
  BY <1>4, <1>8, <1>9, <1>10, <1>11 DEF Rotated
<1> QED BY <1>12 DEF s

-----------------------------------------------------------------------------
(* The shape of a tree: u has the nodes under each node, S those in the    *)
(* tree.                                                                   *)

Branches(t, u, n) ==
  /\ \A x \in Nodes : x \in u[n] <=> x = n \/ \E w \in Sides : x \in u[rb_child(t, n, w)]
  /\ \A w \in Sides : n \notin u[rb_child(t, n, w)]
  /\ \A x \in Nodes : ~ (x \in u[rb_child(t, n, LEFT)] /\ x \in u[rb_child(t, n, RIGHT)])

IsChild(t, n, p) == \E w \in Sides : rb_child(t, p, w) = n

Kin(t, S, n) ==
  /\ \A w \in Sides : rb_child(t, n, w) # rbnull =>
       rb_child(t, n, w) \in S /\ rb_parent(t, rb_child(t, n, w)) = n
  /\ rb_parent(t, n) = rbnull <=> n = t.root
  /\ rb_parent(t, n) # rbnull => rb_parent(t, n) \in S /\ IsChild(t, n, rb_parent(t, n))

Shape(t, S, u) ==
  /\ IsTree(t) /\ S \in SUBSET Nodes
  /\ u \in [Node0 -> SUBSET S] /\ u[rbnull] = {}
  /\ t.root \in S \cup {rbnull} /\ u[t.root] = S
  /\ \A n \in S : Branches(t, u, n) /\ Kin(t, S, n)

(* A length that may be on this side of another one.                       *)
Beside(a, w, b) == IF w = LEFT THEN a <= b ELSE a >= b

Ordered(t, S, u) ==
  \A n \in S, w \in Sides : \A m \in u[rb_child(t, n, w)] : Beside(t.value[m], w, t.value[n])

LEMMA BesideIs ==
  ASSUME NEW w \in Sides
  PROVE  /\ \A a, b \in Nat : Beside(a, w, b) <=> Beside(b, Other(w), a)
         /\ \A a, b, c \in Nat : Beside(a, w, b) /\ Beside(b, w, c) => Beside(a, w, c)
         /\ \A a \in Nat : Beside(a, w, a)
BY DEF Beside, Sides, LEFT, RIGHT, Other

(* What a node knows of its parent and grandparent.                        *)
LEMMA FamilyIs ==
  ASSUME NEW t, NEW S, NEW u, Shape(t, S, u), NEW n \in S
  PROVE  /\ n \in Nodes /\ n # rbnull /\ n \in Node0 /\ n \in u[n] /\ u[n] \in SUBSET S
         /\ \A w \in Sides :
              LET c == rb_child(t, n, w)
              IN  /\ c \in Node0 /\ c # n /\ n \notin u[c] /\ u[c] \subseteq u[n]
                  /\ c # rbnull => c \in S /\ rb_parent(t, c) = n /\ c \in u[c]
                  /\ c # rbnull => rb_child(t, n, Other(w)) # c
                  /\ c # rbnull => rb_which(t, c, n) = w
         /\ \A w \in Sides, x \in Nodes :
              /\ x \in u[n] <=> x = n \/ x \in u[rb_child(t, n, w)] \/ x \in u[rb_child(t, n, Other(w))]
              /\ ~ (x \in u[rb_child(t, n, w)] /\ x \in u[rb_child(t, n, Other(w))])
         /\ rb_parent(t, n) = rbnull <=> n = t.root
<1>1. /\ IsTree(t) /\ S \in SUBSET Nodes /\ u \in [Node0 -> SUBSET S] /\ u[rbnull] = {}
      /\ Branches(t, u, n) /\ Kin(t, S, n) /\ \A m \in S : Branches(t, u, m)
  BY DEF Shape
<1>2. n \in Nodes /\ n # rbnull /\ n \in Node0 /\ n \in u[n] /\ u[n] \in SUBSET S
  BY <1>1, NodesAssumption DEF Node0, Branches
<1>3. \A w \in Sides : rb_child(t, n, w) \in Node0
  BY <1>1, <1>2, ReadsAre
<1>4. \A w \in Sides, x \in Nodes :
        /\ x \in u[n] <=> x = n \/ x \in u[rb_child(t, n, w)] \/ x \in u[rb_child(t, n, Other(w))]
        /\ ~ (x \in u[rb_child(t, n, w)] /\ x \in u[rb_child(t, n, Other(w))])
  BY <1>1, SidesAre DEF Branches
<1>5. ASSUME NEW w \in Sides, NEW c, c = rb_child(t, n, w)
      PROVE  /\ c \in Node0 /\ c # n /\ n \notin u[c] /\ u[c] \subseteq u[n]
             /\ c # rbnull => c \in S /\ rb_parent(t, c) = n /\ c \in u[c]
             /\ c # rbnull => rb_child(t, n, Other(w)) # c
  <2>1. c \in Node0 /\ n \notin u[c]
    BY <1>1, <1>3, <1>5 DEF Branches
  <2>2. u[c] \subseteq u[n]
    BY <1>1, <1>4, <1>5, <2>1
  <2>3. c # rbnull => c \in S /\ rb_parent(t, c) = n
    BY <1>1, <1>5 DEF Kin
  <2>4. c # rbnull => c \in u[c] /\ c \in Nodes
    BY <1>1, <2>3 DEF Branches
  <2>5. c # n
    BY <1>2, <2>1
  <2>6. c # rbnull => rb_child(t, n, Other(w)) # c
    BY <1>4, <1>5, <2>4
  <2> QED BY <2>1, <2>2, <2>3, <2>4, <2>5, <2>6
<1>6. ASSUME NEW w \in Sides, NEW c, c = rb_child(t, n, w), c # rbnull
      PROVE  rb_which(t, c, n) = w
  <2>1. rb_child(t, n, Other(w)) # c
    BY <1>5, <1>6
  <2> QED BY <1>6, <2>1, SidesAre DEF rb_which
<1>7. rb_parent(t, n) = rbnull <=> n = t.root
  BY <1>1 DEF Kin
<1> QED BY <1>2, <1>4, <1>5, <1>6, <1>7

LEMMA ParentIs ==
  ASSUME NEW t, NEW S, NEW u, Shape(t, S, u), NEW n \in S, n # t.root,
         NEW p, p = rb_parent(t, n), NEW w, w = rb_which(t, n, p)
  PROVE  p \in S /\ w \in Sides /\ rb_child(t, p, w) = n /\ n # p /\ n \in u[p]
<1>1. p \in S /\ IsChild(t, n, p)
  BY DEF Shape, Kin
<1>2. PICK v \in Sides : rb_child(t, p, v) = n
  BY <1>1 DEF IsChild
<1>3. n # rbnull /\ n \in u[n]
  BY FamilyIs
<1>4. w = v /\ n # p /\ u[n] \subseteq u[p]
  BY <1>1, <1>2, <1>3, FamilyIs
<1> QED BY <1>1, <1>2, <1>3, <1>4

(* A rotation about a node, where the tree has it.                         *)
LEMMA RotateUpIs ==
  ASSUME NEW t, NEW S, NEW u, Shape(t, S, u), NEW node \in S, node # t.root,
         NEW p, p = rb_parent(t, node), NEW w, w = rb_which(t, node, p),
         NEW g, g = rb_parent(t, p), NEW pw, pw = rb_which(t, p, g)
  PROVE  /\ Rotated(rb_rotate(t, node, w, p, pw, g), t, node, w, p, pw, g)
         /\ rotate_up(t, node) = rb_rotate(t, node, w, p, pw, g)
         /\ p \in S /\ p # node /\ w \in Sides /\ rb_child(t, p, w) = node
         /\ pw \in Sides /\ g \in S \cup {rbnull} /\ g # p /\ g # node
         /\ g # rbnull => rb_child(t, g, pw) = p /\ p # t.root
         /\ g = rbnull => p = t.root
<1>1. p \in S /\ w \in Sides /\ rb_child(t, p, w) = node /\ node # p /\ node \in u[p]
  BY ParentIs
<1>2. IsTree(t) /\ S \in SUBSET Nodes /\ rbnull \notin S /\ t.root \in S \cup {rbnull}
  BY NodesAssumption DEF Shape
<1>3. g = rbnull <=> p = t.root
  BY <1>1, FamilyIs
<1>4. CASE g = rbnull
  <2>1. pw \in Sides
    BY <1>1, <1>2, <1>4, ReadsAre DEF Node0
  <2>2. node \in Nodes /\ p \in Nodes /\ g \in Node0 /\ g # node /\ g # p
    BY <1>1, <1>2, <1>4 DEF Node0
  <2>3. rb_child(t, node, Other(w)) \notin {node, p}
    <3>1. Other(w) \in Sides
      BY <1>1, OthersAre
    <3>2. rb_child(t, node, Other(w)) # node
      BY <3>1, FamilyIs
    <3>3. rb_child(t, node, Other(w)) # p
      <4>1. ASSUME rb_child(t, node, Other(w)) = p PROVE FALSE
        <5>1. p # rbnull /\ p \in u[p]
          BY <1>1, FamilyIs
        <5>2. rb_parent(t, p) = node
          BY <3>1, <4>1, <5>1, FamilyIs
        <5> QED BY <1>2, <1>4, <5>2
      <4> QED BY <4>1
    <3> QED BY <3>2, <3>3
  <2>4. Rotated(rb_rotate(t, node, w, p, pw, g), t, node, w, p, pw, g)
    BY <1>1, <1>2, <2>1, <2>2, <2>3, RotateIs
  <2> QED BY <1>1, <1>3, <1>4, <2>1, <2>2, <2>4 DEF rotate_up
<1>5. CASE g # rbnull
  <2>1. g \in S /\ pw \in Sides /\ rb_child(t, g, pw) = p /\ p # g
    BY <1>1, <1>3, <1>5, ParentIs
  <2>2. g # node
    <3>1. g \notin u[p]
      BY <2>1, FamilyIs
    <3> QED BY <1>1, <3>1
  <2>3. rb_child(t, node, Other(w)) \notin {node, p}
    <3>1. Other(w) \in Sides
      BY <1>1, OthersAre
    <3>2. rb_child(t, node, Other(w)) # node
      BY <3>1, FamilyIs
    <3>3. rb_child(t, node, Other(w)) # p
      <4>1. ASSUME rb_child(t, node, Other(w)) = p PROVE FALSE
        <5>1. p # rbnull
          BY <1>1, FamilyIs
        <5>2. rb_parent(t, p) = node
          BY <3>1, <4>1, <5>1, FamilyIs
        <5> QED BY <2>2, <5>2
      <4> QED BY <4>1
    <3> QED BY <3>2, <3>3
  <2>4. node \in Nodes /\ p \in Nodes /\ g \in Node0
    BY <1>1, <1>2, <2>1 DEF Node0
  <2>5. Rotated(rb_rotate(t, node, w, p, pw, g), t, node, w, p, pw, g)
    BY <1>1, <1>2, <2>1, <2>2, <2>3, <2>4, RotateIs
  <2> QED BY <1>1, <1>3, <1>5, <2>1, <2>2, <2>5 DEF rotate_up
<1> QED BY <1>4, <1>5

Turned(u, t, node, w, p) ==
  [u EXCEPT ![node] = u[p],
            ![p] = {p} \cup u[rb_child(t, node, Other(w))] \cup u[rb_child(t, p, Other(w))]]

(* A rotation keeps the shape of a tree and its order.                     *)
LEMMA RotatedShape ==
  ASSUME NEW t, NEW S, NEW u, Shape(t, S, u), NEW node \in S, NEW p \in S, p # node,
         NEW w \in Sides, rb_child(t, p, w) = node,
         NEW g \in S \cup {rbnull}, g = rb_parent(t, p), g # p, g # node,
         NEW pw \in Sides, g # rbnull => rb_child(t, g, pw) = p,
         NEW s, Rotated(s, t, node, w, p, pw, g)
  PROVE  Shape(s, S, Turned(u, t, node, w, p))
<1> DEFINE c == rb_child(t, node, Other(w))
           d == rb_child(t, p, Other(w))
           v == Turned(u, t, node, w, p)
<1> DEFINE x == Other(w)
<1>1. x \in Sides /\ x # w /\ Other(x) = w /\ \A y \in Sides : y = w \/ y = x
  BY OthersAre
<1>2. /\ IsTree(t) /\ S \in SUBSET Nodes /\ u \in [Node0 -> SUBSET S] /\ u[rbnull] = {}
      /\ t.root \in S \cup {rbnull} /\ u[t.root] = S /\ rbnull \notin S
  BY NodesAssumption DEF Shape
<1>3. S \subseteq Node0 /\ rbnull \in Node0
  BY <1>2 DEF Node0
<1>4. /\ c = rb_child(t, node, x) /\ d = rb_child(t, p, x) /\ c \in Node0 /\ d \in Node0
      /\ c # node /\ d # p /\ d # node /\ c # p /\ node # rbnull
  <2>1. node # rbnull /\ p # rbnull /\ node \in u[node] /\ p \notin u[node]
    BY FamilyIs
  <2>2. c \in Node0 /\ d \in Node0 /\ c # node /\ d # p /\ d # node
    BY <1>1, <2>1, FamilyIs
  <2>3. c # p
    BY <1>1, <2>1, FamilyIs
  <2> QED BY <2>1, <2>2, <2>3
<1>5. /\ v \in [Node0 -> SUBSET S]
      /\ v[node] = u[p] /\ v[p] = {p} \cup u[c] \cup u[d]
      /\ \A m \in Node0 : m # node /\ m # p => v[m] = u[m]
  <2>1. u[c] \subseteq S /\ u[d] \subseteq S /\ u[p] \subseteq S
    BY <1>2, <1>3, <1>4
  <2> QED BY <1>2, <1>3, <2>1 DEF Turned
<1> HIDE DEF c, d, v, x
<1>6. /\ IsTree(s) /\ s.root = IF g = rbnull THEN node ELSE t.root
      /\ \A m \in Node0, y \in Sides :
           rb_child(s, m, y) = IF m = node /\ y = x THEN p
                               ELSE IF m = p /\ y = w THEN c
                               ELSE IF m = g /\ m # rbnull /\ y = pw THEN node
                               ELSE rb_child(t, m, y)
      /\ \A m \in Node0 :
           rb_parent(s, m) = IF m = p THEN node ELSE IF m = node THEN g
                             ELSE IF m = c /\ m # rbnull THEN p ELSE rb_parent(t, m)
  BY DEF Rotated, x, c
(* What is under node and p.                                               *)
<1>7. /\ \A y \in Nodes : y \in u[p] <=> y = p \/ y \in u[node] \/ y \in u[d]
      /\ \A y \in Nodes : y \in u[node] <=> y = node \/ y \in u[rb_child(t, node, w)] \/ y \in u[c]
      /\ \A y \in Nodes : ~ (y \in u[node] /\ y \in u[d])
      /\ \A y \in Nodes : ~ (y \in u[rb_child(t, node, w)] /\ y \in u[c])
      /\ node \notin u[rb_child(t, node, w)] /\ node \notin u[c] /\ p \notin u[node] /\ p \notin u[d]
      /\ node \in u[node]
  <2>1. \A y \in Nodes : /\ y \in u[p] <=> y = p \/ y \in u[node] \/ y \in u[d]
                         /\ ~ (y \in u[node] /\ y \in u[d])
    BY FamilyIs DEF d
  <2>2. \A y \in Nodes : /\ y \in u[node] <=> y = node \/ y \in u[rb_child(t, node, w)] \/ y \in u[c]
                         /\ ~ (y \in u[rb_child(t, node, w)] /\ y \in u[c])
    BY FamilyIs DEF c
  <2>3. node \notin u[rb_child(t, node, w)] /\ node \notin u[c] /\ node \in u[node]
    BY <1>1, <1>4, FamilyIs
  <2>4. p \notin u[node] /\ p \notin u[d]
    BY <1>1, <1>4, FamilyIs
  <2> QED BY <2>1, <2>2, <2>3, <2>4
<1>8. ASSUME NEW n \in S PROVE Branches(s, v, n)
  <2> DEFINE a == rb_child(s, n, w)
             b == rb_child(s, n, x)
  <2> SUFFICES /\ \A y \in Nodes : y \in v[n] <=> y = n \/ y \in v[a] \/ y \in v[b]
               /\ n \notin v[a] /\ n \notin v[b]
               /\ \A y \in Nodes : ~ (y \in v[a] /\ y \in v[b])
    <3>1. (a = rb_child(s, n, LEFT) /\ b = rb_child(s, n, RIGHT))
          \/ (b = rb_child(s, n, LEFT) /\ a = rb_child(s, n, RIGHT))
      BY <1>1, SidesAre
    <3> HIDE DEF a, b
    <3>2. ASSUME /\ \A y \in Nodes : y \in v[n] <=> y = n \/ y \in v[a] \/ y \in v[b]
                 /\ n \notin v[a] /\ n \notin v[b]
                 /\ \A y \in Nodes : ~ (y \in v[a] /\ y \in v[b])
          PROVE  Branches(s, v, n)
      BY <1>1, <3>1, <3>2 DEF Branches, a, b
    <3> QED BY <3>2
  <2>1. n \in Node0 /\ n # rbnull
    BY <1>2, <1>3
  <2>2. CASE n = node
    <3>1. a = rb_child(t, node, w) /\ b = p
      BY <1>1, <1>4, <1>6, <2>1, <2>2
    <3>2. a \in Node0 /\ a # node /\ a # p
      BY <1>1, <1>4, <1>7, <3>1, FamilyIs
    <3>3. v[a] = u[a]
      BY <1>5, <3>2
    <3> HIDE DEF a, b
    <3>4. \A y \in Nodes : y \in v[p] <=> y = p \/ y \in u[c] \/ y \in u[d]
      BY <1>5
    <3> QED BY <1>2, <1>5, <1>7, <2>2, <3>1, <3>3, <3>4
  <2>3. CASE n = p
    <3>1. a = c /\ b = d
      BY <1>1, <1>4, <1>6, <2>1, <2>3 DEF d
    <3>2. v[c] = u[c] /\ v[d] = u[d]
      BY <1>4, <1>5
    <3> HIDE DEF a, b
    <3>3. \A y \in Nodes : y \in v[p] <=> y = p \/ y \in u[c] \/ y \in u[d]
      BY <1>5
    <3> QED BY <1>2, <1>5, <1>7, <2>3, <3>1, <3>2, <3>3
  <2>4. CASE n # node /\ n # p
    <3>1. ASSUME NEW y \in Sides
          PROVE  v[rb_child(s, n, y)] = u[rb_child(t, n, y)]
      <4> DEFINE e == rb_child(t, n, y)
                 f == rb_child(s, n, y)
      <4>1. e \in Node0
        BY <1>2, <2>1, ReadsAre
      <4>2. f = IF n = g /\ y = pw THEN node ELSE e
        BY <1>6, <2>1, <2>4
      <4>3. n = g /\ y = pw => e = p
        BY <2>1
      <4>4. (e = p \/ e = node) => n = g /\ y = pw /\ e = p
        <5>1. ASSUME e = p \/ e = node PROVE n = g /\ y = pw /\ e = p
          <6>1. e # rbnull
            BY <1>2, <5>1
          <6>2. rb_parent(t, e) = n
            BY <6>1, FamilyIs
          <6>3. rb_parent(t, node) = p
            BY <1>4, FamilyIs
          <6>4. e = p /\ n = g
            BY <2>4, <5>1, <6>2, <6>3
          <6>5. y = pw
            <7>1. rb_which(t, e, n) = y
              BY <6>1, FamilyIs
            <7>2. rb_which(t, p, g) = pw
              BY <1>2, <2>1, <6>4, FamilyIs
            <7> QED BY <6>4, <7>1, <7>2
          <6> QED BY <6>4, <6>5
        <5> QED BY <5>1
      <4> HIDE DEF e, f
      <4>5. v[f] = u[e]
        <5>1. CASE e = p
          <6>1. f = node
            BY <4>2, <4>4, <5>1
          <6> QED BY <1>5, <5>1, <6>1
        <5>2. CASE e # p
          <6>1. e # node /\ f = e
            BY <4>2, <4>3, <4>4, <5>2
          <6>2. \A m \in Node0 : m # node /\ m # p => v[m] = u[m]
            BY <1>5
          <6> QED BY <4>1, <5>2, <6>1, <6>2
        <5> QED BY <5>1, <5>2
      <4> QED BY <4>5 DEF e, f
    <3>2. v[n] = u[n]
      BY <1>5, <2>1, <2>4
    <3>3. v[a] = u[rb_child(t, n, w)] /\ v[b] = u[rb_child(t, n, x)]
      BY <1>1, <3>1
    <3>4. /\ \A y \in Nodes : y \in u[n] <=> y = n \/ y \in u[rb_child(t, n, w)] \/ y \in u[rb_child(t, n, x)]
          /\ \A y \in Nodes : ~ (y \in u[rb_child(t, n, w)] /\ y \in u[rb_child(t, n, x)])
          /\ n \notin u[rb_child(t, n, w)] /\ n \notin u[rb_child(t, n, x)]
      BY <1>1, FamilyIs DEF x
    <3> HIDE DEF a, b
    <3> QED BY <3>2, <3>3, <3>4
  <2> QED BY <2>2, <2>3, <2>4
<1>9. ASSUME NEW n \in S PROVE Kin(s, S, n)
  <2>0. n \in Node0 /\ n # rbnull /\ node \in Node0 /\ p \in Node0 /\ g \in Node0
    BY <1>2, <1>3
  <2>1. Kin(t, S, n) /\ Kin(t, S, p) /\ Kin(t, S, node)
    BY DEF Shape
  <2>2. ASSUME NEW y \in Sides, rb_child(s, n, y) # rbnull
        PROVE  rb_child(s, n, y) \in S /\ rb_parent(s, rb_child(s, n, y)) = n
    <3> DEFINE f == rb_child(s, n, y)
               e == rb_child(t, n, y)
    <3>1. f = IF n = node /\ y = x THEN p ELSE IF n = p /\ y = w THEN c
              ELSE IF n = g /\ y = pw THEN node ELSE e
      BY <1>6, <2>0
    <3>2. e # rbnull => e \in S /\ rb_parent(t, e) = n
      BY <2>1 DEF Kin
    <3>3. c # rbnull => c \in S /\ rb_parent(t, c) = node
      BY <1>1, <1>4, <2>1 DEF Kin
    <3>4. e = p => n = g /\ y = pw
      <4>1. ASSUME e = p PROVE n = g /\ y = pw
        <5>1. n = g
          BY <1>2, <3>2, <4>1
        <5>2. rb_which(t, e, n) = y /\ rb_which(t, p, g) = pw
          BY <1>2, <2>0, <4>1, <5>1, FamilyIs
        <5> QED BY <4>1, <5>1, <5>2
      <4> QED BY <4>1
    <3>5. e = node => n = p /\ y = w
      <4>1. ASSUME e = node PROVE n = p /\ y = w
        <5>1. rb_parent(t, node) = p
          BY <1>4, FamilyIs
        <5>2. n = p
          BY <1>4, <3>2, <4>1, <5>1
        <5>3. rb_which(t, e, n) = y /\ rb_which(t, node, p) = w
          BY <1>4, <4>1, <5>2, FamilyIs
        <5> QED BY <4>1, <5>2, <5>3
      <4> QED BY <4>1
    <3>6. e = c /\ e # rbnull => n = node /\ y = x
      <4>1. ASSUME e = c, e # rbnull PROVE n = node /\ y = x
        <5>1. n = node
          BY <3>2, <3>3, <4>1
        <5>2. rb_which(t, e, n) = y /\ rb_which(t, c, node) = x
          BY <1>1, <1>4, <4>1, <5>1, FamilyIs
        <5> QED BY <4>1, <5>1, <5>2
      <4> QED BY <4>1
    <3> HIDE DEF e, f
    <3>7. f \in Node0
      BY <1>3, <1>4, <2>0, <3>1, <3>2
    <3>8. rb_parent(s, f) = IF f = p THEN node ELSE IF f = node THEN g
                            ELSE IF f = c THEN p ELSE rb_parent(t, f)
      BY <1>6, <2>2, <3>7 DEF f
    <3>9. f # rbnull
      BY <2>2 DEF f
    <3>10. f \in S /\ rb_parent(s, f) = n
      <4>1. CASE n = node /\ y = x
        BY <3>1, <3>8, <4>1
      <4>2. CASE n = p /\ y = w
        BY <1>1, <1>4, <3>1, <3>3, <3>8, <3>9, <4>2
      <4>3. CASE n = g /\ y = pw
        BY <3>1, <3>8, <4>3
      <4>4. CASE ~ (n = node /\ y = x) /\ ~ (n = p /\ y = w) /\ ~ (n = g /\ y = pw)
        <5>1. f = e /\ e # rbnull
          BY <3>1, <3>9, <4>4
        <5>2. e # p /\ e # node /\ e # c
          BY <3>4, <3>5, <3>6, <4>4, <5>1
        <5> QED BY <3>2, <3>8, <5>1, <5>2
      <4> QED BY <4>1, <4>2, <4>3, <4>4
    <3> QED BY <3>10 DEF f
  <2>3. rb_parent(s, n) = IF n = p THEN node ELSE IF n = node THEN g
                          ELSE IF n = c THEN p ELSE rb_parent(t, n)
    BY <1>6, <2>0
  <2>4. g = rbnull <=> p = t.root
    BY <2>1 DEF Kin
  <2>5. c # rbnull => rb_parent(t, c) = node /\ c # t.root
    <3>1. ASSUME c # rbnull PROVE rb_parent(t, c) = node /\ c # t.root
      <4>1. c \in S /\ rb_parent(t, c) = node
        BY <1>1, <1>4, <2>1, <3>1 DEF Kin
      <4>2. rb_parent(t, c) = rbnull <=> c = t.root
        BY <4>1, FamilyIs
      <4> QED BY <1>4, <4>1, <4>2
    <3> QED BY <3>1
  <2>6. rb_parent(t, node) = p /\ node # t.root
    <3>1. rb_parent(t, node) = p
      BY <1>4, FamilyIs
    <3>2. p # rbnull
      BY <1>2
    <3> QED BY <2>1, <3>1, <3>2 DEF Kin
  <2>7. rb_parent(s, n) = rbnull <=> n = s.root
    <3>1. rb_parent(t, n) = rbnull <=> n = t.root
      BY <2>1 DEF Kin
    <3> QED BY <1>2, <1>4, <1>6, <2>0, <2>3, <2>4, <2>5, <2>6, <3>1
  <2>8. ASSUME rb_parent(s, n) # rbnull
        PROVE  rb_parent(s, n) \in S /\ IsChild(s, n, rb_parent(s, n))
    <3>1. CASE n = p
      <4>1. rb_parent(s, n) = node /\ rb_child(s, node, x) = p
        BY <1>1, <1>6, <2>0, <2>3, <3>1
      <4> QED BY <1>1, <3>1, <4>1 DEF IsChild
    <3>2. CASE n = node
      <4>1. rb_parent(s, n) = g /\ g # rbnull
        BY <2>3, <2>8, <3>2
      <4>2. rb_child(s, g, pw) = node
        BY <1>6, <2>0, <4>1
      <4> QED BY <3>2, <4>1, <4>2 DEF IsChild
    <3>3. CASE n = c /\ n # p /\ n # node
      <4>1. rb_parent(s, n) = p
        BY <2>3, <3>3
      <4>2. rb_child(s, p, w) = c
        BY <1>1, <1>6, <2>0
      <4> QED BY <3>3, <4>1, <4>2 DEF IsChild
    <3>4. CASE n # p /\ n # node /\ n # c
      <4> DEFINE q == rb_parent(t, n)
      <4>1. rb_parent(s, n) = q /\ q # rbnull
        BY <2>3, <2>8, <3>4
      <4>2. q \in S /\ IsChild(t, n, q)
        BY <2>1, <4>1 DEF Kin
      <4>3. PICK y \in Sides : rb_child(t, q, y) = n
        BY <4>2 DEF IsChild
      <4> HIDE DEF q
      <4>4. q \in Node0
        BY <1>3, <4>2
      <4>5. ~ (q = node /\ y = x)
        BY <1>4, <3>4, <4>3
      <4>6. ~ (q = p /\ y = w)
        BY <3>4, <4>3
      <4>7. ~ (q = g /\ y = pw)
        BY <3>4, <4>1, <4>3
      <4>8. rb_child(s, q, y) = n
        BY <1>6, <4>3, <4>4, <4>5, <4>6, <4>7
      <4> QED BY <4>1, <4>2, <4>8 DEF IsChild
    <3> QED BY <3>1, <3>2, <3>3, <3>4
  <2> QED BY <2>2, <2>7, <2>8 DEF Kin
<1>10. s.root \in S \cup {rbnull} /\ v[s.root] = S
  <2>1. g = rbnull <=> p = t.root
    BY FamilyIs
  <2>2. node # t.root
    <3>1. rb_parent(t, node) = p
      BY <1>4, FamilyIs
    <3>2. p # rbnull
      BY <1>2
    <3> QED BY <3>1, <3>2, FamilyIs
  <2>3. t.root \in Node0
    BY <1>2, <1>3
  <2> QED BY <1>2, <1>5, <1>6, <2>1, <2>2, <2>3
<1>11. v[rbnull] = {}
  BY <1>2, <1>3, <1>5
<1>12. Shape(s, S, v)
  BY <1>2, <1>5, <1>6, <1>8, <1>9, <1>10, <1>11 DEF Shape
<1> QED BY <1>12 DEF v

LEMMA RotatedOrder ==
  ASSUME NEW t, NEW S, NEW u, Shape(t, S, u), NEW node \in S, NEW p \in S, p # node,
         NEW w \in Sides, rb_child(t, p, w) = node,
         NEW g \in S \cup {rbnull}, g = rb_parent(t, p), g # p, g # node,
         NEW pw \in Sides, g # rbnull => rb_child(t, g, pw) = p,
         NEW s, Rotated(s, t, node, w, p, pw, g), Ordered(t, S, u)
  PROVE  Ordered(s, S, Turned(u, t, node, w, p))
<1> DEFINE c == rb_child(t, node, Other(w))
           d == rb_child(t, p, Other(w))
           v == Turned(u, t, node, w, p)
           x == Other(w)
           Val(n) == t.value[n]
<1>1. x \in Sides /\ x # w /\ Other(x) = w /\ \A y \in Sides : y = w \/ y = x
  BY OthersAre
<1>2. /\ IsTree(t) /\ S \in SUBSET Nodes /\ u \in [Node0 -> SUBSET S] /\ u[rbnull] = {} /\ rbnull \notin S
  BY NodesAssumption DEF Shape
<1>3. S \subseteq Node0 /\ \A n \in S : Val(n) \in Nat
  BY <1>2 DEF Node0, IsTree
<1>4. c = rb_child(t, node, x) /\ d = rb_child(t, p, x) /\ c \in Node0 /\ d \in Node0
  BY <1>1, FamilyIs
<1>5. /\ v[node] = u[p] /\ v[p] = {p} \cup u[c] \cup u[d]
      /\ \A m \in Node0 : m # node /\ m # p => v[m] = u[m]
  BY <1>2, <1>3 DEF Turned
<1>6. /\ s.value = t.value
      /\ \A m \in Node0, y \in Sides :
           rb_child(s, m, y) = IF m = node /\ y = x THEN p
                               ELSE IF m = p /\ y = w THEN c
                               ELSE IF m = g /\ m # rbnull /\ y = pw THEN node
                               ELSE rb_child(t, m, y)
  BY DEF Rotated
<1>7. /\ u[node] \subseteq u[p] /\ u[c] \subseteq u[node] /\ u[d] \subseteq u[p] /\ node \in u[node]
      /\ u[p] \subseteq S
  BY <1>1, <1>4, FamilyIs
<1>8. \A n \in S, y \in Sides : \A m \in u[rb_child(t, n, y)] : Beside(Val(m), y, Val(n))
  BY DEF Ordered
<1> HIDE DEF c, d, v, x, Val
<1>9. /\ Beside(Val(node), w, Val(p)) /\ Beside(Val(p), x, Val(node))
      /\ \A m \in u[c] : Beside(Val(m), x, Val(node)) /\ Beside(Val(m), w, Val(p))
      /\ \A m \in u[d] : Beside(Val(m), x, Val(p)) /\ Beside(Val(m), x, Val(node))
  <2>1. Beside(Val(node), w, Val(p))
    BY <1>7, <1>8
  <2>2. Beside(Val(p), x, Val(node))
    BY <1>3, <2>1, BesideIs DEF x
  <2>3. \A m \in u[c] : Beside(Val(m), x, Val(node)) /\ Beside(Val(m), w, Val(p))
    BY <1>1, <1>4, <1>7, <1>8
  <2>4. ASSUME NEW m \in u[d] PROVE Beside(Val(m), x, Val(p)) /\ Beside(Val(m), x, Val(node))
    <3>1. Beside(Val(m), x, Val(p)) /\ m \in S
      BY <1>1, <1>4, <1>7, <1>8
    <3> QED BY <1>1, <1>3, <2>2, <3>1, BesideIs
  <2> QED BY <2>1, <2>2, <2>3, <2>4
<1>10. ASSUME NEW n \in S, NEW y \in Sides, NEW m \in v[rb_child(s, n, y)]
       PROVE  Beside(Val(m), y, Val(n))
  <2>1. n \in Node0 /\ n # rbnull
    BY <1>2, <1>3
  <2>2. CASE n = node /\ y = x
    <3>1. m \in v[p]
      BY <1>6, <1>10, <2>1, <2>2
    <3>2. m = p \/ m \in u[c] \/ m \in u[d]
      BY <1>5, <3>1
    <3> QED BY <1>9, <2>2, <3>2
  <2>3. CASE n = node /\ y # x
    <3>1. rb_child(s, n, y) = rb_child(t, n, y)
      BY <1>6, <2>1, <2>3
    <3>2. rb_child(t, n, y) \in Node0 /\ rb_child(t, n, y) # node /\ rb_child(t, n, y) # p
      <4>1. p \notin u[node] /\ u[rb_child(t, n, y)] \subseteq u[node]
        BY <2>3, FamilyIs
      <4>2. p \in u[p]
        BY FamilyIs
      <4> QED BY <2>3, <4>1, <4>2, FamilyIs
    <3> QED BY <1>5, <1>8, <1>10, <3>1, <3>2
  <2>4. CASE n = p /\ y = w
    <3>1. rb_child(s, n, y) = c
      BY <1>1, <1>6, <2>1, <2>4
    <3>2. c # node /\ c # p
      <4>1. p \notin u[node]
        BY FamilyIs
      <4>2. p \in u[p]
        BY FamilyIs
      <4>3. c # node
        BY <1>1, <1>4, FamilyIs
      <4> QED BY <1>7, <4>1, <4>2, <4>3
    <3> QED BY <1>4, <1>5, <1>9, <1>10, <2>4, <3>1, <3>2
  <2>5. CASE n = p /\ y # w
    <3>1. rb_child(s, n, y) = d /\ y = x
      BY <1>1, <1>4, <1>6, <2>1, <2>5
    <3>2. d # node /\ d # p
      <4>1. node # rbnull
        BY <1>2
      <4>2. d # node
        BY <4>1, FamilyIs DEF d
      <4> QED BY <1>1, <1>4, <4>2, FamilyIs
    <3> QED BY <1>4, <1>5, <1>9, <1>10, <2>5, <3>1, <3>2
  <2>6. CASE n # node /\ n # p
    <3> DEFINE e == rb_child(t, n, y)
    <3>1. rb_child(s, n, y) = IF n = g /\ y = pw THEN node ELSE e
      BY <1>6, <2>1, <2>6
    <3>2. n = g /\ y = pw => e = p
      BY <2>1
    <3>3. e \in Node0
      BY FamilyIs
    <3>4. e # node
      <4>1. ASSUME e = node PROVE FALSE
        <5>1. rb_parent(t, node) = n
          BY <1>2, <4>1, FamilyIs
        <5>2. rb_parent(t, node) = p
          BY <1>2, FamilyIs
        <5> QED BY <2>6, <5>1, <5>2
      <4> QED BY <4>1
    <3>5. e = p => n = g /\ y = pw
      <4>1. ASSUME e = p PROVE n = g /\ y = pw
        <5>1. p # rbnull
          BY <1>2
        <5>2. n = g
          BY <4>1, <5>1, FamilyIs
        <5>3. rb_which(t, e, n) = y /\ rb_which(t, p, g) = pw
          BY <2>1, <4>1, <5>1, <5>2, FamilyIs
        <5> QED BY <4>1, <5>2, <5>3
      <4> QED BY <4>1
    <3>6. v[rb_child(s, n, y)] = u[e]
      <4> HIDE DEF e
      <4> QED BY <1>5, <3>1, <3>2, <3>3, <3>4, <3>5
    <3> QED BY <1>8, <1>10, <3>6
  <2> QED BY <2>2, <2>3, <2>4, <2>5, <2>6
<1>11. Ordered(s, S, v)
  BY <1>6, <1>10 DEF Ordered, Val
<1> QED BY <1>11 DEF v

LEMMA OnlyChild ==
  ASSUME NEW t, NEW S, NEW u, Shape(t, S, u), NEW n \in S, NEW m \in S,
         NEW v \in Sides, NEW w \in Sides,
         rb_child(t, n, v) = rb_child(t, m, w), rb_child(t, n, v) # rbnull
  PROVE  n = m /\ v = w
<1> DEFINE c == rb_child(t, n, v)
<1>1. c = rb_child(t, m, w) /\ c # rbnull
  OBVIOUS
<1>2. rb_parent(t, c) = n /\ rb_parent(t, c) = m
  BY <1>1, FamilyIs
<1>3. rb_which(t, c, n) = v /\ rb_which(t, c, m) = w
  BY <1>1, FamilyIs
<1> QED BY <1>2, <1>3

LEMMA TintedShape ==
  ASSUME NEW t, NEW S, NEW u, Shape(t, S, u), NEW s, Tinted(s, t)
  PROVE  Shape(s, S, u)
<1>1. /\ IsTree(t) /\ S \in SUBSET Nodes /\ t.root \in S \cup {rbnull} /\ S \subseteq Node0
  BY DEF Shape, Node0
<1>2. /\ IsTree(s) /\ s.root = t.root
      /\ \A m \in S : rb_parent(s, m) = rb_parent(t, m)
      /\ \A m \in S, v \in Sides : rb_child(s, m, v) = rb_child(t, m, v)
  BY <1>1 DEF Tinted
<1>3. ASSUME NEW n \in S PROVE Branches(s, u, n) /\ Kin(s, S, n)
  <2>1. Branches(t, u, n) /\ Kin(t, S, n)
    BY DEF Shape
  <2>2. Branches(s, u, n)
    BY <1>2, <2>1, SidesAre DEF Branches
  <2>3. Kin(s, S, n)
    BY <1>2, <2>1 DEF Kin, IsChild
  <2> QED BY <2>2, <2>3
<1> QED BY <1>2, <1>3 DEF Shape

LEMMA TintedOrder ==
  ASSUME NEW t, NEW S \in SUBSET Nodes, NEW u, Ordered(t, S, u), NEW s, Tinted(s, t)
  PROVE  Ordered(s, S, u)
<1>1. s.value = t.value /\ \A m \in S, v \in Sides : rb_child(s, m, v) = rb_child(t, m, v)
  BY DEF Tinted, Node0
<1> QED BY <1>1 DEF Ordered

(* A search tree.                                                          *)
Search(t, S, u) == Shape(t, S, u) /\ Ordered(t, S, u)

(* Nothing has happened to values and to nodes outside the tree.           *)
Kept(s, t, S) ==
  /\ s.value = t.value
  /\ \A n \in Nodes \ S : rb_parent(s, n) = rb_parent(t, n)

LEMMA TintedKept ==
  ASSUME NEW t, NEW S, NEW s, Tinted(s, t)
  PROVE  Kept(s, t, S)
BY DEF Tinted, Kept, Node0

LEMMA KeptTwice ==
  ASSUME NEW r, NEW s, NEW t, NEW S, Kept(r, s, S), Kept(s, t, S)
  PROVE  Kept(r, t, S)
BY DEF Kept

LEMMA RotateKeeps ==
  ASSUME NEW t, NEW S, NEW u, Search(t, S, u), NEW p \in S, NEW w \in Sides,
         NEW node, node = rb_child(t, p, w), node # rbnull,
         NEW g, g = rb_parent(t, p), NEW pw, pw = rb_which(t, p, g),
         NEW s, s = rb_rotate(t, node, w, p, pw, g)
  PROVE  /\ Rotated(s, t, node, w, p, pw, g)
         /\ \E v : Search(s, S, v)
         /\ Kept(s, t, S) /\ rotate_up(t, node) = s
         /\ node \in S /\ p # node /\ node # t.root /\ rb_parent(t, node) = p /\ rb_which(t, node, p) = w
         /\ pw \in Sides /\ g \in S \cup {rbnull} /\ g # p /\ g # node
         /\ g # rbnull => rb_child(t, g, pw) = p /\ p # t.root
         /\ g = rbnull => p = t.root
<1>1. Shape(t, S, u) /\ Ordered(t, S, u)
  BY DEF Search
<1>2. node \in S /\ rb_parent(t, node) = p /\ rb_which(t, node, p) = w
  BY <1>1, FamilyIs
<1>3. p # rbnull /\ S \in SUBSET Nodes /\ rbnull \notin S
  BY <1>1, NodesAssumption DEF Shape
<1>4. node # t.root
  BY <1>1, <1>2, <1>3, FamilyIs
<1>5. /\ Rotated(s, t, node, w, p, pw, g) /\ rotate_up(t, node) = s
      /\ p # node /\ pw \in Sides /\ g \in S \cup {rbnull} /\ g # p /\ g # node
      /\ g # rbnull => rb_child(t, g, pw) = p /\ p # t.root
      /\ g = rbnull => p = t.root
  BY <1>1, <1>2, <1>4, RotateUpIs
<1>6. Shape(s, S, Turned(u, t, node, w, p))
  BY <1>1, <1>2, <1>5, RotatedShape
<1>7. Ordered(s, S, Turned(u, t, node, w, p))
  BY <1>1, <1>2, <1>5, RotatedOrder
<1>8. Kept(s, t, S)
  <2>1. Other(w) \in Sides
    BY OthersAre
  <2>2. rb_child(t, node, Other(w)) # rbnull => rb_child(t, node, Other(w)) \in S
    BY <1>1, <1>2, <2>1, FamilyIs
  <2>3. \A n \in Nodes \ S : rb_parent(s, n) = rb_parent(t, n)
    BY <1>2, <1>3, <1>5, <2>2, NodesAssumption DEF Rotated, Node0
  <2> QED BY <1>5, <2>3 DEF Rotated, Kept
<1> QED BY <1>2, <1>4, <1>5, <1>6, <1>7, <1>8 DEF Search

-----------------------------------------------------------------------------
(* Colors and heights.                                                     *)

Black(t, n) == IF rb_color(t, n) = "BLACK" THEN 1 ELSE 0

(* h counts black nodes on every way down, where side x of q is one short. *)
Balanced(t, S, h, q, x) ==
  /\ h \in [Node0 -> Nat] /\ h[rbnull] = 0
  /\ \A n \in S, w \in Sides :
       h[n] = h[rb_child(t, n, w)] + Black(t, n) + (IF n = q /\ w = x THEN 1 ELSE 0)

(* No red node has a red child but e.                                      *)
NoRedRed(t, S, e) ==
  \A n \in S, w \in Sides :
    rb_color(t, n) = "RED" /\ rb_color(t, rb_child(t, n, w)) = "RED" => rb_child(t, n, w) = e

RootBlack(t) == rb_color(t, t.root) = "BLACK"

(* The last turn of rb_insert_fixup.                                       *)
LEMMA InsertTurn ==
  ASSUME NEW t, NEW S, NEW u, Search(t, S, u), NEW h, Balanced(t, S, h, rbnull, LEFT), RootBlack(t),
         NEW g \in S, NEW pw \in Sides, NEW top, top = rb_child(t, g, pw), top # rbnull,
         rb_color(t, top) = "RED", rb_color(t, g) = "BLACK",
         rb_color(t, rb_child(t, g, Other(pw))) = "BLACK",
         NEW e, e = rb_child(t, top, pw), rb_color(t, e) = "RED", NoRedRed(t, S, e),
         NEW s, s = rotate_up(set_color(set_color(t, top, "BLACK"), g, "RED"), top)
  PROVE  \E v, k : Search(s, S, v) /\ Balanced(s, S, k, rbnull, LEFT) /\ NoRedRed(s, S, rbnull)
                   /\ RootBlack(s) /\ Kept(s, t, S)
<1> DEFINE t1 == set_color(t, top, "BLACK")
           r == set_color(t1, g, "RED")
           gg == rb_parent(r, g)
           gw == rb_which(r, g, gg)
           x == Other(pw)
           d == rb_child(t, g, x)
           c == rb_child(t, top, x)
<1>1. /\ IsTree(t) /\ S \in SUBSET Nodes /\ rbnull \notin S /\ S \subseteq Node0 /\ rbnull \in Node0
      /\ Shape(t, S, u) /\ Ordered(t, S, u)
  BY NodesAssumption DEF Search, Shape, Node0
<1>2. x \in Sides /\ x # pw /\ Other(x) = pw /\ \A y \in Sides : y = pw \/ y = x
  BY OthersAre
<1>3. top \in S /\ top # g /\ top \in Node0 /\ g \in Node0 /\ g # rbnull
  BY <1>1, FamilyIs
<1>4. Tinted(r, t) /\ \A m \in Node0 : rb_color(r, m) = IF m = g THEN "RED" ELSE IF m = top THEN "BLACK"
                                                      ELSE rb_color(t, m)
  <2>1. Tinted(t1, t) /\ \A m \in Node0 : rb_color(t1, m) = IF m = top /\ top # rbnull THEN "BLACK"
                                                          ELSE rb_color(t, m)
    BY <1>1, <1>3, SetColorIs DEF Colors
  <2>2. IsTree(t1)
    BY <2>1 DEF Tinted
  <2> HIDE DEF t1
  <2>3. Tinted(r, t1) /\ \A m \in Node0 : rb_color(r, m) = IF m = g /\ g # rbnull THEN "RED"
                                                          ELSE rb_color(t1, m)
    BY <1>3, <2>2, SetColorIs DEF Colors
  <2> HIDE DEF r
  <2>4. Tinted(r, t)
    BY <2>1, <2>3, TintedTwice
  <2> QED BY <1>3, <2>1, <2>3, <2>4
<1>5. Search(r, S, u) /\ s = rotate_up(r, top)
  BY <1>1, <1>4, TintedShape, TintedOrder DEF Search
<1> HIDE DEF t1, r
<1>6. top = rb_child(r, g, pw)
  BY <1>3, <1>4 DEF Tinted
<1>7. /\ Rotated(s, r, top, pw, g, gw, gg) /\ \E v : Search(s, S, v)
      /\ Kept(s, r, S)
      /\ gw \in Sides /\ gg \in S \cup {rbnull} /\ gg # g /\ gg # top
      /\ gg # rbnull => rb_child(r, gg, gw) = g /\ g # r.root
      /\ gg = rbnull => g = r.root
      /\ top # r.root
  BY <1>3, <1>5, <1>6, RotateKeeps
<1> HIDE DEF gg, gw
<1>8. /\ \A m \in Node0 : rb_color(s, m) = IF m = g THEN "RED" ELSE IF m = top THEN "BLACK"
                                          ELSE rb_color(t, m)
      /\ s.root = IF gg = rbnull THEN top ELSE t.root
      /\ IsTree(s)
  BY <1>4, <1>7 DEF Rotated, Tinted
<1>9. /\ c \in Node0 /\ d \in Node0 /\ e \in Node0
      /\ c # top /\ c # g /\ d # top /\ d # g /\ e # top /\ e # g
      /\ rb_color(t, c) = "BLACK"
  <2>1. c \in Node0 /\ d \in Node0 /\ e \in Node0 /\ c # top /\ e # top /\ d # g /\ d # top
    BY <1>1, <1>2, <1>3, FamilyIs
  <2>2. g \notin u[top] /\ u[c] \subseteq u[top] /\ u[e] \subseteq u[top] /\ g \in u[g]
    BY <1>1, <1>2, <1>3, FamilyIs
  <2>3. rb_color(t, c) = "BLACK"
    <3>1. ASSUME rb_color(t, c) = "RED" PROVE FALSE
      <4>1. c = e
        BY <1>2, <1>3, <3>1 DEF NoRedRed
      <4>2. c # rbnull
        BY <1>1, <3>1, ReadsAre
      <4> QED BY <1>1, <1>2, <1>3, <4>1, <4>2, FamilyIs
    <3> QED BY <1>1, <2>1, <3>1, ReadsAre DEF Colors
  <2> QED BY <2>1, <2>2, <2>3
<1>10. \A m \in Node0, y \in Sides :
         rb_child(s, m, y) = IF m = top /\ y = x THEN g
                             ELSE IF m = g /\ y = pw THEN c
                             ELSE IF m = gg /\ m # rbnull /\ y = gw THEN top
                             ELSE rb_child(t, m, y)
  <2>1. rb_child(r, top, x) = c
    BY <1>2, <1>3, <1>4 DEF Tinted
  <2>2. \A m \in Node0, y \in Sides : rb_child(r, m, y) = rb_child(t, m, y)
    BY <1>4 DEF Tinted
  <2> HIDE DEF c
  <2> QED BY <1>7, <2>1, <2>2 DEF Rotated
<1> HIDE DEF c, d
<1>11. \A n \in S, y \in Sides :
         n # top /\ n # g /\ ~ (n = gg /\ y = gw) =>
           /\ rb_child(t, n, y) \in Node0 /\ rb_child(t, n, y) # top /\ rb_child(t, n, y) # g
           /\ rb_child(s, n, y) = rb_child(t, n, y)
  <2>1. ASSUME NEW n \in S, NEW y \in Sides, n # top, n # g, ~ (n = gg /\ y = gw)
        PROVE  /\ rb_child(t, n, y) \in Node0 /\ rb_child(t, n, y) # top /\ rb_child(t, n, y) # g
               /\ rb_child(s, n, y) = rb_child(t, n, y)
    <3>1. rb_child(t, n, y) # top
      BY <1>1, <1>3, <2>1, OnlyChild
    <3>2. rb_child(t, n, y) # g
      <4>1. ASSUME rb_child(t, n, y) = g PROVE FALSE
        <5>1. rb_child(r, n, y) = g /\ Shape(r, S, u)
          BY <1>1, <1>4, <1>5, <4>1 DEF Tinted, Search
        <5>2. rb_parent(r, g) = n
          BY <1>3, <5>1, FamilyIs
        <5>3. rb_which(r, g, n) = y
          BY <1>3, <5>1, FamilyIs
        <5> QED BY <2>1, <5>2, <5>3 DEF gg, gw
      <4> QED BY <4>1
    <3>3. rb_child(t, n, y) \in Node0
      BY <1>1, FamilyIs
    <3>4. rb_child(s, n, y) = rb_child(t, n, y)
      BY <1>1, <1>10, <2>1
    <3> QED BY <3>1, <3>2, <3>3, <3>4
  <2> QED BY <2>1
<1>12. gg # rbnull => rb_child(t, gg, gw) = g /\ rb_child(s, gg, gw) = top /\ gg \in S
  <2>1. gg # rbnull => rb_child(t, gg, gw) = g
    BY <1>1, <1>4, <1>7 DEF Tinted
  <2>2. gg # rbnull => rb_child(s, gg, gw) = top
    BY <1>1, <1>7, <1>10
  <2> QED BY <1>7, <2>1, <2>2
<1>13. /\ rb_child(s, top, x) = g /\ rb_child(s, top, pw) = e
       /\ rb_child(s, g, pw) = c /\ rb_child(s, g, x) = d
  BY <1>2, <1>3, <1>7, <1>10 DEF d
(* Heights.                                                                *)
<1>14. /\ h \in [Node0 -> Nat] /\ h[rbnull] = 0
       /\ \A n \in S, w \in Sides : h[n] = h[rb_child(t, n, w)] + Black(t, n)
       /\ h[g] = h[top] + 1 /\ h[g] = h[d] + 1 /\ h[top] = h[e] /\ h[top] = h[c]
  <2>1. /\ h \in [Node0 -> Nat] /\ h[rbnull] = 0
        /\ \A n \in S, w \in Sides : h[n] = h[rb_child(t, n, w)] + Black(t, n)
    <3>1. \A n \in S : n # rbnull
      BY <1>1
    <3>2. \A n \in S, w \in Sides : /\ h[n] = h[rb_child(t, n, w)] + Black(t, n) + 0
                                    /\ h[rb_child(t, n, w)] \in Nat /\ Black(t, n) \in Nat
      <4>1. \A n \in S, w \in Sides : rb_child(t, n, w) \in Node0
        BY <1>1, FamilyIs
      <4> QED BY <3>1, <4>1 DEF Balanced, Black
    <3> QED BY <3>2 DEF Balanced
  <2>2. h[g] = h[top] + Black(t, g) /\ h[g] = h[d] + Black(t, g)
        /\ h[top] = h[e] + Black(t, top) /\ h[top] = h[c] + Black(t, top)
    BY <1>2, <1>3, <2>1 DEF c, d
  <2>3. Black(t, g) = 1 /\ Black(t, top) = 0
    BY DEF Black
  <2>4. h[e] \in Nat /\ h[c] \in Nat /\ h[d] \in Nat /\ h[top] \in Nat
    BY <1>3, <1>9, <2>1
  <2> QED BY <2>1, <2>2, <2>3, <2>4
<1> DEFINE k == [h EXCEPT ![top] = h[g], ![g] = h[top]]
<1>15. /\ k \in [Node0 -> Nat] /\ k[top] = h[g] /\ k[g] = h[top]
       /\ \A m \in Node0 : m # top /\ m # g => k[m] = h[m]
  BY <1>3, <1>14
<1> HIDE DEF k
<1>16. \A n \in S, y \in Sides : k[n] = k[rb_child(s, n, y)] + Black(s, n)
  <2>1. ASSUME NEW n \in S, NEW y \in Sides PROVE k[n] = k[rb_child(s, n, y)] + Black(s, n)
    <3>1. CASE n = top
      <4>1. Black(s, n) = 1
        BY <1>3, <1>8, <3>1 DEF Black
      <4>2. k[rb_child(s, n, y)] = h[top]
        <5>1. CASE y = x
          BY <1>13, <1>15, <3>1, <5>1
        <5>2. CASE y = pw
          BY <1>9, <1>13, <1>14, <1>15, <3>1, <5>2
        <5> QED BY <1>2, <5>1, <5>2
      <4> QED BY <1>14, <1>15, <3>1, <4>1, <4>2
    <3>2. CASE n = g
      <4>1. Black(s, n) = 0
        BY <1>3, <1>8, <3>2 DEF Black
      <4>2. k[rb_child(s, n, y)] = h[top]
        <5>1. h[d] = h[top]
          BY <1>3, <1>9, <1>14
        <5>2. CASE y = x
          BY <1>9, <1>13, <1>15, <3>2, <5>1, <5>2
        <5>3. CASE y = pw
          BY <1>9, <1>13, <1>14, <1>15, <3>2, <5>3
        <5> QED BY <1>2, <5>2, <5>3
      <4>3. h[top] \in Nat
        BY <1>3, <1>14
      <4> QED BY <1>15, <3>2, <4>1, <4>2, <4>3
    <3>3. CASE n # top /\ n # g
      <4>1. Black(s, n) = Black(t, n) /\ k[n] = h[n]
        BY <1>1, <1>8, <1>15, <3>3 DEF Black
      <4>2. k[rb_child(s, n, y)] = h[rb_child(t, n, y)]
        <5>1. CASE n = gg /\ y = gw
          BY <1>1, <1>12, <1>15, <5>1
        <5>2. CASE ~ (n = gg /\ y = gw)
          BY <1>11, <1>15, <3>3, <5>2
        <5> QED BY <5>1, <5>2
      <4> QED BY <1>14, <4>1, <4>2
    <3> QED BY <3>1, <3>2, <3>3
  <2> QED BY <2>1
<1>17. Balanced(s, S, k, rbnull, LEFT)
  <2>1. k[rbnull] = 0
    BY <1>1, <1>3, <1>14, <1>15
  <2>2. \A n \in S, y \in Sides : /\ n # rbnull
                                  /\ k[rb_child(s, n, y)] \in Nat /\ Black(s, n) \in Nat
    <3>1. \A n \in S, y \in Sides : rb_child(s, n, y) \in Node0
      BY <1>1, <1>8, ReadsAre
    <3> QED BY <1>1, <1>15, <3>1 DEF Black
  <2> QED BY <1>15, <1>16, <2>1, <2>2 DEF Balanced
(* Colors.                                                                 *)
<1>18. NoRedRed(s, S, rbnull)
  <2>1. ASSUME NEW n \in S, NEW y \in Sides, rb_color(s, n) = "RED",
               rb_color(s, rb_child(s, n, y)) = "RED"
        PROVE  FALSE
    <3>1. n # top
      BY <1>3, <1>8, <2>1
    <3>2. CASE n = g
      <4>1. rb_child(s, n, y) = c \/ rb_child(s, n, y) = d
        BY <1>2, <1>13, <3>2
      <4>2. rb_color(t, d) = "BLACK"
        BY DEF d
      <4> QED BY <1>8, <1>9, <2>1, <4>1, <4>2
    <3>3. CASE n # g
      <4>1. rb_color(t, n) = "RED"
        BY <1>1, <1>8, <2>1, <3>1, <3>3
      <4>2. CASE n = gg /\ y = gw
        BY <1>1, <1>3, <1>8, <1>12, <2>1, <4>2
      <4>3. CASE ~ (n = gg /\ y = gw)
        <5> DEFINE f == rb_child(t, n, y)
        <5>1. f \in Node0 /\ f # top /\ f # g /\ rb_child(s, n, y) = f
          BY <1>11, <3>1, <3>3, <4>3
        <5>2. rb_color(t, f) = "RED"
          BY <1>8, <2>1, <5>1
        <5>3. f = e
          BY <4>1, <5>2 DEF NoRedRed
        <5>4. f # rbnull
          BY <1>1, <5>2, ReadsAre
        <5> QED BY <1>1, <1>3, <3>1, <5>3, <5>4, OnlyChild
      <4> QED BY <4>2, <4>3
    <3> QED BY <3>2, <3>3
  <2> QED BY <2>1 DEF NoRedRed
<1>19. RootBlack(s)
  <2>1. CASE gg = rbnull
    BY <1>3, <1>8, <2>1 DEF RootBlack
  <2>2. CASE gg # rbnull
    <3>1. t.root # g /\ t.root \in Node0
      BY <1>1, <1>4, <1>7, <2>2, ReadsAre DEF Tinted
    <3> QED BY <1>8, <2>2, <3>1 DEF RootBlack
  <2> QED BY <2>1, <2>2
<1>20. Kept(s, t, S)
  BY <1>4, <1>7, TintedKept, KeptTwice
<1> QED BY <1>7, <1>17, <1>18, <1>19, <1>20

(* The turn before it, where node is on the inner side of its parent.      *)
LEMMA InsertInner ==
  ASSUME NEW t, NEW S, NEW u, Search(t, S, u), NEW h, Balanced(t, S, h, rbnull, LEFT), RootBlack(t),
         NEW g \in S, NEW pw \in Sides, NEW p, p = rb_child(t, g, pw), p # rbnull,
         NEW node, node = rb_child(t, p, Other(pw)), NoRedRed(t, S, node),
         rb_color(t, p) = "RED", rb_color(t, node) = "RED", rb_color(t, g) = "BLACK",
         NEW s, s = rotate_up(t, node)
  PROVE  /\ \E v : Search(s, S, v)
         /\ Balanced(s, S, h, rbnull, LEFT) /\ NoRedRed(s, S, p) /\ RootBlack(s) /\ Kept(s, t, S)
         /\ rb_parent(s, node) = g /\ rb_child(s, g, pw) = node /\ rb_child(s, node, pw) = p
         /\ rb_child(s, g, Other(pw)) = rb_child(t, g, Other(pw))
         /\ \A m \in Node0 : rb_color(s, m) = rb_color(t, m)
         /\ node # rbnull
<1> DEFINE w == Other(pw)
           c == rb_child(t, node, pw)
           d == rb_child(t, p, pw)
<1>1. /\ IsTree(t) /\ S \in SUBSET Nodes /\ rbnull \notin S /\ S \subseteq Node0 /\ rbnull \in Node0
      /\ Shape(t, S, u) /\ Ordered(t, S, u)
  BY NodesAssumption DEF Search, Shape, Node0
<1>2. w \in Sides /\ w # pw /\ Other(w) = pw /\ \A y \in Sides : y = pw \/ y = w
  BY OthersAre
<1>3. p \in S /\ p # g /\ rb_parent(t, p) = g /\ rb_which(t, p, g) = pw /\ g # rbnull
  BY <1>1, FamilyIs
<1>4. node # rbnull
  BY <1>1, ReadsAre
<1>5. node = rb_child(t, p, w)
  OBVIOUS
<1>6. /\ Rotated(s, t, node, w, p, pw, g) /\ \E v : Search(s, S, v) /\ Kept(s, t, S)
      /\ node \in S /\ p # node /\ node # t.root /\ g # node
  BY <1>2, <1>3, <1>4, <1>5, RotateKeeps
<1> HIDE DEF w
<1>7. /\ c \in Node0 /\ d \in Node0 /\ c # node /\ c # p /\ c # g /\ d # p /\ d # node /\ d # g
  <2>1. c \in Node0 /\ c # node /\ u[c] \subseteq u[node] /\ d \in Node0 /\ d # p /\ u[d] \subseteq u[p] /\ d # node
    BY <1>1, <1>2, <1>3, <1>4, <1>5, <1>6, FamilyIs
  <2>2. p \notin u[node] /\ u[node] \subseteq u[p] /\ g \notin u[p] /\ g \in u[g] /\ p \in u[p]
    BY <1>1, <1>2, <1>3, <1>5, FamilyIs
  <2> QED BY <2>1, <2>2
<1>8. rb_color(t, c) = "BLACK" /\ rb_color(t, d) = "BLACK"
  <2>1. ASSUME rb_color(t, c) = "RED" PROVE FALSE
    BY <1>6, <1>7, <2>1 DEF NoRedRed
  <2>2. ASSUME rb_color(t, d) = "RED" PROVE FALSE
    BY <1>3, <1>7, <2>2 DEF NoRedRed
  <2> QED BY <1>1, <1>7, <2>1, <2>2, ReadsAre DEF Colors
<1>9. /\ \A m \in Node0 : rb_color(s, m) = rb_color(t, m)
      /\ s.root = t.root /\ IsTree(s)
  BY <1>3, <1>6 DEF Rotated
<1>10. \A m \in Node0, y \in Sides :
         rb_child(s, m, y) = IF m = node /\ y = pw THEN p
                             ELSE IF m = p /\ y = w THEN c
                             ELSE IF m = g /\ y = pw THEN node
                             ELSE rb_child(t, m, y)
  <2>1. rb_child(t, node, Other(w)) = c
    BY <1>2
  <2> HIDE DEF c
  <2> QED BY <1>2, <1>3, <1>6, <2>1 DEF Rotated
<1>11. /\ rb_child(s, node, pw) = p /\ rb_child(s, node, w) = rb_child(t, node, w)
       /\ rb_child(s, p, w) = c /\ rb_child(s, p, pw) = d
       /\ rb_child(s, g, pw) = node /\ rb_child(s, g, w) = rb_child(t, g, w)
  <2> HIDE DEF c
  <2> QED BY <1>1, <1>2, <1>3, <1>6, <1>10
<1>12. \A n \in S, y \in Sides : n # node /\ n # p /\ n # g => rb_child(s, n, y) = rb_child(t, n, y)
  <2> HIDE DEF c
  <2> QED BY <1>1, <1>10
(* Heights.                                                                *)
<1>13. /\ h \in [Node0 -> Nat] /\ h[rbnull] = 0
       /\ \A n \in S, y \in Sides : h[n] = h[rb_child(t, n, y)] + Black(t, n)
       /\ h[p] = h[node] /\ h[p] = h[d] /\ h[node] = h[c] /\ h[node] = h[rb_child(t, node, w)]
  <2>1. /\ h \in [Node0 -> Nat] /\ h[rbnull] = 0
        /\ \A n \in S, y \in Sides : h[n] = h[rb_child(t, n, y)] + Black(t, n)
    <3>1. \A n \in S, y \in Sides : /\ n # rbnull
                                    /\ h[n] = h[rb_child(t, n, y)] + Black(t, n) + 0
                                    /\ h[rb_child(t, n, y)] \in Nat /\ Black(t, n) \in Nat
      <4>1. \A n \in S, y \in Sides : rb_child(t, n, y) \in Node0
        BY <1>1, FamilyIs
      <4> QED BY <1>1, <4>1 DEF Balanced, Black
    <3> QED BY <3>1 DEF Balanced
  <2>2. h[p] = h[node] + Black(t, p) /\ h[p] = h[d] + Black(t, p)
        /\ h[node] = h[c] + Black(t, node) /\ h[node] = h[rb_child(t, node, w)] + Black(t, node)
    BY <1>2, <1>3, <1>5, <1>6, <2>1
  <2>3. Black(t, p) = 0 /\ Black(t, node) = 0
    BY DEF Black
  <2>4. h[c] \in Nat /\ h[d] \in Nat /\ h[node] \in Nat /\ h[rb_child(t, node, w)] \in Nat
    <3>1. rb_child(t, node, w) \in Node0
      BY <1>1, <1>2, <1>6, FamilyIs
    <3> QED BY <1>1, <1>6, <1>7, <2>1, <3>1
  <2> QED BY <2>1, <2>2, <2>3, <2>4
<1>14. \A n \in S, y \in Sides : h[n] = h[rb_child(s, n, y)] + Black(s, n)
  <2>1. ASSUME NEW n \in S, NEW y \in Sides PROVE h[rb_child(s, n, y)] = h[rb_child(t, n, y)]
    <3> HIDE DEF c, d
    <3>1. CASE n = node
      <4>1. CASE y = pw
        BY <1>11, <1>13, <3>1, <4>1 DEF c
      <4>2. CASE y = w
        BY <1>11, <3>1, <4>2
      <4> QED BY <1>2, <4>1, <4>2
    <3>2. CASE n = p
      BY <1>2, <1>5, <1>11, <1>13, <3>2 DEF d
    <3>3. CASE n = g
      BY <1>2, <1>11, <1>13, <3>3
    <3>4. CASE n # node /\ n # p /\ n # g
      BY <1>12, <3>4
    <3> QED BY <3>1, <3>2, <3>3, <3>4
  <2>2. \A n \in S : Black(s, n) = Black(t, n)
    BY <1>1, <1>9 DEF Black
  <2> QED BY <1>13, <2>1, <2>2
<1>15. Balanced(s, S, h, rbnull, LEFT)
  <2>1. \A n \in S, y \in Sides : /\ n # rbnull
                                  /\ h[rb_child(s, n, y)] \in Nat /\ Black(s, n) \in Nat
    <3>1. \A n \in S, y \in Sides : rb_child(s, n, y) \in Node0
      BY <1>1, <1>9, ReadsAre
    <3> QED BY <1>1, <1>13, <3>1 DEF Black
  <2> QED BY <1>13, <1>14, <2>1 DEF Balanced
<1>16. NoRedRed(s, S, p)
  <2>1. ASSUME NEW n \in S, NEW y \in Sides, rb_color(s, n) = "RED",
               rb_color(s, rb_child(s, n, y)) = "RED"
        PROVE  rb_child(s, n, y) = p
    <3>1. rb_child(s, n, y) \in Node0 /\ rb_color(t, n) = "RED" /\ rb_color(t, rb_child(s, n, y)) = "RED"
      BY <1>1, <1>9, <2>1, ReadsAre
    <3> HIDE DEF c, d
    <3>2. CASE n = node
      <4>1. CASE y = pw
        BY <1>11, <3>2, <4>1
      <4>2. CASE y = w
        <5>1. rb_child(t, node, w) = node
          BY <1>6, <1>11, <3>1, <3>2, <4>2 DEF NoRedRed
        <5> QED BY <1>1, <1>2, <1>6, <5>1, FamilyIs
      <4> QED BY <1>2, <4>1, <4>2
    <3>3. CASE n = p
      BY <1>2, <1>8, <1>11, <3>1, <3>3
    <3>4. CASE n = g
      BY <3>1, <3>4
    <3>5. CASE n # node /\ n # p /\ n # g
      <4>1. rb_child(s, n, y) = rb_child(t, n, y)
        BY <1>12, <3>5
      <4>2. rb_child(t, n, y) = node
        BY <3>1, <4>1 DEF NoRedRed
      <4> QED BY <1>1, <1>2, <1>3, <1>4, <1>5, <3>5, <4>2, OnlyChild
    <3> QED BY <3>2, <3>3, <3>4, <3>5
  <2> QED BY <2>1 DEF NoRedRed
<1>17. RootBlack(s)
  <2>1. t.root \in Node0
    BY <1>1, ReadsAre
  <2> QED BY <1>9, <2>1 DEF RootBlack
<1>18. rb_parent(s, node) = g
  BY <1>1, <1>6 DEF Rotated
<1> QED BY <1>4, <1>6, <1>9, <1>11, <1>15, <1>16, <1>17, <1>18 DEF w

-----------------------------------------------------------------------------
(* rb_insert_fixup.                                                        *)

(* After n rounds: node, when there is one, is red, and so may its parent  *)
(* be, or node is the root.  It has more than n nodes under it.            *)
Inserting(s, S, n) ==
  /\ s = [tree |-> s.tree, node |-> s.node] /\ s.node \in S \cup {rbnull}
  /\ s.node # rbnull => rb_color(s.tree, s.node) = "RED"
  /\ RootBlack(s.tree) \/ s.tree.root = s.node
  /\ NoRedRed(s.tree, S, s.node)
  /\ \E h : Balanced(s.tree, S, h, rbnull, LEFT)
  /\ \E u : Search(s.tree, S, u) /\ (s.node # rbnull => Cardinality(u[s.node]) > n)

LEMMA FewNodes ==
  ASSUME NEW T \in SUBSET Nodes
  PROVE  IsFiniteSet(T) /\ Cardinality(T) \in Nat /\ Cardinality(T) <= Cardinality(Nodes)
         /\ Cardinality(Nodes) \in Nat
BY NodesAssumption, FS_Subset, FS_CardinalityType

LEMMA MoreUnder ==
  ASSUME NEW t, NEW S, NEW u, Shape(t, S, u), NEW n \in S, NEW w \in Sides
  PROVE  Cardinality(u[rb_child(t, n, w)]) < Cardinality(u[n])
<1>1. /\ S \in SUBSET Nodes /\ n \in u[n] /\ n \notin u[rb_child(t, n, w)]
      /\ u[rb_child(t, n, w)] \subseteq u[n] /\ u[n] \subseteq S
  BY FamilyIs DEF Shape
<1> DEFINE A == u[n]
           B == u[rb_child(t, n, w)]
<1>2. A \in SUBSET Nodes /\ B \in SUBSET A /\ B # A
  BY <1>1
<1> HIDE DEF A, B
<1>3. Cardinality(B) < Cardinality(A)
  BY <1>2, FewNodes, FS_Subset
<1> QED BY <1>3 DEF A, B

LEMMA InsertRound ==
  ASSUME NEW s, NEW S, NEW n \in Nat, Inserting(s, S, n)
  PROVE  Inserting(InsertFixup(s), S, n + 1) /\ Kept(InsertFixup(s).tree, s.tree, S)
<1> DEFINE t == s.tree
           node == s.node
           p == rb_parent(t, node)
           g == rb_parent(t, p)
           pw == rb_which(t, p, g)
           uncle == rb_child(t, g, Other(pw))
           inner == rb_which(t, node, p) # pw
           top == IF inner THEN node ELSE p
           turned == IF inner THEN rotate_up(t, node) ELSE t
           r == InsertFixup(s)
<1>1. PICK u : Search(t, S, u) /\ (node # rbnull => Cardinality(u[node]) > n)
  BY DEF Inserting
<1>2. PICK h : Balanced(t, S, h, rbnull, LEFT)
  BY DEF Inserting
<1>3. /\ node \in S \cup {rbnull} /\ (node # rbnull => rb_color(t, node) = "RED")
      /\ (RootBlack(t) \/ t.root = node) /\ NoRedRed(t, S, node)
      /\ s = [tree |-> t, node |-> node]
  BY DEF Inserting
<1>4. /\ IsTree(t) /\ S \in SUBSET Nodes /\ rbnull \notin S /\ S \subseteq Node0 /\ rbnull \in Node0
      /\ Shape(t, S, u) /\ Ordered(t, S, u) /\ t.root \in Node0
  BY <1>1, NodesAssumption DEF Search, Shape, Node0
<1>5. r = IF node = rbnull THEN s
          ELSE IF node = t.root THEN [tree |-> set_color(t, node, "BLACK"), node |-> rbnull]
          ELSE IF rb_color(t, p) = "BLACK" THEN [tree |-> t, node |-> rbnull]
          ELSE IF rb_color(t, uncle) = "RED"
          THEN [tree |-> set_color(set_color(set_color(t, p, "BLACK"), uncle, "BLACK"), g, "RED"),
                node |-> g]
          ELSE [tree |-> rotate_up(set_color(set_color(turned, top, "BLACK"),
                                             rb_parent(turned, top), "RED"), top),
                node |-> rbnull]
  BY DEF InsertFixup
<1>6. CASE node = rbnull
  <2>1. r = s
    BY <1>5, <1>6
  <2>2. Inserting(s, S, n + 1)
    BY <1>6 DEF Inserting
  <2> QED BY <2>1, <2>2 DEF Kept
<1>7. CASE node # rbnull /\ node = t.root
  <2> DEFINE a == set_color(t, node, "BLACK")
  <2>1. r = [tree |-> a, node |-> rbnull]
    BY <1>5, <1>7
  <2>2. Tinted(a, t) /\ \A m \in Node0 : rb_color(a, m) = IF m = node /\ node # rbnull THEN "BLACK"
                                                        ELSE rb_color(t, m)
    BY <1>3, <1>4, SetColorIs DEF Colors
  <2> HIDE DEF a
  <2>3. Search(a, S, u) /\ Kept(a, t, S)
    BY <1>4, <2>2, TintedShape, TintedOrder, TintedKept DEF Search
  <2>4. RootBlack(a)
    BY <1>4, <1>7, <2>2 DEF RootBlack, Tinted
  <2>5. \A m \in S, w \in Sides : /\ rb_child(a, m, w) = rb_child(t, m, w)
                                  /\ rb_child(t, m, w) \in Node0 /\ rb_child(t, m, w) # node
    <3>1. \A m \in S, w \in Sides : rb_child(a, m, w) = rb_child(t, m, w) /\ rb_child(t, m, w) \in Node0
      BY <1>4, <2>2, ReadsAre DEF Tinted
    <3>2. ASSUME NEW m \in S, NEW w \in Sides, rb_child(t, m, w) = node PROVE FALSE
      <4>1. node \in S /\ rb_parent(t, node) = m
        BY <1>4, <1>7, <3>2, FamilyIs
      <4> QED BY <1>4, <1>7, <4>1, FamilyIs
    <3> QED BY <3>1, <3>2
  <2>6. NoRedRed(a, S, rbnull)
    <3>1. ASSUME NEW m \in S, NEW w \in Sides, rb_color(a, m) = "RED", rb_color(a, rb_child(a, m, w)) = "RED"
          PROVE  FALSE
      <4>1. rb_color(t, m) = "RED" /\ rb_color(t, rb_child(t, m, w)) = "RED"
        BY <1>4, <2>2, <2>5, <3>1
      <4> QED BY <1>3, <2>5, <4>1 DEF NoRedRed
    <3> QED BY <3>1 DEF NoRedRed
  <2> DEFINE k == [h EXCEPT ![node] = h[node] + 1]
  <2>7. Balanced(a, S, k, rbnull, LEFT)
    <3>1. /\ h \in [Node0 -> Nat] /\ h[rbnull] = 0 /\ node \in S
          /\ \A m \in S, w \in Sides : h[m] = h[rb_child(t, m, w)] + Black(t, m) + 0
      BY <1>2, <1>3, <1>4, <1>7 DEF Balanced
    <3>2. k \in [Node0 -> Nat] /\ k[node] = h[node] + 1 /\ \A m \in Node0 : m # node => k[m] = h[m]
      BY <1>4, <3>1
    <3> HIDE DEF k
    <3>3. ASSUME NEW m \in S, NEW w \in Sides
          PROVE  k[m] = k[rb_child(a, m, w)] + Black(a, m) + 0 /\ m # rbnull
      <4>1. k[rb_child(a, m, w)] = h[rb_child(t, m, w)] /\ h[rb_child(t, m, w)] \in Nat
        BY <2>5, <3>1, <3>2
      <4>2. CASE m = node
        <5>1. Black(a, m) = 1 /\ Black(t, m) = 0
          BY <1>3, <1>4, <1>7, <2>2, <4>2 DEF Black
        <5>2. h[m] = h[rb_child(t, m, w)] + Black(t, m) + 0
          BY <3>1
        <5> QED BY <1>7, <3>2, <4>1, <4>2, <5>1, <5>2
      <4>3. CASE m # node
        <5>1. Black(a, m) = Black(t, m)
          BY <1>4, <2>2, <4>3 DEF Black
        <5>2. k[m] = h[m] /\ h[m] = h[rb_child(t, m, w)] + Black(t, m) + 0
          BY <1>4, <3>1, <3>2, <4>3
        <5> QED BY <1>4, <4>1, <5>1, <5>2
      <4> QED BY <4>2, <4>3
    <3>4. k[rbnull] = 0
      BY <1>4, <1>7, <3>1, <3>2
    <3> QED BY <3>2, <3>3, <3>4 DEF Balanced
  <2> HIDE DEF k
  <2>8. Inserting([tree |-> a, node |-> rbnull], S, n + 1)
    BY <2>3, <2>4, <2>6, <2>7 DEF Inserting
  <2> QED BY <2>1, <2>3, <2>8
<1>8. CASE node # rbnull /\ node # t.root
  <2>1. node \in S /\ RootBlack(t) /\ rb_color(t, node) = "RED"
    BY <1>3, <1>8
  <2> DEFINE w == rb_which(t, node, p)
  <2>2. p \in S /\ w \in Sides /\ rb_child(t, p, w) = node /\ node # p /\ p # rbnull
    BY <1>4, <1>8, <2>1, ParentIs
  <2>3. CASE rb_color(t, p) = "BLACK"
    <3>1. r = [tree |-> t, node |-> rbnull]
      BY <1>5, <1>8, <2>3
    <3>2. NoRedRed(t, S, rbnull)
      <4>1. ASSUME NEW m \in S, NEW y \in Sides, rb_color(t, m) = "RED", rb_color(t, rb_child(t, m, y)) = "RED"
            PROVE  FALSE
        <5>1. rb_child(t, m, y) = node
          BY <1>3, <4>1 DEF NoRedRed
        <5>2. m = p
          BY <1>4, <1>8, <2>2, <5>1, OnlyChild
        <5> QED BY <2>3, <4>1, <5>2
      <4> QED BY <4>1 DEF NoRedRed
    <3>3. Inserting([tree |-> t, node |-> rbnull], S, n + 1)
      BY <1>1, <1>2, <2>1, <3>2 DEF Inserting
    <3> QED BY <3>1, <3>3 DEF Kept
  <2>4. CASE rb_color(t, p) # "BLACK"
    <3>1. rb_color(t, p) = "RED"
      BY <1>4, <2>2, <2>4, ReadsAre DEF Colors
    <3>2. p # t.root
      BY <2>1, <2>4 DEF RootBlack
    <3>3. g \in S /\ pw \in Sides /\ rb_child(t, g, pw) = p /\ p # g /\ g # rbnull
      BY <1>4, <2>2, <3>2, ParentIs
    <3>4. rb_color(t, g) = "BLACK"
      <4>1. ASSUME rb_color(t, g) = "RED" PROVE FALSE
        <5>1. p = node
          BY <1>3, <3>1, <3>3, <4>1 DEF NoRedRed
        <5> QED BY <2>2, <5>1
      <4> QED BY <1>4, <3>3, <4>1, ReadsAre DEF Colors
    <3>5. Other(pw) \in Sides /\ Other(pw) # pw /\ \A y \in Sides : y = pw \/ y = Other(pw)
      BY <3>3, OthersAre
    <3>6. CASE rb_color(t, uncle) = "RED"
      <4> DEFINE a1 == set_color(t, p, "BLACK")
                 a2 == set_color(a1, uncle, "BLACK")
                 a == set_color(a2, g, "RED")
                 q == uncle
      <4>1. r = [tree |-> a, node |-> g]
        BY <1>5, <1>8, <2>4, <3>6
      <4>2. q \in S /\ q # p /\ q # g /\ q # rbnull /\ q \in Node0 /\ p \in Node0 /\ g \in Node0
            /\ q = rb_child(t, g, Other(pw))
        <5>1. q # rbnull
          BY <1>4, <3>6, ReadsAre
        <5> QED BY <1>4, <2>2, <3>3, <3>5, <5>1, FamilyIs
      <4> HIDE DEF q
      <4>3. Tinted(a, t) /\ \A m \in Node0 : rb_color(a, m) = IF m = g THEN "RED"
                                                            ELSE IF m = p \/ m = q THEN "BLACK"
                                                            ELSE rb_color(t, m)
        <5>1. Tinted(a1, t) /\ \A m \in Node0 : rb_color(a1, m) = IF m = p /\ p # rbnull THEN "BLACK"
                                                                ELSE rb_color(t, m)
          BY <1>4, <4>2, SetColorIs DEF Colors
        <5>2. IsTree(a1)
          BY <5>1 DEF Tinted
        <5> HIDE DEF a1
        <5>3. Tinted(a2, a1) /\ \A m \in Node0 : rb_color(a2, m) = IF m = q /\ q # rbnull THEN "BLACK"
                                                                 ELSE rb_color(a1, m)
          BY <4>2, <5>2, SetColorIs DEF Colors, q
        <5>4. IsTree(a2)
          BY <5>3 DEF Tinted
        <5> HIDE DEF a2
        <5>5. Tinted(a, a2) /\ \A m \in Node0 : rb_color(a, m) = IF m = g /\ g # rbnull THEN "RED"
                                                               ELSE rb_color(a2, m)
          BY <4>2, <5>4, SetColorIs DEF Colors
        <5> HIDE DEF a
        <5>6. Tinted(a, t)
          BY <5>1, <5>3, <5>5, TintedTwice
        <5> QED BY <2>2, <3>3, <4>2, <5>1, <5>3, <5>5, <5>6
      <4> HIDE DEF a1, a2, a
      <4>4. Search(a, S, u) /\ Kept(a, t, S)
        BY <1>4, <4>3, TintedShape, TintedOrder, TintedKept DEF Search
      <4>5. \A m \in S, y \in Sides : /\ rb_child(a, m, y) = rb_child(t, m, y)
                                      /\ rb_child(t, m, y) \in Node0 /\ m \in Node0
        BY <1>4, <4>3, ReadsAre DEF Tinted
      <4>6. \A m \in S, y \in Sides :
              /\ rb_child(t, m, y) = p => m = g /\ y = pw
              /\ rb_child(t, m, y) = q => m = g /\ y = Other(pw)
              /\ rb_child(t, m, y) = node => m = p
              /\ rb_child(t, g, y) = p \/ rb_child(t, g, y) = q
        <5>1. \A m \in S, y \in Sides : rb_child(t, m, y) = p => m = g /\ y = pw
          BY <1>4, <2>2, <3>3, OnlyChild
        <5>2. \A m \in S, y \in Sides : rb_child(t, m, y) = q => m = g /\ y = Other(pw)
          BY <1>4, <3>3, <3>5, <4>2, OnlyChild
        <5>3. \A m \in S, y \in Sides : rb_child(t, m, y) = node => m = p
          BY <1>4, <1>8, <2>2, OnlyChild
        <5>4. \A y \in Sides : rb_child(t, g, y) = p \/ rb_child(t, g, y) = q
          BY <3>3, <3>5, <4>2
        <5> QED BY <5>1, <5>2, <5>3, <5>4
      <4>7. NoRedRed(a, S, g)
        <5>1. ASSUME NEW m \in S, NEW y \in Sides, rb_color(a, m) = "RED", rb_color(a, rb_child(a, m, y)) = "RED"
              PROVE  rb_child(a, m, y) = g
          <6> DEFINE f == rb_child(t, m, y)
          <6>1. f = rb_child(a, m, y) /\ f \in Node0 /\ m \in Node0
            BY <4>5
          <6>2. f # p /\ f # q
            BY <3>3, <4>2, <4>3, <5>1, <6>1
          <6>3. m # g /\ m # p /\ m # q
            BY <2>2, <3>3, <4>2, <4>3, <4>6, <5>1, <6>1, <6>2
          <6>4. CASE f # g
            <7>1. rb_color(t, m) = "RED" /\ rb_color(t, f) = "RED"
              BY <4>3, <5>1, <6>1, <6>2, <6>3, <6>4
            <7>2. f = node
              BY <1>3, <7>1 DEF NoRedRed
            <7> QED BY <4>6, <6>3, <7>2
          <6> QED BY <6>1, <6>4
        <5> QED BY <5>1 DEF NoRedRed
      <4> DEFINE k == [h EXCEPT ![p] = h[p] + 1, ![q] = h[q] + 1]
      <4>8. Balanced(a, S, k, rbnull, LEFT)
        <5>1. /\ h \in [Node0 -> Nat] /\ h[rbnull] = 0
              /\ \A m \in S, y \in Sides : h[m] = h[rb_child(t, m, y)] + Black(t, m)
          <6>1. /\ h \in [Node0 -> Nat] /\ h[rbnull] = 0
                /\ \A m \in S, y \in Sides : h[m] = h[rb_child(t, m, y)] + Black(t, m) + 0
            BY <1>2, <1>4 DEF Balanced
          <6>2. \A m \in S, y \in Sides : h[rb_child(t, m, y)] \in Nat /\ Black(t, m) \in Nat
            BY <4>5, <6>1 DEF Black
          <6> QED BY <6>1, <6>2
        <5>2. /\ k \in [Node0 -> Nat] /\ k[p] = h[p] + 1 /\ k[q] = h[q] + 1
              /\ \A m \in Node0 : m # p /\ m # q => k[m] = h[m]
          BY <4>2, <5>1
        <5> HIDE DEF k
        <5>3. ASSUME NEW m \in S, NEW y \in Sides
              PROVE  k[m] = k[rb_child(a, m, y)] + Black(a, m) + 0 /\ m # rbnull
          <6> DEFINE f == rb_child(t, m, y)
          <6>1. f = rb_child(a, m, y) /\ f \in Node0 /\ m \in Node0 /\ h[m] = h[f] + Black(t, m)
                /\ h[f] \in Nat /\ h[m] \in Nat
            BY <4>5, <5>1
          <6>2. CASE m = g
            <7>1. Black(a, m) = 0 /\ Black(t, m) = 1
              BY <3>4, <4>2, <4>3, <6>2 DEF Black
            <7>2. k[f] = h[f] + 1 /\ k[m] = h[m]
              BY <3>3, <4>2, <4>6, <5>2, <6>2
            <7> QED BY <1>4, <6>1, <7>1, <7>2
          <6>3. CASE m # g
            <7>1. f # p /\ f # q
              BY <4>6, <6>3
            <7>2. k[f] = h[f]
              BY <5>2, <6>1, <7>1
            <7>3. CASE m = p \/ m = q
              <8>1. Black(a, m) = 1 /\ Black(t, m) = 0
                BY <3>1, <3>6, <4>3, <6>1, <6>3, <7>3 DEF Black, q
              <8>2. k[m] = h[m] + 1
                BY <5>2, <7>3
              <8> QED BY <1>4, <6>1, <7>2, <8>1, <8>2
            <7>4. CASE m # p /\ m # q
              <8>1. Black(a, m) = Black(t, m)
                BY <4>3, <6>1, <6>3, <7>4 DEF Black
              <8>2. k[m] = h[m] /\ Black(t, m) \in Nat
                BY <5>2, <6>1, <7>4 DEF Black
              <8> QED BY <1>4, <6>1, <7>2, <8>1, <8>2
            <7> QED BY <7>3, <7>4
          <6> QED BY <6>2, <6>3
        <5>4. k[rbnull] = 0
          BY <1>4, <2>2, <4>2, <5>1, <5>2
        <5> QED BY <5>2, <5>3, <5>4 DEF Balanced
      <4> HIDE DEF k
      <4>9. RootBlack(a) \/ a.root = g
        <5>1. a.root = t.root /\ t.root \in Node0
          BY <1>4, <4>3 DEF Tinted
        <5> QED BY <2>1, <4>3, <5>1 DEF RootBlack
      <4>10. Cardinality(u[g]) > n + 1
        <5>1. Cardinality(u[node]) < Cardinality(u[p]) /\ Cardinality(u[p]) < Cardinality(u[g])
          BY <1>4, <2>2, <3>3, MoreUnder
        <5>2. u[node] \in SUBSET Nodes /\ u[p] \in SUBSET Nodes /\ u[g] \in SUBSET Nodes
          BY <1>4, <2>1, <2>2, <3>3 DEF Shape
        <5>3. Cardinality(u[node]) \in Nat /\ Cardinality(u[p]) \in Nat /\ Cardinality(u[g]) \in Nat
          BY <5>2, FewNodes
        <5> QED BY <1>1, <1>8, <5>1, <5>3
      <4>11. rb_color(a, g) = "RED"
        BY <4>2, <4>3
      <4>12. Inserting([tree |-> a, node |-> g], S, n + 1)
        BY <3>3, <4>4, <4>7, <4>8, <4>9, <4>10, <4>11 DEF Inserting
      <4> QED BY <4>1, <4>4, <4>12
    <3>7. CASE rb_color(t, uncle) # "RED"
      <4> DEFINE a == rotate_up(set_color(set_color(turned, top, "BLACK"), rb_parent(turned, top), "RED"), top)
      <4>1. r = [tree |-> a, node |-> rbnull]
        BY <1>5, <1>8, <2>4, <3>7
      <4>2. rb_color(t, uncle) = "BLACK" /\ uncle \in Node0
        BY <1>4, <3>3, <3>5, <3>7, ReadsAre DEF Colors
      <4>3. ASSUME \E v, k : Search(a, S, v) /\ Balanced(a, S, k, rbnull, LEFT) /\ NoRedRed(a, S, rbnull)
                             /\ RootBlack(a) /\ Kept(a, t, S)
            PROVE  Inserting(r, S, n + 1) /\ Kept(r.tree, t, S)
        <5> HIDE DEF a
        <5>1. Inserting([tree |-> a, node |-> rbnull], S, n + 1)
          BY <4>3 DEF Inserting
        <5> HIDE DEF r
        <5> QED BY <4>1, <4>3, <5>1
      <4>4. CASE ~ inner
        <5>1. turned = t /\ top = p
          BY <4>4
        <5>2. node = rb_child(t, p, pw)
          BY <2>2, <4>4
        <5>3. a = rotate_up(set_color(set_color(t, p, "BLACK"), g, "RED"), p)
          BY <5>1
        <5> HIDE DEF a
        <5>4. \E v, k : Search(a, S, v) /\ Balanced(a, S, k, rbnull, LEFT) /\ NoRedRed(a, S, rbnull)
                        /\ RootBlack(a) /\ Kept(a, t, S)
          BY <1>1, <1>2, <1>3, <2>1, <2>2, <3>1, <3>3, <3>4, <4>2, <5>2, <5>3, InsertTurn
        <5> QED BY <4>3, <5>4
      <4>5. CASE inner
        <5> DEFINE b == rotate_up(t, node)
        <5>1. turned = b /\ top = node
          BY <4>5
        <5>2. node = rb_child(t, p, Other(pw))
          BY <2>2, <3>5, <4>5
        <5>3. /\ \E v : Search(b, S, v)
              /\ Balanced(b, S, h, rbnull, LEFT) /\ NoRedRed(b, S, p) /\ RootBlack(b) /\ Kept(b, t, S)
              /\ rb_parent(b, node) = g /\ rb_child(b, g, pw) = node /\ rb_child(b, node, pw) = p
              /\ rb_child(b, g, Other(pw)) = uncle
              /\ \A m \in Node0 : rb_color(b, m) = rb_color(t, m)
          BY <1>1, <1>2, <1>3, <2>1, <2>2, <3>1, <3>3, <3>4, <5>2, InsertInner
        <5>4. a = rotate_up(set_color(set_color(b, node, "BLACK"), g, "RED"), node)
          BY <5>1, <5>3
        <5> HIDE DEF a, b
        <5>5. PICK v : Search(b, S, v)
          BY <5>3
        <5>6. /\ rb_color(b, node) = "RED" /\ rb_color(b, g) = "BLACK" /\ rb_color(b, p) = "RED"
              /\ rb_color(b, rb_child(b, g, Other(pw))) = "BLACK"
          BY <1>4, <2>1, <2>2, <3>1, <3>3, <3>4, <4>2, <5>3
        <5>7. PICK vv, k : Search(a, S, vv) /\ Balanced(a, S, k, rbnull, LEFT) /\ NoRedRed(a, S, rbnull)
                           /\ RootBlack(a) /\ Kept(a, b, S)
          BY <1>8, <3>3, <5>3, <5>4, <5>5, <5>6, InsertTurn
        <5>8. Kept(a, t, S)
          BY <5>3, <5>7, KeptTwice
        <5> QED BY <4>3, <5>7, <5>8
      <4> QED BY <4>4, <4>5
    <3> QED BY <3>6, <3>7
  <2> QED BY <2>3, <2>4
<1> QED BY <1>6, <1>7, <1>8

-----------------------------------------------------------------------------
(* Loops.                                                                  *)

LEMMA EachRound ==
  ASSUME NEW R \in Nat, NEW K, 0 \in K, \A k \in 1 .. R : k - 1 \in K => k \in K
  PROVE  R \in K
<1> DEFINE Bad == {k \in 0 .. R : k \notin K}
<1>1. ASSUME R \notin K PROVE FALSE
  <2>1. Bad \in SUBSET Nat /\ Bad # {}
    BY <1>1
  <2>2. PICK k \in Bad : \A j \in Bad : k <= j
    BY <2>1, LeastNatural
  <2>3. k \in 1 .. R /\ k - 1 \in 0 .. R /\ k - 1 \notin Bad
    BY <2>2
  <2> QED BY <2>2, <2>3
<1> QED BY <1>1

(* A sequence of states, each of them good.                                *)
IsIteration(g, R, F, Good, s) ==
  /\ g = [k \in 0 .. R |-> IF k = 0 THEN s ELSE F[g[k - 1]]]
  /\ \A k \in 0 .. R : g[k] \in Good[k]

StaysGood(F, Good, R) == \A k \in 0 .. R : \A x \in Good[k] : F[x] \in Good[k + 1]

LEMMA Iterates ==
  ASSUME NEW R \in Nat, NEW F, NEW Good, NEW s, s \in Good[0], StaysGood(F, Good, R)
  PROVE  \E g : IsIteration(g, R, F, Good, s)
<1> USE DEF StaysGood
<1> DEFINE Fits(n, g) == IsIteration(g, n, F, Good, s)
           K == {n \in Nat : \E g : Fits(n, g)}
<1>1. 0 \in K
  <2> DEFINE g == [k \in 0 .. 0 |-> s]
  <2>1. g = [k \in 0 .. 0 |-> IF k = 0 THEN s ELSE F[g[k - 1]]] /\ \A k \in 0 .. 0 : g[k] \in Good[k]
    OBVIOUS
  <2>2. Fits(0, g)
    BY <2>1 DEF IsIteration
  <2> QED BY <2>2
<1>2. ASSUME NEW n \in 1 .. R, n - 1 \in K PROVE n \in K
  <2>1. PICK f : Fits(n - 1, f)
    BY <1>2
  <2> DEFINE g == [k \in 0 .. n |-> IF k = n THEN F[f[n - 1]] ELSE f[k]]
  <2>2. /\ f = [k \in 0 .. n - 1 |-> IF k = 0 THEN s ELSE F[f[k - 1]]]
        /\ \A k \in 0 .. n - 1 : f[k] \in Good[k]
    BY <2>1 DEF IsIteration
  <2>3. \A k \in 0 .. n : k = n \/ k \in 0 .. n - 1
    OBVIOUS
  <2>4. \A k \in 0 .. n - 1 : f[k] = IF k = 0 THEN s ELSE F[f[k - 1]]
    BY <2>2
  <2>5. g[n] = F[f[n - 1]] /\ n # 0 /\ \A k \in 0 .. n - 1 : g[k] = f[k]
    OBVIOUS
  <2>6. \A k \in 0 .. n : g[k] = IF k = 0 THEN s ELSE F[g[k - 1]]
    <3>1. ASSUME NEW k \in 0 .. n - 1 PROVE g[k] = IF k = 0 THEN s ELSE F[g[k - 1]]
      <4>1. k = 0 \/ k - 1 \in 0 .. n - 1
        OBVIOUS
      <4> HIDE DEF g
      <4> QED BY <2>4, <2>5, <4>1
    <3>2. g[n] = F[g[n - 1]]
      <4>1. n - 1 \in 0 .. n - 1
        OBVIOUS
      <4> HIDE DEF g
      <4> QED BY <2>5, <4>1
    <3> HIDE DEF g
    <3> QED BY <2>3, <2>5, <3>1, <3>2
  <2>7. \A k \in 0 .. n : g[k] \in Good[k]
    <3>1. n - 1 \in 0 .. R /\ n - 1 \in 0 .. n - 1 /\ (n - 1) + 1 = n
      OBVIOUS
    <3>2. F[f[n - 1]] \in Good[n]
      <4>1. f[n - 1] \in Good[n - 1]
        BY <2>2, <3>1
      <4>2. F[f[n - 1]] \in Good[(n - 1) + 1]
        BY <3>1, <4>1
      <4> QED BY <3>1, <4>2
    <3> HIDE DEF g
    <3> QED BY <2>2, <2>3, <2>5, <3>2
  <2>8. g = [k \in 0 .. n |-> IF k = 0 THEN s ELSE F[g[k - 1]]]
    <3>1. g = [k \in 0 .. n |-> g[k]]
      OBVIOUS
    <3> HIDE DEF g
    <3> QED BY <2>6, <3>1
  <2>9. Fits(n, g)
    BY <2>7, <2>8 DEF IsIteration
  <2> HIDE DEF Fits, g
  <2> QED BY <2>9
<1>3. R \in K
  <2> HIDE DEF K
  <2> QED BY <1>1, <1>2, EachRound
<1> QED BY <1>3

LEMMA RoundsIs == Rounds \in Nat /\ Rounds = Cardinality(Nodes) + 1
BY FewNodes DEF Rounds

TreeSet == [root : Node0, parent : [Nodes -> Node0], child : [Nodes -> [Sides -> Node0]],
            color : [Nodes -> Colors], value : [Nodes -> Nat]]

LEMMA TreesAre ==
  ASSUME NEW t, IsTree(t) PROVE t \in TreeSet
BY DEF IsTree, TreeSet

-----------------------------------------------------------------------------
(* rb_insert_fixup, all of it.                                             *)

LEMMA InsertFixupIs ==
  ASSUME NEW t, NEW S, NEW node, Inserting([tree |-> t, node |-> node], S, 0)
  PROVE  \E n : /\ Inserting([tree |-> rb_insert_fixup(t, node), node |-> rbnull], S, n)
                /\ Kept(rb_insert_fixup(t, node), t, S)
<1> DEFINE s == [tree |-> t, node |-> node]
           X == [tree : TreeSet, node : Node0]
           Good == [k \in Nat |-> {x \in X : Inserting(x, S, k) /\ Kept(x.tree, t, S)}]
           F == [x \in X |-> InsertFixup(x)]
           after == CHOOSE g : g = [k \in 0 .. Rounds |-> IF k = 0 THEN s ELSE InsertFixup(g[k - 1])]
<1>1. rb_insert_fixup(t, node) = after[Rounds].tree
  BY DEF rb_insert_fixup, Loop
<1>2. ASSUME NEW x, NEW k \in Nat, Inserting(x, S, k) PROVE x \in X
  <2>1. PICK u : Shape(x.tree, S, u)
    BY <1>2 DEF Inserting, Search
  <2>2. x.tree \in TreeSet /\ x.node \in Node0
    BY <1>2, <2>1, TreesAre DEF Shape, Inserting, Node0
  <2> QED BY <1>2, <2>2 DEF Inserting
<1>3. s \in Good[0]
  <2>1. s \in X
    BY <1>2
  <2> QED BY <2>1 DEF Kept
<1>4. ASSUME NEW k \in 0 .. Rounds, NEW x \in Good[k]
      PROVE  InsertFixup(x) \in Good[k + 1] /\ F[x] = InsertFixup(x)
  <2>1. k \in Nat /\ k + 1 \in Nat
    BY RoundsIs
  <2>2. x \in X /\ Inserting(x, S, k) /\ Kept(x.tree, t, S)
    BY <1>4, <2>1
  <2> DEFINE y == InsertFixup(x)
  <2>3. Inserting(y, S, k + 1) /\ Kept(y.tree, x.tree, S)
    BY <2>1, <2>2, InsertRound
  <2> HIDE DEF y
  <2>4. y \in X /\ Kept(y.tree, t, S)
    BY <1>2, <2>1, <2>2, <2>3, KeptTwice
  <2>5. y \in Good[k + 1]
    BY <2>1, <2>3, <2>4
  <2> QED BY <2>2, <2>5 DEF y
<1>5. PICK g : IsIteration(g, Rounds, F, Good, s)
  <2>1. StaysGood(F, Good, Rounds)
    <3> HIDE DEF F, Good
    <3> QED BY <1>4 DEF StaysGood
  <2> HIDE DEF F, Good, s
  <2> QED BY <1>3, <2>1, Iterates, RoundsIs
<1>6. after = [k \in 0 .. Rounds |-> IF k = 0 THEN s ELSE InsertFixup(after[k - 1])]
  <2>1. ASSUME NEW k \in 0 .. Rounds, k # 0 PROVE F[g[k - 1]] = InsertFixup(g[k - 1])
    <3>1. k - 1 \in 0 .. Rounds
      BY <2>1, RoundsIs
    <3> HIDE DEF F, Good
    <3> QED BY <1>4, <1>5, <3>1 DEF IsIteration
  <2>2. g = [k \in 0 .. Rounds |-> IF k = 0 THEN s ELSE InsertFixup(g[k - 1])]
    <3> HIDE DEF F, Good, s
    <3> QED BY <1>5, <2>1 DEF IsIteration
  <2> QED BY <2>2, Zenon
<1> DEFINE K == {k \in 0 .. Rounds : after[k] \in Good[k]}
<1>7. Rounds \in K
  <2> HIDE DEF after, Good, F, s
  <2>1. 0 \in K
    BY <1>3, <1>6, RoundsIs
  <2>2. ASSUME NEW k \in 1 .. Rounds, k - 1 \in K PROVE k \in K
    <3>1. k - 1 \in 0 .. Rounds /\ (k - 1) + 1 = k /\ k \in 0 .. Rounds /\ k # 0
      BY RoundsIs
    <3>2. after[k] = InsertFixup(after[k - 1])
      BY <1>6, <3>1
    <3>3. InsertFixup(after[k - 1]) \in Good[(k - 1) + 1]
      BY <1>4, <2>2, <3>1
    <3> QED BY <3>1, <3>2, <3>3
  <2> HIDE DEF K
  <2> QED BY <2>1, <2>2, EachRound, RoundsIs
<1> DEFINE z == after[Rounds]
<1>8. Inserting(z, S, Rounds) /\ Kept(z.tree, t, S)
  BY <1>7, RoundsIs
<1> HIDE DEF after, z
<1>9. z.node = rbnull
  <2>1. PICK u : Shape(z.tree, S, u) /\ (z.node # rbnull => Cardinality(u[z.node]) > Rounds)
    BY <1>8 DEF Inserting, Search
  <2>2. z.node \in S \cup {rbnull}
    BY <1>8 DEF Inserting
  <2>3. ASSUME z.node \in S PROVE Cardinality(u[z.node]) <= Cardinality(Nodes) /\ Cardinality(u[z.node]) \in Nat
                                  /\ Cardinality(Nodes) \in Nat
    <3>1. u[z.node] \in SUBSET Nodes
      BY <2>1, <2>3 DEF Shape, Node0
    <3> QED BY <3>1, FewNodes
  <2> QED BY <2>1, <2>2, <2>3, RoundsIs
<1>10. z = [tree |-> z.tree, node |-> rbnull]
  BY <1>8, <1>9 DEF Inserting
<1>11. rb_insert_fixup(t, node) = z.tree
  BY <1>1 DEF z
<1>12. Inserting([tree |-> z.tree, node |-> rbnull], S, Rounds)
  BY <1>8, <1>10
<1> QED BY <1>8, <1>11, <1>12

-----------------------------------------------------------------------------
(* rb_insert.                                                              *)

(* A red-black search tree of S.                                           *)
Sound(t, S) ==
  /\ \E u : Search(t, S, u)
  /\ \E h : Balanced(t, S, h, rbnull, LEFT)
  /\ NoRedRed(t, S, rbnull) /\ RootBlack(t)

LEMMA Upward ==
  ASSUME NEW t, NEW S, NEW u, Shape(t, S, u), NEW n \in S, NEW c \in u[n], c # n
  PROVE  rb_parent(t, c) \in u[n]
<1> DEFINE Stray(m) == \E x \in u[m] : x # m /\ rb_parent(t, x) \notin u[m]
           Bad == {k \in Nat : \E m \in S : Stray(m) /\ k = Cardinality(u[m])}
<1>1. \A m \in S : Cardinality(u[m]) \in Nat
  <2>1. \A m \in S : u[m] \in SUBSET Nodes
    BY DEF Shape, Node0
  <2> QED BY <2>1, FewNodes
<1>2. ASSUME Bad # {} PROVE FALSE
  <2>1. PICK k \in Bad : \A j \in Bad : k <= j
    <3>1. Bad \in SUBSET Nat
      OBVIOUS
    <3> HIDE DEF Bad
    <3> QED BY <1>2, <3>1, LeastNatural
  <2>2. PICK m \in S : Stray(m) /\ k = Cardinality(u[m])
    BY <2>1
  <2>3. PICK x \in u[m] : x # m /\ rb_parent(t, x) \notin u[m]
    BY <2>2
  <2>4. x \in Nodes
    BY <2>3, FamilyIs DEF Shape
  <2>5. PICK w \in Sides : x \in u[rb_child(t, m, w)]
    BY <2>3, <2>4 DEF Shape, Branches
  <2> DEFINE f == rb_child(t, m, w)
  <2>6. f # rbnull
    BY <2>5 DEF Shape
  <2>7. f \in S /\ rb_parent(t, f) = m /\ u[f] \subseteq u[m] /\ m \in u[m]
    BY <2>6, FamilyIs
  <2>8. x # f
    BY <2>3, <2>7
  <2>9. Cardinality(u[f]) < k
    BY <2>2, MoreUnder
  <2> HIDE DEF f
  <2>10. ~ Stray(f)
    <3>1. ASSUME Stray(f) PROVE FALSE
      <4>1. Cardinality(u[f]) \in Bad
        <5> HIDE DEF Stray
        <5> QED BY <1>1, <2>7, <3>1
      <4>2. Cardinality(u[f]) \in Nat /\ k \in Nat /\ k <= Cardinality(u[f])
        BY <1>1, <2>1, <2>2, <2>7, <4>1
      <4> QED BY <2>9, <4>2
    <3> QED BY <3>1
  <2> QED BY <2>3, <2>5, <2>7, <2>8, <2>10 DEF f
<1>3. ~ Stray(n)
  <2>1. ASSUME Stray(n) PROVE FALSE
    <3>1. Cardinality(u[n]) \in Bad
      <4> HIDE DEF Stray
      <4> QED BY <1>1, <2>1
    <3> QED BY <1>2, <3>1
  <2> QED BY <2>1
<1> QED BY <1>3

(* The place that was found so far for a node of this value, after n steps. *)
Placing(current, t, S, u, node, n) ==
  /\ current \in S
  /\ \A a \in S, w \in Sides :
       current \in u[rb_child(t, a, w)] => Beside(t.value[node], w, t.value[a])
  /\ rb_child(t, current, SideFor(t, node, current)) = rbnull
     \/ Cardinality(u[current]) + n <= Cardinality(Nodes)

LEMMA SideIs ==
  ASSUME NEW t, IsTree(t), NEW a \in Nodes, NEW b \in Nodes
  PROVE  SideFor(t, a, b) \in Sides /\ Beside(t.value[a], SideFor(t, a, b), t.value[b])
<1>1. t.value[a] \in Nat /\ t.value[b] \in Nat
  BY DEF IsTree
<1> QED BY <1>1, SidesAre DEF SideFor, Beside, rb_value

LEMMA PlaceIs ==
  ASSUME NEW t, NEW S, NEW u, Search(t, S, u), NEW node \in Nodes, t.root # rbnull
  PROVE  \E n : Placing(Place(t, node), t, S, u, node, n)
                /\ rb_child(t, Place(t, node), SideFor(t, node, Place(t, node))) = rbnull
<1> DEFINE Down(current) == LET child == rb_child(t, current, SideFor(t, node, current))
                            IN  IF child = rbnull THEN current ELSE child
           Good == [k \in Nat |-> {x \in Node0 : Placing(x, t, S, u, node, k)}]
           F == [x \in Node0 |-> Down(x)]
           after == CHOOSE g : g = [k \in 0 .. Rounds |-> IF k = 0 THEN t.root ELSE Down(g[k - 1])]
<1>1. Place(t, node) = after[Rounds]
  BY DEF Place, Loop
<1>2. /\ IsTree(t) /\ S \in SUBSET Nodes /\ rbnull \notin S /\ S \subseteq Node0
      /\ Shape(t, S, u) /\ Ordered(t, S, u) /\ t.root \in S /\ u \in [Node0 -> SUBSET S]
  BY NodesAssumption DEF Search, Shape, Node0
<1>3. \A x \in S : /\ u[x] \in SUBSET Nodes /\ x \in u[x] /\ Cardinality(u[x]) \in Nat
                   /\ Cardinality(u[x]) <= Cardinality(Nodes) /\ Cardinality(Nodes) \in Nat
  <2>1. \A x \in S : u[x] \in SUBSET Nodes /\ x \in u[x]
    BY <1>2, FamilyIs
  <2> QED BY <2>1, FewNodes
<1>4. t.root \in Good[0]
  <2>1. ASSUME NEW a \in S, NEW w \in Sides, t.root \in u[rb_child(t, a, w)] PROVE FALSE
    <3> DEFINE f == rb_child(t, a, w)
    <3>1. f # rbnull
      BY <1>2, <2>1 DEF Shape
    <3>2. f \in S /\ rb_parent(t, f) = a /\ u[f] \in SUBSET S
      BY <1>2, <3>1, FamilyIs
    <3>3. rb_parent(t, t.root) = rbnull
      BY <1>2, FamilyIs
    <3>4. f # t.root
      BY <1>2, <3>2, <3>3
    <3> HIDE DEF f
    <3>5. rb_parent(t, t.root) \in u[f]
      BY <1>2, <2>1, <3>2, <3>4, Upward DEF f
    <3> QED BY <1>2, <3>2, <3>3, <3>5
  <2>2. Cardinality(u[t.root]) + 0 <= Cardinality(Nodes)
    BY <1>2, <1>3
  <2>3. Placing(t.root, t, S, u, node, 0)
    BY <1>2, <2>1, <2>2 DEF Placing
  <2> QED BY <1>2, <2>3
<1>5. ASSUME NEW k \in 0 .. Rounds, NEW x \in Good[k]
      PROVE  Down(x) \in Good[k + 1] /\ F[x] = Down(x)
  <2>1. k \in Nat /\ k + 1 \in Nat
    BY RoundsIs
  <2>2. x \in Node0 /\ Placing(x, t, S, u, node, k) /\ x \in S
    BY <1>5, <2>1 DEF Placing
  <2> DEFINE w == SideFor(t, node, x)
             c == rb_child(t, x, w)
  <2>3. w \in Sides /\ Beside(t.value[node], w, t.value[x])
    BY <1>2, <2>2, SideIs
  <2>4. CASE c = rbnull
    <3>1. Down(x) = x
      BY <2>4
    <3>2. Placing(x, t, S, u, node, k + 1)
      BY <2>2, <2>4 DEF Placing
    <3> QED BY <2>1, <2>2, <3>1, <3>2
  <2>5. CASE c # rbnull
    <3>1. Down(x) = c
      BY <2>5
    <3>2. c \in S /\ rb_parent(t, c) = x /\ c \in Node0 /\ rb_which(t, c, x) = w
      BY <1>2, <2>2, <2>3, <2>5, FamilyIs
    <3>3. Cardinality(u[c]) < Cardinality(u[x])
      BY <1>2, <2>2, <2>3, MoreUnder
    <3>4. Cardinality(u[x]) + k <= Cardinality(Nodes)
      BY <2>2, <2>5 DEF Placing
    <3>5. Cardinality(u[c]) + (k + 1) <= Cardinality(Nodes)
      BY <1>3, <2>1, <2>2, <3>2, <3>3, <3>4
    <3> HIDE DEF c, w
    <3>6. ASSUME NEW a \in S, NEW y \in Sides, c \in u[rb_child(t, a, y)]
          PROVE  Beside(t.value[node], y, t.value[a])
      <4> DEFINE f == rb_child(t, a, y)
      <4>1. f # rbnull
        BY <1>2, <3>6 DEF Shape
      <4>2. f \in S /\ rb_parent(t, f) = a /\ rb_which(t, f, a) = y
        BY <1>2, <4>1, FamilyIs
      <4>3. CASE c = f
        BY <2>3, <3>2, <4>2, <4>3
      <4>4. CASE c # f
        <5>1. x \in u[f]
          <6> HIDE DEF f
          <6> QED BY <1>2, <3>2, <3>6, <4>2, <4>4, Upward DEF f
        <5> QED BY <2>2, <5>1 DEF Placing
      <4> QED BY <4>3, <4>4
    <3>7. Placing(c, t, S, u, node, k + 1)
      BY <3>2, <3>5, <3>6 DEF Placing
    <3> QED BY <2>1, <2>2, <3>1, <3>2, <3>7
  <2> QED BY <2>4, <2>5
<1> HIDE DEF Down
<1>6. PICK g : IsIteration(g, Rounds, F, Good, t.root)
  <2>1. StaysGood(F, Good, Rounds)
    <3> HIDE DEF F, Good
    <3> QED BY <1>5 DEF StaysGood
  <2> HIDE DEF F, Good
  <2> QED BY <1>4, <2>1, Iterates, RoundsIs
<1>7. after = [k \in 0 .. Rounds |-> IF k = 0 THEN t.root ELSE Down(after[k - 1])]
  <2>1. ASSUME NEW k \in 0 .. Rounds, k # 0 PROVE F[g[k - 1]] = Down(g[k - 1])
    <3>1. k - 1 \in 0 .. Rounds
      BY <2>1, RoundsIs
    <3> HIDE DEF F, Good
    <3> QED BY <1>5, <1>6, <3>1 DEF IsIteration
  <2>2. g = [k \in 0 .. Rounds |-> IF k = 0 THEN t.root ELSE Down(g[k - 1])]
    <3> HIDE DEF F, Good
    <3> QED BY <1>6, <2>1 DEF IsIteration
  <2> QED BY <2>2, Zenon
<1> DEFINE K == {k \in 0 .. Rounds : after[k] \in Good[k]}
<1>8. Rounds \in K
  <2> HIDE DEF after, Good, F
  <2>1. 0 \in K
    BY <1>4, <1>7, RoundsIs
  <2>2. ASSUME NEW k \in 1 .. Rounds, k - 1 \in K PROVE k \in K
    <3>1. k - 1 \in 0 .. Rounds /\ (k - 1) + 1 = k /\ k \in 0 .. Rounds /\ k # 0
      BY RoundsIs
    <3>2. after[k] = Down(after[k - 1])
      BY <1>7, <3>1
    <3>3. Down(after[k - 1]) \in Good[(k - 1) + 1]
      BY <1>5, <2>2, <3>1
    <3> QED BY <3>1, <3>2, <3>3
  <2> HIDE DEF K
  <2> QED BY <2>1, <2>2, EachRound, RoundsIs
<1> DEFINE z == after[Rounds]
<1>9. Placing(z, t, S, u, node, Rounds)
  BY <1>8, RoundsIs
<1> HIDE DEF after, z
<1>10. rb_child(t, z, SideFor(t, node, z)) = rbnull
  <2>1. z \in S
    BY <1>9 DEF Placing
  <2>2. ~ (Cardinality(u[z]) + Rounds <= Cardinality(Nodes))
    BY <1>3, <2>1, RoundsIs
  <2> QED BY <1>9, <2>2 DEF Placing
<1>11. Place(t, node) = z
  BY <1>1 DEF z
<1> QED BY <1>9, <1>10, <1>11

(* f is t with a value for node, which has no children.                    *)
Fresh(f, t, node, v) ==
  /\ IsTree(f) /\ f.root = t.root /\ f.value = [t.value EXCEPT ![node] = v]
  /\ \A m \in Node0 : rb_parent(f, m) = rb_parent(t, m) /\ rb_color(f, m) = rb_color(t, m)
  /\ \A m \in Node0, w \in Sides : rb_child(f, m, w) = IF m = node THEN rbnull ELSE rb_child(t, m, w)

IsRecord(t) == t = [root |-> t.root, parent |-> t.parent, child |-> t.child,
                    color |-> t.color, value |-> t.value]

NewValue(s, t, n, v) ==
  /\ IsRecord(s) /\ s.root = t.root /\ s.parent = t.parent /\ s.child = t.child
  /\ s.color = t.color /\ s.value = [t.value EXCEPT ![n] = v]

LEMMA NewValueIs ==
  ASSUME NEW t, IsRecord(t), NEW n, NEW v
  PROVE  NewValue([t EXCEPT !.value[n] = v], t, n, v)
BY DEF IsRecord, NewValue

NewChildren(s, t, n, c) ==
  /\ IsRecord(s) /\ s.root = t.root /\ s.parent = t.parent /\ s.value = t.value
  /\ s.color = t.color /\ s.child = [t.child EXCEPT ![n] = c]

LEMMA NewChildrenIs ==
  ASSUME NEW t, IsRecord(t), NEW n, NEW c
  PROVE  NewChildren([t EXCEPT !.child[n] = c], t, n, c)
BY DEF IsRecord, NewChildren

LEMMA FreshIs ==
  ASSUME NEW t, IsTree(t), NEW node \in Nodes, NEW v \in Nat,
         NEW s, NewValue(s, t, node, v)
  PROVE  Fresh([s EXCEPT !.child[node] = [w \in Sides |-> rbnull]], t, node, v) /\ s.root = t.root
<1> DEFINE none == [w \in Sides |-> rbnull]
<1> DEFINE f == [s EXCEPT !.child[node] = none]
<1>1. IsRecord(s) /\ s.root = t.root /\ s.parent = t.parent /\ s.child = t.child
      /\ s.color = t.color /\ s.value = [t.value EXCEPT ![node] = v]
  BY Zenon DEF NewValue
<1> HIDE DEF none, f
<1>2. /\ IsRecord(f) /\ f.root = t.root /\ f.parent = t.parent /\ f.color = t.color
      /\ f.value = [t.value EXCEPT ![node] = v]
      /\ f.child = [t.child EXCEPT ![node] = none]
  <2>1. /\ IsRecord(f) /\ f.root = s.root /\ f.parent = s.parent /\ f.value = s.value
        /\ f.color = s.color /\ f.child = [s.child EXCEPT ![node] = none]
    <3>1. NewChildren([s EXCEPT !.child[node] = none], s, node, none)
      BY <1>1, NewChildrenIs, Zenon
    <3>2. NewChildren(f, s, node, none)
      BY <3>1, Zenon DEF f
    <3> QED BY <3>2, Zenon DEF NewChildren
  <2> QED BY <1>1, <2>1
<1>3. /\ f.child \in [Nodes -> [Sides -> Node0]]
      /\ \A m \in Nodes, w \in Sides : f.child[m][w] = IF m = node THEN rbnull ELSE t.child[m][w]
  BY <1>2 DEF IsTree, Node0, none
<1>4. f.value \in [Nodes -> Nat]
  BY <1>2 DEF IsTree
<1>5. IsTree(f)
  BY <1>2, <1>3, <1>4 DEF IsTree, IsRecord
<1>6. \A m \in Node0 : rb_parent(f, m) = rb_parent(t, m) /\ rb_color(f, m) = rb_color(t, m)
  BY <1>2 DEF rb_parent, rb_color
<1>7. \A m \in Node0, w \in Sides : rb_child(f, m, w) = IF m = node THEN rbnull ELSE rb_child(t, m, w)
  BY <1>3 DEF rb_child, Node0
<1>8. Fresh(f, t, node, v)
  BY <1>2, <1>5, <1>6, <1>7 DEF Fresh
<1> QED BY <1>1, <1>8 DEF f, none

(* Where a tree looks the same, it is the same.                            *)
LEMMA SameShape ==
  ASSUME NEW t, NEW S, NEW u, Shape(t, S, u), NEW f, IsTree(f), f.root = t.root,
         \A m \in S : rb_parent(f, m) = rb_parent(t, m),
         \A m \in S, w \in Sides : rb_child(f, m, w) = rb_child(t, m, w)
  PROVE  Shape(f, S, u)
<1>1. ASSUME NEW n \in S PROVE Branches(f, u, n) /\ Kin(f, S, n)
  <2>1. Branches(t, u, n) /\ Kin(t, S, n)
    BY DEF Shape
  <2>2. Branches(f, u, n)
    BY <2>1, SidesAre DEF Branches
  <2>3. Kin(f, S, n)
    BY <2>1 DEF Kin, IsChild
  <2> QED BY <2>2, <2>3
<1> QED BY <1>1 DEF Shape

(* A red leaf is put in a free place.                                      *)
LEMMA LeafShape ==
  ASSUME NEW t, NEW S, NEW u, Shape(t, S, u), NEW node \in Nodes \ S,
         NEW q \in S, NEW w \in Sides, rb_child(t, q, w) = rbnull,
         \A y \in Sides : rb_child(t, node, y) = rbnull,
         NEW s, IsTree(s), s.root = t.root,
         \A m \in Node0 : rb_parent(s, m) = IF m = node THEN q ELSE rb_parent(t, m),
         \A m \in Node0, y \in Sides :
           rb_child(s, m, y) = IF m = q /\ y = w THEN node ELSE rb_child(t, m, y),
         NEW v, v = [m \in Node0 |-> IF m = node THEN {node}
                                     ELSE IF q \in u[m] THEN u[m] \cup {node} ELSE u[m]]
  PROVE  Shape(s, S \cup {node}, v)
<1> DEFINE T == S \cup {node}
<1>1. /\ S \in SUBSET Nodes /\ rbnull \notin S /\ S \subseteq Node0 /\ node \in Node0 /\ node # rbnull
      /\ rbnull \in Node0 /\ q # node /\ IsTree(t)
      /\ u \in [Node0 -> SUBSET S] /\ u[rbnull] = {} /\ t.root \in S \cup {rbnull} /\ u[t.root] = S
  BY NodesAssumption DEF Shape, Node0
<1>2. v \in [Node0 -> SUBSET T] /\ v[rbnull] = {} /\ v[node] = {node}
  BY <1>1
<1>3. \A m \in Node0 : m # node => v[m] = IF q \in u[m] THEN u[m] \cup {node} ELSE u[m]
  BY <1>1
<1>4. t.root \in S /\ v[t.root] = T
  <2>1. t.root # rbnull
    BY <1>1
  <2> QED BY <1>1, <1>3, <2>1
<1> HIDE DEF T
<1>5. ASSUME NEW n \in T PROVE Branches(s, v, n)
  <2>1. CASE n = node
    <3>1. \A y \in Sides : rb_child(s, n, y) = rbnull
      BY <1>1, <2>1
    <3> QED BY <1>2, <2>1, <3>1, SidesAre DEF Branches
  <2>2. CASE n # node
    <3>1. n \in S /\ n \in Node0
      BY <1>1, <1>5, <2>2 DEF T
    <3>2. Branches(t, u, n)
      BY <3>1 DEF Shape
    <3>3. \A y \in Sides : rb_child(t, n, y) \in Node0 /\ rb_child(t, n, y) # node
                           /\ u[rb_child(t, n, y)] \in SUBSET S
      <4>1. \A y \in Sides : rb_child(t, n, y) \in Node0
                             /\ (rb_child(t, n, y) # rbnull => rb_child(t, n, y) \in S)
        BY <3>1, FamilyIs
      <4> QED BY <1>1, <4>1
    <3>4. node \notin u[n] /\ u[n] \in SUBSET S
      BY <1>1, <3>1
    <3>5. CASE n # q
      <4>1. \A y \in Sides : rb_child(s, n, y) = rb_child(t, n, y)
        BY <1>1, <3>1, <3>5
      <4>2. \A y \in Sides, x \in Nodes :
              x \in v[rb_child(s, n, y)] <=>
                x \in u[rb_child(t, n, y)] \/ (x = node /\ q \in u[rb_child(t, n, y)])
        BY <1>3, <3>3, <4>1
      <4>3. \A x \in Nodes : x \in v[n] <=> x \in u[n] \/ (x = node /\ q \in u[n])
        BY <1>3, <2>2, <3>1
      <4>4. /\ q \in u[n] <=> \E y \in Sides : q \in u[rb_child(t, n, y)]
            /\ ~ (q \in u[rb_child(t, n, LEFT)] /\ q \in u[rb_child(t, n, RIGHT)])
        BY <1>1, <3>2, <3>5 DEF Branches
      <4>5. \A x \in Nodes : x \in v[n] <=> x = n \/ \E y \in Sides : x \in v[rb_child(s, n, y)]
        BY <3>2, <4>2, <4>3, <4>4 DEF Branches
      <4>6. \A y \in Sides : n \notin v[rb_child(s, n, y)]
        BY <1>1, <2>2, <3>1, <3>2, <4>2 DEF Branches
      <4>7. \A x \in Nodes : ~ (x \in v[rb_child(s, n, LEFT)] /\ x \in v[rb_child(s, n, RIGHT)])
        BY <3>2, <3>3, <4>2, <4>4, <1>1, SidesAre DEF Branches
      <4> QED BY <4>5, <4>6, <4>7 DEF Branches
    <3>6. CASE n = q
      <4> DEFINE d == rb_child(t, n, Other(w))
      <4>1. Other(w) \in Sides /\ Other(w) # w /\ \A y \in Sides : y = w \/ y = Other(w)
        BY OthersAre
      <4>2. rb_child(s, n, w) = node /\ rb_child(s, n, Other(w)) = d /\ d \in Node0 /\ d # node
        BY <1>1, <3>3, <3>6, <4>1
      <4>3. q \notin u[d] /\ u[d] \in SUBSET S /\ q \in u[q]
        BY <1>1, <3>1, <3>2, <3>3, <3>6, <4>1, FamilyIs DEF Branches
      <4>4. v[d] = u[d] /\ v[n] = u[n] \cup {node}
        BY <1>3, <2>2, <3>1, <3>6, <4>2, <4>3
      <4>5. \A x \in Nodes : x \in u[n] <=> x = n \/ x \in u[d]
        BY <1>1, <3>6, <4>1, <3>2 DEF Branches
      <4>6. \A x \in Nodes : x \in v[n] <=> x = n \/ \E y \in Sides : x \in v[rb_child(s, n, y)]
        BY <1>2, <4>1, <4>2, <4>4, <4>5
      <4>7. \A y \in Sides : n \notin v[rb_child(s, n, y)]
        BY <1>2, <2>2, <3>6, <4>1, <4>2, <4>3, <4>4
      <4>8. \A x \in Nodes : ~ (x \in v[rb_child(s, n, w)] /\ x \in v[rb_child(s, n, Other(w))])
        BY <1>1, <1>2, <4>2, <4>3, <4>4
      <4>9. \A x \in Nodes : ~ (x \in v[rb_child(s, n, LEFT)] /\ x \in v[rb_child(s, n, RIGHT)])
        BY <4>8, SidesAre
      <4> QED BY <4>6, <4>7, <4>9 DEF Branches
    <3> QED BY <3>5, <3>6
  <2> QED BY <2>1, <2>2
<1>6. ASSUME NEW n \in T PROVE Kin(s, T, n)
  <2>1. CASE n = node
    <3>1. \A y \in Sides : rb_child(s, n, y) = rbnull
      BY <1>1, <2>1
    <3>2. rb_parent(s, n) = q /\ q # rbnull /\ n # s.root
      BY <1>1, <1>4, <2>1
    <3>3. IsChild(s, n, q)
      BY <1>1, <2>1 DEF IsChild
    <3> QED BY <3>1, <3>2, <3>3 DEF Kin, T
  <2>2. CASE n # node
    <3>1. n \in S /\ n \in Node0 /\ Kin(t, S, n)
      BY <1>1, <1>6, <2>2 DEF T, Shape
    <3>2. rb_parent(s, n) = rb_parent(t, n)
      BY <2>2, <3>1
    <3>3. ASSUME NEW y \in Sides, rb_child(s, n, y) # rbnull
          PROVE  rb_child(s, n, y) \in T /\ rb_parent(s, rb_child(s, n, y)) = n
      <4>1. CASE n = q /\ y = w
        BY <1>1, <4>1 DEF T
      <4>2. CASE ~ (n = q /\ y = w)
        <5> DEFINE e == rb_child(t, n, y)
        <5>1. rb_child(s, n, y) = e
          BY <3>1, <4>2
        <5> HIDE DEF e
        <5>2. e \in S /\ rb_parent(t, e) = n
          BY <3>1, <3>3, <5>1 DEF Kin, e
        <5>3. e # node /\ e \in Node0
          BY <1>1, <5>2
        <5> QED BY <5>1, <5>2, <5>3 DEF T
      <4> QED BY <4>1, <4>2
    <3>4. ASSUME rb_parent(s, n) # rbnull
          PROVE  rb_parent(s, n) \in T /\ IsChild(s, n, rb_parent(s, n))
      <4> DEFINE p == rb_parent(t, n)
      <4>1. p \in S /\ IsChild(t, n, p)
        BY <3>1, <3>2, <3>4 DEF Kin
      <4>2. PICK y \in Sides : rb_child(t, p, y) = n
        BY <4>1 DEF IsChild
      <4> HIDE DEF p
      <4>3. rb_child(s, p, y) = n
        BY <1>1, <3>1, <4>1, <4>2
      <4>4. IsChild(s, n, p)
        BY <4>3 DEF IsChild
      <4> QED BY <3>2, <4>1, <4>4 DEF T, p
    <3>5. rb_parent(s, n) = rbnull <=> n = s.root
      BY <3>1, <3>2 DEF Kin
    <3> QED BY <3>3, <3>4, <3>5 DEF Kin
  <2> QED BY <2>1, <2>2
<1>7. T \in SUBSET Nodes
  BY <1>1 DEF T
<1>8. s.root \in T \cup {rbnull} /\ v[s.root] = T
  BY <1>4 DEF T
<1>9. Shape(s, T, v)
  BY <1>2, <1>5, <1>6, <1>7, <1>8 DEF Shape
<1> QED BY <1>9 DEF T

LEMMA LeafOrder ==
  ASSUME NEW t, NEW S, NEW u, Search(t, S, u), NEW node \in Nodes \ S,
         NEW q \in S, NEW w \in Sides, rb_child(t, q, w) = rbnull,
         \A y \in Sides : rb_child(t, node, y) = rbnull,
         NEW s, s.value = t.value,
         \A m \in Node0, y \in Sides :
           rb_child(s, m, y) = IF m = q /\ y = w THEN node ELSE rb_child(t, m, y),
         \A a \in S, y \in Sides :
           q \in u[rb_child(t, a, y)] => Beside(t.value[node], y, t.value[a]),
         Beside(t.value[node], w, t.value[q]),
         NEW v, v = [m \in Node0 |-> IF m = node THEN {node}
                                     ELSE IF q \in u[m] THEN u[m] \cup {node} ELSE u[m]]
  PROVE  Ordered(s, S \cup {node}, v)
<1>1. /\ S \in SUBSET Nodes /\ rbnull \notin S /\ S \subseteq Node0 /\ node \in Node0 /\ node # rbnull
      /\ rbnull \in Node0 /\ q # node /\ IsTree(t) /\ u[rbnull] = {} /\ v[rbnull] = {} /\ v[node] = {node}
  <2>1. /\ S \in SUBSET Nodes /\ IsTree(t) /\ u[rbnull] = {}
    BY DEF Search, Shape
  <2> QED BY <2>1, NodesAssumption DEF Node0
<1>2. ASSUME NEW n \in S \cup {node}, NEW y \in Sides, NEW m \in v[rb_child(s, n, y)]
      PROVE  Beside(s.value[m], y, s.value[n])
  <2>1. CASE n = node
    <3>1. rb_child(s, n, y) = rbnull
      BY <1>1, <2>1
    <3> QED BY <1>1, <3>1
  <2>2. CASE n # node /\ n = q /\ y = w
    <3>1. rb_child(s, n, y) = node
      BY <1>1, <2>2
    <3> QED BY <1>1, <2>2, <3>1
  <2>3. CASE n # node /\ ~ (n = q /\ y = w)
    <3> DEFINE c == rb_child(t, n, y)
    <3>1. n \in S /\ rb_child(s, n, y) = c
      BY <1>1, <2>3
    <3>2. c \in Node0 /\ c # node
      <4>1. c \in Node0 /\ (c # rbnull => c \in S)
        BY <3>1, FamilyIs DEF Search
      <4> QED BY <1>1, <4>1
    <3>3. m \in u[c] \/ (m = node /\ q \in u[c])
      BY <3>1, <3>2
    <3>4. m \in u[c] => Beside(t.value[m], y, t.value[n])
      BY <3>1 DEF Search, Ordered
    <3> QED BY <3>1, <3>3, <3>4
  <2> QED BY <2>1, <2>2, <2>3
<1> QED BY <1>2 DEF Ordered

LEMMA LeafBalance ==
  ASSUME NEW t, NEW S, NEW u, Shape(t, S, u), NEW node \in Nodes \ S,
         NEW q \in S, NEW w \in Sides, rb_child(t, q, w) = rbnull,
         \A y \in Sides : rb_child(t, node, y) = rbnull,
         NEW s, IsTree(s), s.root = t.root,
         \A m \in Node0, y \in Sides :
           rb_child(s, m, y) = IF m = q /\ y = w THEN node ELSE rb_child(t, m, y),
         \A m \in Node0 : rb_color(s, m) = IF m = node THEN "RED" ELSE rb_color(t, m),
         \E h : Balanced(t, S, h, rbnull, LEFT), NoRedRed(t, S, rbnull), RootBlack(t)
  PROVE  /\ \E h : Balanced(s, S \cup {node}, h, rbnull, LEFT)
         /\ NoRedRed(s, S \cup {node}, node) /\ RootBlack(s)
<1>1. /\ S \in SUBSET Nodes /\ rbnull \notin S /\ S \subseteq Node0 /\ node \in Node0 /\ node # rbnull
      /\ rbnull \in Node0 /\ q # node /\ IsTree(t) /\ t.root \in S \cup {rbnull}
  <2>1. /\ S \in SUBSET Nodes /\ IsTree(t) /\ t.root \in S \cup {rbnull}
    BY DEF Shape
  <2> QED BY <2>1, NodesAssumption DEF Node0
<1>2. \A n \in S, y \in Sides : /\ rb_child(t, n, y) \in S \cup {rbnull}
                                /\ rb_child(t, n, y) # node /\ rb_child(t, n, y) \in Node0
  <2>1. ASSUME NEW n \in S, NEW y \in Sides PROVE rb_child(t, n, y) \in S \cup {rbnull}
    BY FamilyIs
  <2> QED BY <1>1, <2>1
<1>3. ASSUME NEW n \in S, NEW y \in Sides
      PROVE  /\ rb_child(s, n, y) = IF n = q /\ y = w THEN node ELSE rb_child(t, n, y)
             /\ rb_color(s, n) = rb_color(t, n) /\ n # node
  BY <1>1
<1>4. \A y \in Sides : rb_child(s, node, y) = rbnull
  BY <1>1
<1>5. RootBlack(s)
  <2>1. s.root # node /\ s.root \in Node0
    BY <1>1
  <2> QED BY <2>1 DEF RootBlack
<1>6. NoRedRed(s, S \cup {node}, node)
  <2>1. ASSUME NEW n \in S \cup {node}, NEW y \in Sides,
               rb_color(s, n) = "RED", rb_color(s, rb_child(s, n, y)) = "RED"
        PROVE  rb_child(s, n, y) = node
    <3>1. CASE n = node
      <4>1. rb_color(s, rbnull) = "BLACK"
        BY DEF rb_color
      <4> QED BY <1>4, <2>1, <3>1, <4>1
    <3>2. CASE n # node
      <4> SUFFICES ASSUME rb_child(s, n, y) # node PROVE FALSE
        OBVIOUS
      <4>1. n \in S /\ rb_child(s, n, y) = rb_child(t, n, y)
        BY <1>3, <3>2
      <4>2. rb_color(t, n) = "RED" /\ rb_color(t, rb_child(t, n, y)) = "RED"
        BY <1>2, <1>3, <2>1, <4>1
      <4>3. rb_child(t, n, y) = rbnull
        BY <4>1, <4>2 DEF NoRedRed
      <4> QED BY <4>2, <4>3 DEF rb_color
    <3> QED BY <3>1, <3>2
  <2> QED BY <2>1 DEF NoRedRed
<1>7. PICK h : Balanced(t, S, h, rbnull, LEFT)
  OBVIOUS
<1> DEFINE k == [h EXCEPT ![node] = 0]
<1>8. Balanced(s, S \cup {node}, k, rbnull, LEFT)
  <2>1. /\ h \in [Node0 -> Nat] /\ h[rbnull] = 0
        /\ \A n \in S, y \in Sides : h[n] = h[rb_child(t, n, y)] + Black(t, n)
    BY <1>1, <1>2, <1>7 DEF Balanced, Black
  <2>2. /\ k \in [Node0 -> Nat] /\ k[node] = 0 /\ k[rbnull] = 0
        /\ \A m \in Node0 : m # node => k[m] = h[m]
    BY <1>1, <2>1
  <2> HIDE DEF k
  <2>3. ASSUME NEW n \in S \cup {node}, NEW y \in Sides
        PROVE  k[n] = k[rb_child(s, n, y)] + Black(s, n)
    <3>1. CASE n = node
      <4>1. Black(s, n) = 0
        BY <1>1, <3>1 DEF Black
      <4> QED BY <1>4, <2>2, <3>1, <4>1
    <3>2. CASE n # node /\ n = q /\ y = w
      <4>1. h[n] = 0 + Black(t, n) /\ Black(t, n) \in Nat /\ Black(s, n) = Black(t, n)
        BY <1>3, <2>1, <3>2 DEF Black
      <4>2. rb_child(s, n, y) = node /\ n \in Node0
        BY <1>1, <1>3, <3>2
      <4> QED BY <2>2, <3>2, <4>1, <4>2
    <3>3. CASE n # node /\ ~ (n = q /\ y = w)
      <4>1. n \in S /\ n \in Node0 /\ rb_child(s, n, y) = rb_child(t, n, y) /\ Black(s, n) = Black(t, n)
        BY <1>1, <1>3, <3>3 DEF Black
      <4>2. rb_child(t, n, y) # node /\ rb_child(t, n, y) \in Node0
        BY <1>2, <4>1
      <4> QED BY <2>1, <2>2, <3>3, <4>1, <4>2
    <3> QED BY <3>1, <3>2, <3>3
  <2>4. \A n \in S \cup {node} : n # rbnull /\ Black(s, n) \in Nat /\ k[n] \in Nat
    BY <1>1, <2>2 DEF Black
  <2>5. \A n \in S \cup {node}, y \in Sides : k[rb_child(s, n, y)] \in Nat
    BY <1>1, <1>2, <1>3, <1>4, <2>2
  <2> QED BY <2>2, <2>3, <2>4, <2>5 DEF Balanced
<1> QED BY <1>5, <1>6, <1>8

(* One node is a tree.                                                     *)
LEMMA OneNode ==
  ASSUME NEW s, IsTree(s), NEW node \in Nodes, s.root = node,
         rb_parent(s, node) = rbnull, \A y \in Sides : rb_child(s, node, y) = rbnull,
         rb_color(s, node) = "BLACK"
  PROVE  Sound(s, {node})
<1> DEFINE u == [m \in Node0 |-> IF m = node THEN {node} ELSE {}]
           h == [m \in Node0 |-> IF m = node THEN 1 ELSE 0]
<1>1. node \in Node0 /\ rbnull \in Node0 /\ node # rbnull
  BY NodesAssumption DEF Node0
<1>2. u \in [Node0 -> SUBSET {node}] /\ u[rbnull] = {} /\ u[node] = {node}
  BY <1>1
<1>3. h \in [Node0 -> Nat] /\ h[rbnull] = 0 /\ h[node] = 1
  BY <1>1
<1> HIDE DEF u, h
<1>4. Shape(s, {node}, u)
  <2>1. Branches(s, u, node)
    BY <1>2, SidesAre DEF Branches
  <2>2. Kin(s, {node}, node)
    BY <1>1 DEF Kin
  <2> QED BY <1>1, <1>2, <2>1, <2>2 DEF Shape
<1>5. Ordered(s, {node}, u)
  BY <1>2 DEF Ordered
<1>6. Balanced(s, {node}, h, rbnull, LEFT)
  BY <1>1, <1>3 DEF Balanced, Black
<1>7. NoRedRed(s, {node}, rbnull) /\ RootBlack(s)
  BY DEF NoRedRed, RootBlack
<1> QED BY <1>4, <1>5, <1>6, <1>7 DEF Sound, Search

(* rb_insert, where a tree has more nodes.                                 *)
LEMMA InsertLeaf ==
  ASSUME NEW t, NEW S, Sound(t, S), NEW node \in Nodes \ S, t.root # rbnull,
         \A y \in Sides : rb_child(t, node, y) = rbnull,
         NEW q, q = Place(t, node), NEW w, w = SideFor(t, node, q),
         NEW s, s = set_color(link(t, q, w, node), node, "RED")
  PROVE  Inserting([tree |-> s, node |-> node], S \cup {node}, 0) /\ Kept(s, t, S \cup {node})
<1>1. PICK u : Search(t, S, u)
  BY DEF Sound
<1>2. /\ IsTree(t) /\ S \in SUBSET Nodes /\ node \in Node0 /\ node # rbnull /\ rbnull \in Node0
      /\ S \subseteq Node0
  <2>1. IsTree(t) /\ S \in SUBSET Nodes
    BY <1>1 DEF Search, Shape
  <2> QED BY <2>1, NodesAssumption DEF Node0
<1>3. PICK n : Placing(q, t, S, u, node, n) /\ rb_child(t, q, w) = rbnull
  BY <1>1, PlaceIs
<1>4. /\ q \in S /\ q \in Node0 /\ q # rbnull /\ q \in Nodes /\ q # node
      /\ \A a \in S, y \in Sides :
           q \in u[rb_child(t, a, y)] => Beside(t.value[node], y, t.value[a])
  <2>1. q \in S
    BY <1>3 DEF Placing
  <2> QED BY <1>2, <1>3, <2>1, NodesAssumption DEF Placing
<1>5. w \in Sides /\ Beside(t.value[node], w, t.value[q])
  BY <1>2, <1>4, SideIs
<1> DEFINE l == link(t, q, w, node)
<1>6. Linked(l, t, q, w, node)
  BY <1>2, <1>4, <1>5, LinkIs
<1> HIDE DEF l
<1>7. /\ Tinted(s, l)
      /\ \A m \in Node0 : rb_color(s, m) = IF m = node THEN "RED" ELSE rb_color(l, m)
  <2>1. IsTree(l) /\ "RED" \in Colors
    BY <1>6 DEF Linked, Colors
  <2>2. s = set_color(l, node, "RED")
    BY DEF l
  <2> QED BY <1>2, <2>1, <2>2, SetColorIs
<1>8. /\ IsTree(s) /\ s.root = t.root /\ s.value = t.value
      /\ \A m \in Node0 : rb_parent(s, m) = IF m = node THEN q ELSE rb_parent(t, m)
      /\ \A m \in Node0 : rb_color(s, m) = IF m = node THEN "RED" ELSE rb_color(t, m)
      /\ \A m \in Node0, y \in Sides :
           rb_child(s, m, y) = IF m = q /\ y = w THEN node ELSE rb_child(t, m, y)
  BY <1>2, <1>4, <1>6, <1>7 DEF Linked, Tinted
<1> DEFINE T == S \cup {node}
           v == [m \in Node0 |-> IF m = node THEN {node}
                                 ELSE IF q \in u[m] THEN u[m] \cup {node} ELSE u[m]]
<1>9. Shape(s, T, v)
  <2>1. Shape(t, S, u)
    BY <1>1 DEF Search
  <2> QED BY <1>3, <1>4, <1>5, <1>8, <2>1, LeafShape
<1>10. Ordered(s, T, v)
  BY <1>1, <1>3, <1>4, <1>5, <1>8, LeafOrder
<1>11. /\ \E h : Balanced(s, T, h, rbnull, LEFT)
       /\ NoRedRed(s, T, node) /\ RootBlack(s)
  <2>1. Shape(t, S, u) /\ (\E h : Balanced(t, S, h, rbnull, LEFT)) /\ NoRedRed(t, S, rbnull) /\ RootBlack(t)
    BY <1>1 DEF Search, Sound
  <2> QED BY <1>3, <1>4, <1>5, <1>8, <2>1, LeafBalance
<1>12. v[node] = {node} /\ Cardinality({node}) = 1
  <2>1. Cardinality({node}) = 1
    BY FS_Singleton
  <2> QED BY <1>2, <2>1
<1> HIDE DEF T, v
<1>13. Search(s, T, v) /\ Cardinality(v[node]) > 0
  BY <1>9, <1>10, <1>12 DEF Search
<1>14. Inserting([tree |-> s, node |-> node], T, 0)
  <2> DEFINE r == [tree |-> s, node |-> node]
  <2>1. r = [tree |-> r.tree, node |-> r.node] /\ r.tree = s /\ r.node = node
    OBVIOUS
  <2> HIDE DEF r
  <2>2. rb_color(s, node) = "RED" /\ node \in T \cup {rbnull}
    BY <1>2, <1>8 DEF T
  <2>3. Inserting(r, T, 0)
    BY <1>11, <1>13, <2>1, <2>2 DEF Inserting
  <2> QED BY <2>3 DEF r
<1>15. Kept(s, t, T)
  <2>1. \A m \in Nodes \ T : rb_parent(s, m) = rb_parent(t, m)
    BY <1>8 DEF T, Node0
  <2> QED BY <1>8, <2>1 DEF Kept
<1> QED BY <1>14, <1>15 DEF T

LEMMA RestSound ==
  ASSUME NEW t, NEW S, Sound(t, S), NEW f, IsTree(f), f.root = t.root,
         \A m \in S : rb_parent(f, m) = rb_parent(t, m) /\ rb_color(f, m) = rb_color(t, m)
                      /\ f.value[m] = t.value[m],
         \A m \in S, w \in Sides : rb_child(f, m, w) = rb_child(t, m, w)
  PROVE  Sound(f, S)
<1>1. PICK u : Search(t, S, u)
  BY DEF Sound
<1>2. PICK h : Balanced(t, S, h, rbnull, LEFT)
  BY DEF Sound
<1>3. /\ IsTree(t) /\ u \in [Node0 -> SUBSET S] /\ t.root \in S \cup {rbnull}
      /\ rb_color(t, rbnull) = "BLACK" /\ rb_color(f, rbnull) = "BLACK" /\ Shape(t, S, u)
  BY <1>1 DEF Search, Shape, rb_color
<1>4. Shape(f, S, u)
  BY <1>3, SameShape
<1>5. ASSUME NEW n \in S, NEW w \in Sides
      PROVE  /\ rb_child(t, n, w) \in Node0 /\ rb_child(t, n, w) \in S \cup {rbnull}
             /\ rb_child(f, n, w) = rb_child(t, n, w)
             /\ rb_color(f, rb_child(t, n, w)) = rb_color(t, rb_child(t, n, w))
             /\ rb_color(f, n) = rb_color(t, n) /\ Black(f, n) = Black(t, n)
  <2>1. rb_child(t, n, w) \in Node0 /\ rb_child(t, n, w) \in S \cup {rbnull}
    BY <1>3, FamilyIs
  <2> QED BY <1>3, <2>1 DEF Black
<1>6. Ordered(f, S, u)
  <2>1. ASSUME NEW n \in S, NEW w \in Sides, NEW m \in u[rb_child(f, n, w)]
        PROVE  Beside(f.value[m], w, f.value[n])
    <3>1. m \in u[rb_child(t, n, w)] /\ m \in S
      BY <1>3, <1>5
    <3>2. Beside(t.value[m], w, t.value[n])
      BY <1>1, <3>1 DEF Search, Ordered
    <3>3. f.value[m] = t.value[m] /\ f.value[n] = t.value[n]
      BY <3>1
    <3> QED BY <3>2, <3>3
  <2> QED BY <2>1 DEF Ordered
<1>7. Balanced(f, S, h, rbnull, LEFT)
  BY <1>2, <1>5 DEF Balanced
<1>8. NoRedRed(f, S, rbnull)
  <2>1. NoRedRed(t, S, rbnull)
    BY DEF Sound
  <2> QED BY <1>5, <2>1 DEF NoRedRed
<1>9. RootBlack(f)
  <2>1. RootBlack(t)
    BY DEF Sound
  <2> QED BY <1>3, <2>1 DEF RootBlack
<1> QED BY <1>4, <1>6, <1>7, <1>8, <1>9 DEF Sound, Search

LEMMA InsertIs ==
  ASSUME NEW t, NEW S, Sound(t, S), NEW node \in Nodes \ S, NEW v \in Nat,
         NEW s, NewValue(s, t, node, v)
  PROVE  /\ Sound(rb_insert(s, node), S \cup {node})
         /\ rb_insert(s, node).value = [t.value EXCEPT ![node] = v]
         /\ \A m \in Nodes \ (S \cup {node}) : rb_parent(rb_insert(s, node), m) = rb_parent(t, m)
<1> DEFINE f == [s EXCEPT !.child[node] = [w \in Sides |-> rbnull]]
           q == Place(f, node)
<1>1. PICK u : Search(t, S, u)
  BY DEF Sound
<1>2. /\ IsTree(t) /\ S \in SUBSET Nodes /\ S \subseteq Node0 /\ node \in Node0 /\ node # rbnull
      /\ rbnull \in Node0
  <2>1. IsTree(t) /\ S \in SUBSET Nodes
    BY <1>1 DEF Search, Shape
  <2> QED BY <2>1, NodesAssumption DEF Node0
<1>3. Fresh(f, t, node, v) /\ s.root = t.root
  BY <1>2, FreshIs
<1>4. rb_insert(s, node) =
        IF s.root = rbnull
        THEN set_parent(set_color(set_root(f, node), node, "BLACK"), node, rbnull)
        ELSE rb_insert_fixup(set_color(link(f, q, SideFor(f, node, q), node), node, "RED"), node)
  BY Zenon DEF rb_insert
<1> HIDE DEF f, q
<1>5. /\ IsTree(f) /\ f.root = t.root /\ f.value = [t.value EXCEPT ![node] = v]
      /\ \A m \in Node0 : rb_parent(f, m) = rb_parent(t, m) /\ rb_color(f, m) = rb_color(t, m)
      /\ \A m \in Node0, w \in Sides :
           rb_child(f, m, w) = IF m = node THEN rbnull ELSE rb_child(t, m, w)
  BY <1>3 DEF Fresh
<1>6. CASE s.root = rbnull
  <2> DEFINE a == set_root(f, node)
             b == set_color(a, node, "BLACK")
             c == set_parent(b, node, rbnull)
  <2>1. RootSet(a, f, node)
    BY <1>2, <1>5, SetRootIs
  <2> HIDE DEF a
  <2>2. /\ Tinted(b, a)
        /\ \A m \in Node0 : rb_color(b, m) = IF m = node /\ node # rbnull THEN "BLACK" ELSE rb_color(a, m)
    <3>1. IsTree(a) /\ "BLACK" \in Colors
      BY <2>1 DEF RootSet, Colors
    <3> QED BY <1>2, <3>1, SetColorIs
  <2> HIDE DEF b
  <2>3. ParentSet(c, b, node, rbnull)
    <3>1. IsTree(b)
      BY <2>2 DEF Tinted
    <3> QED BY <1>2, <3>1, SetParentIs
  <2>4. rb_insert(s, node) = c
    BY <1>4, <1>6 DEF a, b
  <2> HIDE DEF c
  <2>5. /\ IsTree(c) /\ c.root = node /\ c.value = f.value
        /\ \A m \in Node0 : /\ rb_parent(c, m) = IF m = node THEN rbnull ELSE rb_parent(f, m)
                            /\ rb_color(c, m) = IF m = node THEN "BLACK" ELSE rb_color(f, m)
        /\ \A m \in Node0, y \in Sides : rb_child(c, m, y) = rb_child(f, m, y)
    BY <1>2, <2>1, <2>2, <2>3 DEF RootSet, Tinted, ParentSet
  <2>6. Sound(c, {node})
    BY <1>2, <1>5, <2>5, OneNode
  <2>7. S = {}
    BY <1>1, <1>3, <1>6 DEF Search, Shape
  <2>8. \A m \in Nodes \ (S \cup {node}) : rb_parent(c, m) = rb_parent(t, m)
    BY <1>5, <2>5 DEF Node0
  <2>9. S \cup {node} = {node}
    BY <2>7
  <2> QED BY <1>5, <2>4, <2>5, <2>6, <2>8, <2>9
<1>7. CASE s.root # rbnull
  <2> DEFINE w == SideFor(f, node, q)
             l == set_color(link(f, q, w, node), node, "RED")
             r == rb_insert_fixup(l, node)
  <2>1. Sound(f, S)
    <3>1. \A m \in S : f.value[m] = t.value[m]
      BY <1>2, <1>5 DEF IsTree
    <3>2. \A m \in S : m \in Node0 /\ m # node
      BY <1>2
    <3>3. \A m \in S : rb_parent(f, m) = rb_parent(t, m) /\ rb_color(f, m) = rb_color(t, m)
                       /\ f.value[m] = t.value[m]
      BY <1>5, <3>1, <3>2
    <3>4. \A m \in S, y \in Sides : rb_child(f, m, y) = rb_child(t, m, y)
      BY <1>5, <3>2
    <3>5. IsTree(f) /\ f.root = t.root
      BY <1>5
    <3> QED BY <3>3, <3>4, <3>5, RestSound
  <2>2. /\ Inserting([tree |-> l, node |-> node], S \cup {node}, 0)
        /\ Kept(l, f, S \cup {node})
    <3>1. f.root # rbnull /\ \A y \in Sides : rb_child(f, node, y) = rbnull
      BY <1>2, <1>3, <1>5, <1>7
    <3> QED BY <2>1, <3>1, InsertLeaf DEF q
  <2>3. rb_insert(s, node) = r
    BY <1>4, <1>7
  <2> HIDE DEF w, l
  <2>4. PICK n : /\ Inserting([tree |-> r, node |-> rbnull], S \cup {node}, n)
                 /\ Kept(r, l, S \cup {node})
    BY <2>2, InsertFixupIs
  <2> HIDE DEF r
  <2>5. Kept(r, f, S \cup {node})
    BY <2>2, <2>4, KeptTwice
  <2>6. Sound(r, S \cup {node})
    <3> DEFINE x == [tree |-> r, node |-> rbnull]
    <3>1. x.tree = r /\ x.node = rbnull
      OBVIOUS
    <3>2. Inserting(x, S \cup {node}, n)
      BY <2>4
    <3> HIDE DEF x
    <3>3. /\ RootBlack(r) \/ r.root = rbnull
          /\ NoRedRed(r, S \cup {node}, rbnull)
          /\ \E h : Balanced(r, S \cup {node}, h, rbnull, LEFT)
          /\ \E z : Search(r, S \cup {node}, z)
      BY <3>1, <3>2 DEF Inserting
    <3>4. RootBlack(r)
      BY <3>3 DEF RootBlack, rb_color
    <3> QED BY <3>3, <3>4 DEF Sound
  <2>7. /\ r.value = f.value
        /\ \A m \in Nodes \ (S \cup {node}) : rb_parent(r, m) = rb_parent(f, m)
    BY <2>5 DEF Kept
  <2>8. \A m \in Nodes \ (S \cup {node}) : rb_parent(r, m) = rb_parent(t, m)
    BY <1>5, <2>7 DEF Node0
  <2> QED BY <1>5, <2>3, <2>6, <2>7, <2>8
<1> QED BY <1>6, <1>7

-----------------------------------------------------------------------------
(* rb_delete_fixup.                                                        *)

(* s is t after some nodes got other colors and node took the place of its *)
(* parent p, whose child it was on side w: what every node has below it.   *)
Swung(s, t, S, node, w, p, pw, g) ==
  /\ node \in S /\ p \in S /\ node # p /\ w \in Sides /\ pw \in Sides /\ g \in S \cup {rbnull}
  /\ g # p /\ g # node /\ node = rb_child(t, p, w)
  /\ g # rbnull => rb_child(t, g, pw) = p /\ p # t.root
  /\ g = rbnull => p = t.root
  /\ IsTree(s) /\ s.root = (IF g = rbnull THEN node ELSE t.root)
  /\ rb_child(s, node, w) = rb_child(t, node, w) /\ rb_child(s, node, Other(w)) = p
  /\ rb_child(s, p, w) = rb_child(t, node, Other(w)) /\ rb_child(s, p, Other(w)) = rb_child(t, p, Other(w))
  /\ g # rbnull => rb_child(s, g, pw) = node
  /\ \A n \in S, y \in Sides :
       n # node /\ n # p /\ ~ (n = g /\ y = pw) =>
         /\ rb_child(s, n, y) = rb_child(t, n, y) /\ rb_child(t, n, y) \in Node0
         /\ rb_child(t, n, y) # p /\ rb_child(t, n, y) # node
         /\ rb_child(t, n, y) = rb_child(t, node, w) => rb_child(t, n, y) = rbnull

(* The three nodes below them.                                             *)
Below(t, node, w, p, g) ==
  \A c \in {rb_child(t, node, w), rb_child(t, node, Other(w)), rb_child(t, p, Other(w))} :
    /\ c \in Node0 /\ c # p /\ c # node /\ (c = g => g = rbnull)
    /\ c = rb_child(t, node, w) /\ c # rbnull =>
         c # rb_child(t, node, Other(w)) /\ c # rb_child(t, p, Other(w))

LEMMA SwungIs ==
  ASSUME NEW t, NEW S, NEW u, Search(t, S, u), NEW c, Tinted(c, t), NEW p \in S, NEW w \in Sides,
         NEW node, node = rb_child(t, p, w), node # rbnull,
         NEW g, g = rb_parent(t, p), NEW pw, pw = rb_which(t, p, g),
         NEW s, s = rb_rotate(c, node, w, p, pw, g)
  PROVE  /\ Swung(s, t, S, node, w, p, pw, g) /\ Below(t, node, w, p, g)
         /\ \A m \in Node0 : rb_color(s, m) = rb_color(c, m)
         /\ \E v : Search(s, S, v)
         /\ Kept(s, t, S)
<1>1. /\ IsTree(t) /\ S \in SUBSET Nodes /\ rbnull \notin S /\ S \subseteq Node0 /\ rbnull \in Node0
      /\ Shape(t, S, u) /\ Ordered(t, S, u)
  BY NodesAssumption DEF Search, Shape, Node0
<1>2. Search(c, S, u)
  BY <1>1, TintedShape, TintedOrder DEF Search
<1>3. /\ c.root = t.root /\ p \in Node0
      /\ \A m \in Node0 : rb_parent(c, m) = rb_parent(t, m)
      /\ \A m \in Node0, v \in Sides : rb_child(c, m, v) = rb_child(t, m, v)
  BY <1>1 DEF Tinted
<1>4. node = rb_child(c, p, w) /\ g = rb_parent(c, p) /\ g \in Node0
  BY <1>1, <1>3, ReadsAre
<1>5. pw = rb_which(c, p, g)
  BY <1>3, <1>4, SidesAre DEF rb_which
<1>6. /\ Rotated(s, c, node, w, p, pw, g) /\ \E v : Search(s, S, v) /\ Kept(s, c, S)
      /\ node \in S /\ p # node
      /\ pw \in Sides /\ g \in S \cup {rbnull} /\ g # p /\ g # node
      /\ g # rbnull => rb_child(c, g, pw) = p /\ p # c.root
      /\ g = rbnull => p = c.root
  BY <1>2, <1>4, <1>5, RotateKeeps
<1>7. Kept(s, t, S)
  BY <1>6, TintedKept, KeptTwice
<1>8. Other(w) \in Sides /\ Other(w) # w /\ \A y \in Sides : y = w \/ y = Other(w)
  BY OthersAre
<1>9. node \in Node0 /\ \A y \in Sides : rb_child(c, node, y) = rb_child(t, node, y)
  BY <1>1, <1>3, <1>6
<1>10. Below(t, node, w, p, g)
  <2> DEFINE C == {rb_child(t, node, w), rb_child(t, node, Other(w)), rb_child(t, p, Other(w))}
  <2>1. /\ u[node] \subseteq u[p] /\ p \notin u[node] /\ p \in u[p] /\ node \in u[node]
        /\ g # rbnull => u[p] \subseteq u[g] /\ g \notin u[p]
    <3>1. u[node] \subseteq u[p] /\ p \notin u[node] /\ p \in u[p] /\ node \in u[node]
      BY <1>1, <1>6, FamilyIs
    <3>2. ASSUME g # rbnull PROVE u[p] \subseteq u[g] /\ g \notin u[p]
      <4>1. g \in S /\ rb_child(t, g, pw) = p
        BY <1>3, <1>4, <1>6, <3>2
      <4> QED BY <1>1, <1>6, <4>1, FamilyIs
    <3> QED BY <3>1, <3>2
  <2>2. \A y \in Sides : LET d == rb_child(t, node, y)
                         IN  /\ d \in Node0 /\ d # node /\ u[d] \subseteq u[node]
                             /\ d # rbnull => d \in u[d] /\ rb_child(t, node, Other(y)) # d
    BY <1>1, <1>6, FamilyIs
  <2>3. LET d == rb_child(t, p, Other(w))
        IN  /\ d \in Node0 /\ d # p /\ u[d] \subseteq u[p] /\ node \notin u[d]
            /\ \A x \in Nodes : ~ (x \in u[node] /\ x \in u[d])
            /\ d # rbnull => d \in u[d] /\ d # node
    <3> DEFINE d == rb_child(t, p, Other(w))
    <3>1. d \in Node0 /\ d # p /\ u[d] \subseteq u[p] /\ (d # rbnull => d \in u[d])
      BY <1>1, <1>8, FamilyIs
    <3>2. \A x \in Nodes : ~ (x \in u[node] /\ x \in u[d])
      BY <1>1, FamilyIs
    <3>3. node \in Nodes
      BY <1>1, <1>6
    <3> QED BY <2>1, <3>1, <3>2, <3>3
  <2>4. ASSUME NEW d \in C
        PROVE  /\ d \in Node0 /\ d # p /\ d # node /\ (d = g => g = rbnull)
               /\ d = rb_child(t, node, w) /\ d # rbnull =>
                    d # rb_child(t, node, Other(w)) /\ d # rb_child(t, p, Other(w))
    <3>1. CASE d = rb_child(t, p, Other(w))
      <4>1. d \in Node0 /\ d # p /\ d # node
        BY <1>6, <2>3, <3>1
      <4>2. d = g => g = rbnull
        BY <2>1, <2>3, <3>1
      <4>3. d = rb_child(t, node, w) => d = rbnull
        BY <1>1, <2>2, <2>3, <3>1 DEF Node0
      <4> QED BY <3>1, <4>1, <4>2, <4>3
    <3>2. ASSUME NEW y \in Sides, d = rb_child(t, node, y) PROVE d \in Node0 /\ d # p /\ d # node /\ (d = g => g = rbnull)
      BY <1>1, <2>1, <2>2, <3>2
    <3>3. d = rb_child(t, node, w) /\ d # rbnull => d # rb_child(t, node, Other(w))
      BY <2>2
    <3>4. d = rb_child(t, node, w) /\ d # rbnull => d # rb_child(t, p, Other(w))
      BY <1>1, <2>2, <2>3 DEF Node0
    <3> QED BY <1>8, <3>1, <3>2, <3>3, <3>4
  <2> QED BY <2>4 DEF Below
<1>11. /\ \A m \in Node0, v \in Sides :
            rb_child(s, m, v) =
              IF m = node /\ v = Other(w) THEN p
              ELSE IF m = p /\ v = w THEN rb_child(t, node, Other(w))
              ELSE IF m = g /\ m # rbnull /\ v = pw THEN node
              ELSE rb_child(t, m, v)
       /\ IsTree(s) /\ s.root = (IF g = rbnull THEN node ELSE t.root)
       /\ \A m \in Node0 : rb_color(s, m) = rb_color(c, m)
  BY <1>3, <1>6, <1>8, <1>9 DEF Rotated
<1>12. g # rbnull => rb_child(t, g, pw) = p /\ p # t.root
  BY <1>3, <1>4, <1>6
<1>13. ASSUME NEW n \in S, NEW y \in Sides, n # node, n # p, ~ (n = g /\ y = pw)
       PROVE  /\ rb_child(s, n, y) = rb_child(t, n, y) /\ rb_child(t, n, y) \in Node0
              /\ rb_child(t, n, y) # p /\ rb_child(t, n, y) # node
              /\ rb_child(t, n, y) = rb_child(t, node, w) => rb_child(t, n, y) = rbnull
  <2>1. rb_child(s, n, y) = rb_child(t, n, y) /\ rb_child(t, n, y) \in Node0
    BY <1>1, <1>11, <1>13, ReadsAre
  <2>2. rb_child(t, n, y) # node
    BY <1>1, <1>13, OnlyChild
  <2>3. rb_child(t, n, y) = rb_child(t, node, w) => rb_child(t, n, y) = rbnull
    BY <1>1, <1>6, <1>13, OnlyChild
  <2>4. ASSUME rb_child(t, n, y) = p PROVE FALSE
    <3>1. rb_parent(t, p) = n
      BY <1>1, <2>4, FamilyIs
    <3>2. g = n /\ g # rbnull
      BY <1>1, <3>1
    <3>3. y = pw
      BY <1>1, <1>6, <1>12, <2>4, <3>2, OnlyChild
    <3> QED BY <1>13, <3>2, <3>3
  <2> QED BY <2>1, <2>2, <2>3, <2>4
<1>14. /\ rb_child(s, node, w) = rb_child(t, node, w) /\ rb_child(s, node, Other(w)) = p
       /\ rb_child(s, p, w) = rb_child(t, node, Other(w)) /\ rb_child(s, p, Other(w)) = rb_child(t, p, Other(w))
       /\ g # rbnull => rb_child(s, g, pw) = node
  BY <1>3, <1>4, <1>6, <1>8, <1>9, <1>11
<1>15. Swung(s, t, S, node, w, p, pw, g)
  BY <1>3, <1>6, <1>11, <1>12, <1>13, <1>14 DEF Swung
<1> QED BY <1>6, <1>7, <1>10, <1>11, <1>15

(* The colors after a turn: node takes that of its parent, and the child   *)
(* it keeps is black.                                                      *)
LEMMA SwungColors ==
  ASSUME NEW t, NEW S, NEW u, Shape(t, S, u), NoRedRed(t, S, rbnull), RootBlack(t),
         NEW s, NEW node, NEW w, NEW p, NEW pw, NEW g,
         Swung(s, t, S, node, w, p, pw, g), Below(t, node, w, p, g),
         \A m \in Node0 : m \notin {p, node, rb_child(t, node, w)} => rb_color(s, m) = rb_color(t, m),
         rb_color(s, node) = rb_color(t, p), rb_color(s, rb_child(t, node, w)) = "BLACK",
         rb_color(s, node) = "RED" => rb_color(s, p) = "BLACK",
         rb_color(s, p) = "RED" => /\ rb_color(t, rb_child(t, node, Other(w))) = "BLACK"
                                   /\ rb_color(t, rb_child(t, p, Other(w))) = "BLACK"
  PROVE  NoRedRed(s, S, rbnull) /\ RootBlack(s)
<1> DEFINE far == rb_child(t, node, w)
           near == rb_child(t, node, Other(w))
           short == rb_child(t, p, Other(w))
<1>1. /\ IsTree(t) /\ S \in SUBSET Nodes /\ rbnull \notin S /\ S \subseteq Node0 /\ rbnull \in Node0
      /\ t.root \in Node0 /\ node \in S /\ p \in S /\ g \in S \cup {rbnull} /\ w \in Sides
  BY NodesAssumption DEF Shape, Node0, Swung
<1>2. /\ far \in Node0 /\ near \in Node0 /\ short \in Node0 /\ near # p /\ near # node
      /\ short # p /\ short # node
      /\ far # p /\ far # node /\ (far # rbnull => far # near /\ far # short /\ far # g)
  BY DEF Below
<1>3. \A y \in Sides : y = w \/ y = Other(w)
  BY <1>1, OthersAre
<1>4. /\ g # p /\ g # node
      /\ g # rbnull => rb_child(t, g, pw) = p /\ p # t.root
      /\ g = rbnull => p = t.root
      /\ pw \in Sides /\ s.root = IF g = rbnull THEN node ELSE t.root
      /\ rb_child(s, node, w) = far /\ rb_child(s, node, Other(w)) = p
      /\ rb_child(s, p, w) = near /\ rb_child(s, p, Other(w)) = short
      /\ g # rbnull => rb_child(s, g, pw) = node
  BY DEF Swung
<1>5. \A n \in S, y \in Sides :
        n # node /\ n # p /\ ~ (n = g /\ y = pw) =>
          /\ rb_child(s, n, y) = rb_child(t, n, y) /\ rb_child(t, n, y) \in Node0
          /\ rb_child(t, n, y) # p /\ rb_child(t, n, y) # node
          /\ rb_child(t, n, y) = far => rb_child(t, n, y) = rbnull
  BY DEF Swung
<1>6. rb_color(s, far) = "BLACK" /\ rb_color(s, rbnull) = "BLACK" /\ rb_color(t, rbnull) = "BLACK"
  BY DEF rb_color
<1> HIDE DEF far, near, short
<1>7. ASSUME NEW n \in S, NEW y \in Sides, rb_color(s, n) = "RED", rb_color(s, rb_child(s, n, y)) = "RED"
      PROVE  FALSE
  <2>1. CASE n = node
    <3>1. rb_child(s, n, y) = far \/ rb_child(s, n, y) = p
      BY <1>3, <1>4, <2>1
    <3> QED BY <1>6, <1>7, <2>1, <3>1
  <2>2. CASE n = p
    <3>1. rb_child(s, n, y) = near \/ rb_child(s, n, y) = short
      BY <1>3, <1>4, <2>2
    <3>2. rb_color(t, near) = "BLACK" /\ rb_color(t, short) = "BLACK"
      BY <1>7, <2>2 DEF near, short
    <3>3. \A m \in {near, short} : rb_color(s, m) = "BLACK"
      <4>1. ASSUME NEW m \in {near, short} PROVE rb_color(s, m) = "BLACK"
        <5>1. m \in Node0 /\ m # p /\ m # node /\ rb_color(t, m) = "BLACK"
          BY <1>2, <3>2
        <5>2. m # far => rb_color(s, m) = rb_color(t, m)
          BY <5>1 DEF far
        <5> QED BY <1>6, <5>1, <5>2
      <4> QED BY <4>1
    <3> QED BY <1>7, <3>1, <3>3
  <2>3. CASE n # node /\ n # p
    <3>1. n \in Node0 /\ n # far
      BY <1>1, <1>6, <1>7
    <3>2. rb_color(t, n) = "RED"
      BY <1>7, <2>3, <3>1 DEF far
    <3>3. CASE n = g /\ y = pw
      <4>1. rb_child(s, n, y) = node /\ rb_child(t, n, y) = p
        BY <1>1, <1>4, <3>3
      <4>2. rb_color(t, rb_child(t, n, y)) = "RED"
        BY <1>7, <4>1
      <4>3. p = rbnull
        BY <3>2, <4>1, <4>2 DEF NoRedRed
      <4> QED BY <1>1, <4>3
    <3>4. CASE ~ (n = g /\ y = pw)
      <4> DEFINE c == rb_child(t, n, y)
      <4>1. /\ rb_child(s, n, y) = c /\ c \in Node0 /\ c # p /\ c # node /\ (c = far => c = rbnull)
        BY <1>5, <2>3, <3>4
      <4>2. rb_color(t, c) = "RED"
        <5> HIDE DEF c
        <5>1. c # far
          BY <1>6, <1>7, <4>1
        <5>2. rb_color(s, c) = rb_color(t, c)
          BY <4>1, <5>1 DEF far
        <5> QED BY <1>7, <4>1, <5>2
      <4>3. c = rbnull
        BY <3>2, <4>2 DEF NoRedRed
      <4> QED BY <1>6, <4>2, <4>3
    <3> QED BY <3>3, <3>4
  <2> QED BY <2>1, <2>2, <2>3
<1>8. NoRedRed(s, S, rbnull)
  BY <1>7 DEF NoRedRed
<1>9. RootBlack(s)
  <2>1. CASE g = rbnull
    BY <1>4, <2>1 DEF RootBlack
  <2>2. CASE g # rbnull
    <3>1. s.root = t.root /\ t.root # p
      BY <1>4, <2>2
    <3>2. t.root # node
      <4>1. rb_parent(t, node) = p
        <5>1. node = rb_child(t, p, w)
          BY DEF Swung
        <5> QED BY <1>1, <5>1, FamilyIs
      <4> QED BY <1>1, <4>1, FamilyIs
    <3>3. t.root # far => rb_color(s, t.root) = rb_color(t, t.root)
      BY <1>1, <3>1, <3>2 DEF far
    <3> QED BY <1>6, <3>1, <3>3 DEF RootBlack
  <2> QED BY <2>1, <2>2
<1> QED BY <1>8, <1>9

(* The heights after a turn.                                               *)
Raised(t, S, h, q, x, s, k, r, z, node, w, p, far) ==
  /\ \A m \in Node0 : m \notin {p, node, far} => rb_color(s, m) = rb_color(t, m)
  /\ k \in [Node0 -> Nat] /\ \A m \in Node0 : m \notin {p, node, far} => k[m] = h[m]
  /\ far = rbnull => k[far] = 0
  /\ k[node] = h[p]
  /\ \A m \in S, y \in Sides : m \notin {p, node, far} => ((m = q /\ y = x) <=> (m = r /\ y = z))
  /\ r # node /\ (far # rbnull => r # far)
  /\ k[p] = h[rb_child(t, node, Other(w))] + Black(s, p) + (IF p = r /\ w = z THEN 1 ELSE 0)
  /\ k[p] = h[rb_child(t, p, Other(w))] + Black(s, p) + (IF p = r /\ Other(w) = z THEN 1 ELSE 0)
  /\ k[node] = k[p] + Black(s, node) /\ k[node] = k[far] + Black(s, node)
  /\ far # rbnull => \A y \in Sides : k[far] = h[rb_child(t, far, y)] + Black(s, far)

LEMMA SwungHeights ==
  ASSUME NEW t, NEW S, NEW u, Shape(t, S, u), NEW h, NEW q, NEW x, Balanced(t, S, h, q, x),
         NEW s, NEW node, NEW w, NEW p, NEW pw, NEW g,
         Swung(s, t, S, node, w, p, pw, g), Below(t, node, w, p, g),
         NEW far, far = rb_child(t, node, w),
         NEW k, NEW r, NEW z, Raised(t, S, h, q, x, s, k, r, z, node, w, p, far)
  PROVE  Balanced(s, S, k, r, z)
<1> USE DEF Raised
<1> DEFINE near == rb_child(t, node, Other(w))
           short == rb_child(t, p, Other(w))
<1>1. /\ IsTree(t) /\ S \in SUBSET Nodes /\ rbnull \notin S /\ S \subseteq Node0 /\ rbnull \in Node0
      /\ node \in S /\ p \in S /\ g \in S \cup {rbnull} /\ w \in Sides
  BY NodesAssumption DEF Shape, Node0, Swung
<1>2. /\ far \in Node0 /\ near \in Node0 /\ short \in Node0 /\ near # p /\ near # node
      /\ short # p /\ short # node
      /\ far # p /\ far # node /\ (far # rbnull => far # near /\ far # short /\ far # g)
  BY DEF Below
<1>3. Other(w) # w /\ \A y \in Sides : y = w \/ y = Other(w)
  BY <1>1, OthersAre
<1>4. /\ g # p /\ g # node
      /\ g # rbnull => rb_child(t, g, pw) = p
      /\ pw \in Sides
      /\ rb_child(s, node, w) = far /\ rb_child(s, node, Other(w)) = p
      /\ rb_child(s, p, w) = near /\ rb_child(s, p, Other(w)) = short
      /\ g # rbnull => rb_child(s, g, pw) = node
  BY DEF Swung
<1>5. \A n \in S, y \in Sides :
        n # node /\ n # p /\ ~ (n = g /\ y = pw) =>
          /\ rb_child(s, n, y) = rb_child(t, n, y) /\ rb_child(t, n, y) \in Node0
          /\ rb_child(t, n, y) # p /\ rb_child(t, n, y) # node
          /\ rb_child(t, n, y) = far => rb_child(t, n, y) = rbnull
  BY DEF Swung
<1>6. /\ h \in [Node0 -> Nat] /\ h[rbnull] = 0
      /\ \A n \in S, y \in Sides :
           h[n] = h[rb_child(t, n, y)] + Black(t, n) + (IF n = q /\ y = x THEN 1 ELSE 0)
  BY DEF Balanced
<1>7. k[rbnull] = 0
  BY <1>1, <1>6
<1>8. k[near] = h[near] /\ k[short] = h[short]
  <2>1. ASSUME NEW c \in {near, short} PROVE k[c] = h[c]
    <3>1. c \in Node0 /\ c # p /\ c # node
      BY <1>2
    <3>2. CASE c = far
      <4>1. c = rbnull
        BY <1>2, <3>2
      <4> QED BY <1>6, <1>7, <4>1
    <3>3. CASE c # far
      BY <3>1, <3>3
    <3> QED BY <3>2, <3>3
  <2> QED BY <2>1
<1>9. \A n \in S : n \in Node0 /\ n # rbnull /\ Black(s, n) \in Nat /\ k[n] \in Nat
  BY <1>1 DEF Black
<1> HIDE DEF near, short
<1>10. ASSUME NEW n \in S, NEW y \in Sides
       PROVE  k[n] = k[rb_child(s, n, y)] + Black(s, n) + (IF n = r /\ y = z THEN 1 ELSE 0)
  <2>1. CASE n = node
    <3>1. rb_child(s, n, y) = far \/ rb_child(s, n, y) = p
      BY <1>3, <1>4, <2>1
    <3>2. k[n] = k[rb_child(s, n, y)] + Black(s, n) /\ k[rb_child(s, n, y)] \in Nat
      BY <1>1, <1>2, <2>1, <3>1
    <3> QED BY <1>9, <2>1, <3>2
  <2>2. CASE n = p
    <3>1. CASE y = w
      BY <1>4, <1>8, <2>2, <3>1 DEF near
    <3>2. CASE y = Other(w)
      BY <1>4, <1>8, <2>2, <3>2 DEF short
    <3> QED BY <1>3, <3>1, <3>2
  <2>3. CASE n = far
    <3>1. far # rbnull /\ n # g /\ n # node /\ n # p
      BY <1>1, <1>2, <2>3
    <3> DEFINE c == rb_child(t, n, y)
    <3>2. rb_child(s, n, y) = c /\ c \in Node0 /\ c # p /\ c # node /\ (c = far => c = rbnull)
      BY <1>5, <3>1
    <3>3. k[n] = h[c] + Black(s, n)
      BY <2>3, <3>1
    <3> HIDE DEF c
    <3>4. k[c] = h[c]
      BY <1>6, <1>7, <3>2
    <3>5. n # r
      BY <2>3, <3>1
    <3> QED BY <1>6, <1>9, <3>2, <3>3, <3>4, <3>5
  <2>4. CASE n \notin {node, p, far}
    <3> DEFINE c == rb_child(t, n, y)
    <3>1. /\ k[n] = h[n] /\ Black(s, n) = Black(t, n)
      BY <1>9, <2>4 DEF Black
    <3>2. h[n] = h[c] + Black(t, n) + (IF n = q /\ y = x THEN 1 ELSE 0)
      BY <1>6
    <3>3. (n = q /\ y = x) <=> (n = r /\ y = z)
      BY <2>4
    <3>4. CASE n = g /\ y = pw
      <4>1. c = p /\ rb_child(s, n, y) = node
        BY <1>1, <1>4, <3>4
      <4> HIDE DEF c
      <4> QED BY <3>1, <3>2, <3>3, <4>1
    <3>5. CASE ~ (n = g /\ y = pw)
      <4>1. rb_child(s, n, y) = c /\ c \in Node0 /\ c # p /\ c # node /\ (c = far => c = rbnull)
        BY <1>5, <2>4, <3>5
      <4> HIDE DEF c
      <4>2. k[c] = h[c]
        BY <1>6, <1>7, <4>1
      <4> QED BY <3>1, <3>2, <3>3, <4>1, <4>2
    <3> QED BY <3>4, <3>5
  <2> QED BY <2>1, <2>2, <2>3, <2>4
<1> QED BY <1>7, <1>9, <1>10 DEF Balanced

(* The side that is short has a brother.                                   *)
ShortFacts(t, S, u, h, q, x, b) ==
  /\ h \in [Node0 -> Nat] /\ h[rbnull] = 0 /\ b \in S /\ b # rbnull /\ b # q
  /\ h[q] = h[b] + Black(t, q) /\ h[b] = h[rb_child(t, q, x)] + 1
  /\ \A n \in S \ {q}, y \in Sides : h[n] = h[rb_child(t, n, y)] + Black(t, n)
  /\ \A n \in S, y \in Sides : rb_child(t, n, y) \in Node0 /\ h[rb_child(t, n, y)] \in Nat
  /\ \A n \in S : n \in Node0 /\ h[n] \in Nat /\ Black(t, n) \in Nat
  /\ IsTree(t) /\ S \in SUBSET Nodes /\ rbnull \notin S /\ rbnull \in Node0 /\ Shape(t, S, u)

LEMMA ShortIs ==
  ASSUME NEW t, NEW S, NEW u, Search(t, S, u), NEW h, NEW q \in S, NEW x \in Sides,
         Balanced(t, S, h, q, x), NEW b, b = rb_child(t, q, Other(x))
  PROVE  ShortFacts(t, S, u, h, q, x, b)
<1>1. /\ IsTree(t) /\ S \in SUBSET Nodes /\ rbnull \notin S /\ S \subseteq Node0 /\ rbnull \in Node0
      /\ Shape(t, S, u)
  BY NodesAssumption DEF Search, Shape, Node0
<1>2. Other(x) \in Sides /\ Other(x) # x
  BY OthersAre
<1>3. /\ h \in [Node0 -> Nat] /\ h[rbnull] = 0
      /\ \A n \in S, y \in Sides :
           h[n] = h[rb_child(t, n, y)] + Black(t, n) + (IF n = q /\ y = x THEN 1 ELSE 0)
  BY DEF Balanced
<1>4. \A n \in S, y \in Sides : rb_child(t, n, y) \in Node0 /\ h[rb_child(t, n, y)] \in Nat
  <2>1. \A n \in S, y \in Sides : rb_child(t, n, y) \in Node0
    BY <1>1, FamilyIs
  <2> QED BY <1>3, <2>1
<1>5. \A n \in S : n \in Node0 /\ h[n] \in Nat /\ Black(t, n) \in Nat
  BY <1>1, <1>3 DEF Black
<1>6. h[q] = h[b] + Black(t, q) /\ h[q] = h[rb_child(t, q, x)] + Black(t, q) + 1
  <2>1. h[q] = h[b] + Black(t, q) + 0 /\ h[q] = h[rb_child(t, q, x)] + Black(t, q) + 1
    BY <1>2, <1>3
  <2> QED BY <1>2, <1>4, <1>5, <2>1
<1>7. h[b] = h[rb_child(t, q, x)] + 1
  BY <1>2, <1>4, <1>5, <1>6
<1>8. b # rbnull
  BY <1>3, <1>4, <1>7
<1>9. b \in S /\ b # q
  BY <1>1, <1>2, <1>8, FamilyIs
<1>10. \A n \in S \ {q}, y \in Sides : h[n] = h[rb_child(t, n, y)] + Black(t, n)
  <2>1. \A n \in S \ {q}, y \in Sides : h[n] = h[rb_child(t, n, y)] + Black(t, n) + 0
    BY <1>3
  <2> QED BY <1>4, <1>5, <2>1
<1> QED BY <1>1, <1>2, <1>3, <1>4, <1>5, <1>6, <1>7, <1>8, <1>9, <1>10 DEF ShortFacts

(* A tree that is one black node short on side x of q.                     *)
Short(t, S, q, x) ==
  /\ q \in S /\ x \in Sides
  /\ \E u : Search(t, S, u)
  /\ \E h : Balanced(t, S, h, q, x)
  /\ NoRedRed(t, S, rbnull) /\ RootBlack(t) /\ rb_color(t, rb_child(t, q, x)) = "BLACK"

(* A red brother: a turn gives a black one.                                *)
LEMMA RedBrother ==
  ASSUME NEW t, NEW S, NEW q, NEW x, Short(t, S, q, x),
         NEW old, old = rb_child(t, q, Other(x)), rb_color(t, old) = "RED",
         NEW g, g = rb_parent(t, q), NEW c, c = set_color(set_color(t, old, "BLACK"), q, "RED"),
         NEW s, s = rb_rotate(c, old, Other(x), q, rb_which(c, q, g), g)
  PROVE  Short(s, S, q, x) /\ Kept(s, t, S) /\ rb_color(s, q) = "RED"
         /\ rb_color(s, rb_child(s, q, Other(x))) = "BLACK"
<1> DEFINE w == Other(x)
           near == rb_child(t, old, x)
           far == rb_child(t, old, w)
           short == rb_child(t, q, x)
<1>1. q \in S /\ x \in Sides /\ NoRedRed(t, S, rbnull) /\ RootBlack(t) /\ rb_color(t, short) = "BLACK"
  BY DEF Short
<1>2. PICK u : Search(t, S, u)
  BY DEF Short
<1>3. PICK h : Balanced(t, S, h, q, x)
  BY DEF Short
<1>4. ShortFacts(t, S, u, h, q, x, old)
  BY <1>1, <1>2, <1>3, ShortIs
<1>5. w \in Sides /\ w # x /\ Other(w) = x /\ \A y \in Sides : y = w \/ y = x
  BY <1>1, OthersAre
<1>6. /\ Tinted(c, t)
      /\ \A m \in Node0 : rb_color(c, m) = IF m = q THEN "RED" ELSE IF m = old THEN "BLACK"
                                           ELSE rb_color(t, m)
  <2> DEFINE a == set_color(t, old, "BLACK")
  <2>1. /\ Tinted(a, t)
        /\ \A m \in Node0 : rb_color(a, m) = IF m = old /\ old # rbnull THEN "BLACK" ELSE rb_color(t, m)
    BY <1>4, SetColorIs DEF Colors, ShortFacts
  <2>2. IsTree(a)
    BY <2>1 DEF Tinted
  <2>3. c = set_color(a, q, "RED")
    OBVIOUS
  <2> HIDE DEF a
  <2>4. /\ Tinted(c, a)
        /\ \A m \in Node0 : rb_color(c, m) = IF m = q /\ q # rbnull THEN "RED" ELSE rb_color(a, m)
    BY <1>1, <1>4, <2>2, <2>3, SetColorIs DEF Colors, ShortFacts
  <2>5. Tinted(c, t)
    BY <2>1, <2>4, TintedTwice
  <2> QED BY <1>1, <1>4, <2>1, <2>4, <2>5 DEF ShortFacts
<1> DEFINE pw == rb_which(t, q, g)
<1>7. rb_which(c, q, g) = pw
  <2>1. g \in Node0
    BY <1>1, <1>4, ReadsAre DEF ShortFacts
  <2> QED BY <1>6, <2>1, SidesAre DEF rb_which, Tinted
<1>8. /\ Swung(s, t, S, old, w, q, pw, g) /\ Below(t, old, w, q, g)
      /\ \A m \in Node0 : rb_color(s, m) = rb_color(c, m)
      /\ \E v : Search(s, S, v)
      /\ Kept(s, t, S)
  <2> HIDE DEF w, pw
  <2>1. old = rb_child(t, q, w) /\ s = rb_rotate(c, old, w, q, pw, g)
    BY <1>7 DEF w
  <2>2. pw = rb_which(t, q, g)
    BY DEF pw
  <2> QED BY <1>1, <1>2, <1>4, <1>5, <1>6, <2>1, <2>2, SwungIs DEF ShortFacts
<1> HIDE DEF w, pw
<1>9. /\ near \in Node0 /\ far \in Node0 /\ short \in Node0
      /\ near # q /\ near # old /\ far # q /\ far # old /\ short # q /\ short # old
  BY <1>5, <1>8 DEF Below
<1>10. rb_color(t, q) = "BLACK" /\ rb_color(t, near) = "BLACK" /\ rb_color(t, far) = "BLACK"
  <2>1. ASSUME rb_color(t, q) = "RED" PROVE FALSE
    BY <1>1, <1>4, <1>5, <2>1 DEF NoRedRed, w, ShortFacts
  <2>2. ASSUME NEW y \in Sides, rb_color(t, rb_child(t, old, y)) = "RED" PROVE FALSE
    <3>1. rb_child(t, old, y) = rbnull
      BY <1>1, <1>4, <2>2 DEF NoRedRed, ShortFacts
    <3> QED BY <2>2, <3>1 DEF rb_color
  <2>3. \A m \in Node0 : rb_color(t, m) = "RED" \/ rb_color(t, m) = "BLACK"
    BY <1>4, ReadsAre DEF Colors, ShortFacts
  <2> QED BY <1>1, <1>4, <1>5, <1>9, <2>1, <2>2, <2>3 DEF ShortFacts
<1>11. /\ rb_color(s, q) = "RED" /\ rb_color(s, old) = "BLACK"
       /\ \A m \in Node0 : m # q /\ m # old => rb_color(s, m) = rb_color(t, m)
  BY <1>1, <1>4, <1>6, <1>8 DEF ShortFacts
<1>12. NoRedRed(s, S, rbnull) /\ RootBlack(s)
  <2>1. rb_color(s, far) = "BLACK"
    BY <1>9, <1>10, <1>11
  <2>2. rb_color(s, old) = rb_color(t, q)
    BY <1>10, <1>11
  <2>3. rb_color(t, rb_child(t, old, Other(w))) = "BLACK" /\ rb_color(t, rb_child(t, q, Other(w))) = "BLACK"
    BY <1>1, <1>5, <1>10
  <2>4. \A m \in Node0 : m \notin {q, old, far} => rb_color(s, m) = rb_color(t, m)
    BY <1>11
  <2>5. rb_color(s, old) # "RED"
    BY <1>11
  <2> QED BY <1>1, <1>4, <1>8, <2>1, <2>2, <2>3, <2>4, <2>5, SwungColors DEF ShortFacts
<1> DEFINE k == [h EXCEPT ![old] = h[q], ![q] = h[old]]
<1>13. /\ k \in [Node0 -> Nat] /\ k[old] = h[q] /\ k[q] = h[old]
       /\ \A m \in Node0 : m # q /\ m # old => k[m] = h[m]
  BY <1>1, <1>4 DEF ShortFacts
<1> HIDE DEF k
<1>14. Balanced(s, S, k, q, x)
  <2>1. Black(t, q) = 1 /\ Black(t, old) = 0 /\ Black(s, q) = 0 /\ Black(s, old) = 1
        /\ Black(s, far) = Black(t, far)
    <3>1. rb_color(s, far) = rb_color(t, far)
      BY <1>9, <1>11
    <3> QED BY <1>10, <1>11, <3>1 DEF Black
  <2>2. h[old] = h[near] /\ h[old] = h[far] /\ h[near] \in Nat /\ h[far] \in Nat /\ h[short] \in Nat
    BY <1>1, <1>4, <1>5, <2>1 DEF ShortFacts
  <2>3. k[q] = h[near] + Black(s, q) + 0 /\ k[q] = h[short] + Black(s, q) + 1
    BY <1>4, <1>13, <2>1, <2>2 DEF ShortFacts
  <2>4. k[old] = k[q] + Black(s, old) /\ k[old] = k[far] + Black(s, old) /\ k[far] = h[far]
    BY <1>1, <1>4, <1>9, <1>13, <2>1, <2>2 DEF ShortFacts
  <2>5. far # rbnull => \A y \in Sides : k[far] = h[rb_child(t, far, y)] + Black(s, far)
    <3>1. ASSUME far # rbnull PROVE far \in S \ {q}
      BY <1>4, <1>5, <1>9, <3>1, FamilyIs DEF ShortFacts
    <3> QED BY <1>4, <2>1, <2>4, <3>1 DEF ShortFacts
  <2>6. \A m \in Node0 : m \notin {q, old, far} => rb_color(s, m) = rb_color(t, m) /\ k[m] = h[m]
    BY <1>11, <1>13
  <2>7. k[q] = h[rb_child(t, old, Other(w))] + Black(s, q) + (IF q = q /\ w = x THEN 1 ELSE 0)
    BY <1>5, <2>3
  <2>8. k[q] = h[rb_child(t, q, Other(w))] + Black(s, q) + (IF q = q /\ Other(w) = x THEN 1 ELSE 0)
    BY <1>5, <2>3
  <2>9. far = rbnull => k[far] = 0
    BY <1>4, <2>4 DEF ShortFacts
  <2>10. q # old /\ (far # rbnull => q # far)
    BY <1>4, <1>9 DEF ShortFacts
  <2>11. far = rb_child(t, old, w)
    OBVIOUS
  <2> HIDE DEF far
  <2>12. \A m \in S, y \in Sides : m \notin {q, old, far} => ((m = q /\ y = x) <=> (m = q /\ y = x))
    OBVIOUS
  <2>13. Raised(t, S, h, q, x, s, k, q, x, old, w, q, far)
    BY <1>13, <2>4, <2>5, <2>6, <2>7, <2>8, <2>9, <2>10, <2>12, Zenon DEF Raised
  <2>14. Shape(t, S, u)
    BY <1>4 DEF ShortFacts
  <2> QED BY <1>3, <1>8, <2>11, <2>13, <2>14, SwungHeights
<1>15. rb_child(s, q, x) = short /\ rb_child(s, q, w) = near
  BY <1>5, <1>8 DEF Swung
<1>16. rb_color(s, short) = "BLACK" /\ rb_color(s, near) = "BLACK"
  BY <1>1, <1>9, <1>10, <1>11
<1>17. Short(s, S, q, x)
  BY <1>1, <1>8, <1>12, <1>14, <1>15, <1>16 DEF Short
<1> QED BY <1>8, <1>11, <1>15, <1>16, <1>17 DEF w

(* The brother's red child on the near side is brought to the far side.    *)
LEMMA BorrowTurn ==
  ASSUME NEW t, NEW S, NEW q, NEW x, Short(t, S, q, x),
         NEW b, b = rb_child(t, q, Other(x)), rb_color(t, b) = "BLACK",
         NEW near, near = rb_child(t, b, x), rb_color(t, near) = "RED",
         rb_color(t, rb_child(t, b, Other(x))) = "BLACK",
         NEW c, c = set_color(set_color(t, b, "RED"), near, "BLACK"),
         NEW s, s = rb_rotate(c, near, x, b, Other(x), q)
  PROVE  Short(s, S, q, x) /\ Kept(s, t, S) /\ rb_child(s, q, Other(x)) = near
         /\ rb_color(s, near) = "BLACK" /\ rb_color(s, rb_child(s, near, Other(x))) = "RED"
<1> DEFINE y0 == Other(x)
           under == rb_child(t, near, y0)
           end == rb_child(t, near, x)
           far == rb_child(t, b, y0)
           short == rb_child(t, q, x)
<1>1. q \in S /\ x \in Sides /\ NoRedRed(t, S, rbnull) /\ RootBlack(t) /\ rb_color(t, short) = "BLACK"
  BY DEF Short
<1>2. PICK u : Search(t, S, u)
  BY DEF Short
<1>3. PICK h : Balanced(t, S, h, q, x)
  BY DEF Short
<1>4. ShortFacts(t, S, u, h, q, x, b)
  BY <1>1, <1>2, <1>3, ShortIs
<1>5. y0 \in Sides /\ y0 # x /\ Other(y0) = x /\ \A y \in Sides : y = y0 \/ y = x
  BY <1>1, OthersAre
<1>6. near # rbnull /\ near \in S /\ near \in Node0 /\ near # b /\ b \in S /\ b # q
      /\ rb_parent(t, b) = q /\ rb_which(t, b, q) = y0
  <2>1. near # rbnull
    BY DEF rb_color
  <2> QED BY <1>1, <1>4, <1>5, <2>1, FamilyIs DEF ShortFacts
<1>7. /\ Tinted(c, t)
      /\ \A m \in Node0 : rb_color(c, m) = IF m = near THEN "BLACK" ELSE IF m = b THEN "RED"
                                           ELSE rb_color(t, m)
  <2> DEFINE a == set_color(t, b, "RED")
  <2>1. /\ Tinted(a, t)
        /\ \A m \in Node0 : rb_color(a, m) = IF m = b /\ b # rbnull THEN "RED" ELSE rb_color(t, m)
    BY <1>4, <1>6, SetColorIs DEF Colors, ShortFacts
  <2>2. IsTree(a)
    BY <2>1 DEF Tinted
  <2>3. c = set_color(a, near, "BLACK")
    OBVIOUS
  <2> HIDE DEF a
  <2>4. /\ Tinted(c, a)
        /\ \A m \in Node0 : rb_color(c, m) = IF m = near /\ near # rbnull THEN "BLACK" ELSE rb_color(a, m)
    BY <1>1, <1>6, <2>2, <2>3, SetColorIs DEF Colors
  <2>5. Tinted(c, t)
    BY <2>1, <2>4, TintedTwice
  <2> QED BY <1>1, <1>4, <1>6, <2>1, <2>4, <2>5 DEF ShortFacts
<1>8. /\ Swung(s, t, S, near, x, b, y0, q) /\ Below(t, near, x, b, q)
      /\ \A m \in Node0 : rb_color(s, m) = rb_color(c, m)
      /\ \E v : Search(s, S, v)
      /\ Kept(s, t, S)
  <2>1. q = rb_parent(t, b) /\ y0 = rb_which(t, b, q)
    BY <1>6
  <2>2. s = rb_rotate(c, near, x, b, y0, q)
    OBVIOUS
  <2> HIDE DEF y0
  <2> QED BY <1>1, <1>2, <1>6, <1>7, <2>1, <2>2, SwungIs
<1> HIDE DEF y0
<1>9. /\ under \in Node0 /\ end \in Node0 /\ far \in Node0 /\ short \in Node0
      /\ under # b /\ under # near /\ end # b /\ end # near /\ far # b /\ far # near
      /\ (end = q => q = rbnull)
  <2>1. short \in Node0
    BY <1>1, <1>4 DEF ShortFacts
  <2> QED BY <1>5, <1>8, <2>1 DEF Below, y0
<1>10. rb_color(t, under) = "BLACK" /\ rb_color(t, end) = "BLACK" /\ rb_color(t, far) = "BLACK"
  <2>1. ASSUME NEW y \in Sides, rb_color(t, rb_child(t, near, y)) = "RED" PROVE FALSE
    <3>1. rb_child(t, near, y) = rbnull
      BY <1>1, <1>6, <2>1 DEF NoRedRed
    <3> QED BY <2>1, <3>1 DEF rb_color
  <2>2. \A m \in Node0 : rb_color(t, m) = "RED" \/ rb_color(t, m) = "BLACK"
    BY <1>4, ReadsAre DEF Colors, ShortFacts
  <2> QED BY <1>1, <1>5, <1>9, <2>1, <2>2 DEF y0
<1>11. /\ rb_color(s, b) = "RED" /\ rb_color(s, near) = "BLACK"
       /\ \A m \in Node0 : m # b /\ m # near => rb_color(s, m) = rb_color(t, m)
  BY <1>4, <1>6, <1>7, <1>8 DEF ShortFacts
<1>12. NoRedRed(s, S, rbnull) /\ RootBlack(s)
  <2>1. rb_color(s, end) = "BLACK"
    BY <1>9, <1>10, <1>11
  <2>2. rb_color(s, near) = rb_color(t, b)
    BY <1>11
  <2>3. rb_color(t, rb_child(t, near, Other(x))) = "BLACK" /\ rb_color(t, rb_child(t, b, Other(x))) = "BLACK"
    BY <1>10 DEF y0
  <2>4. \A m \in Node0 : m \notin {b, near, end} => rb_color(s, m) = rb_color(t, m)
    BY <1>11
  <2>5. rb_color(s, near) # "RED"
    BY <1>11
  <2>6. Shape(t, S, u)
    BY <1>4 DEF ShortFacts
  <2> QED BY <1>1, <1>8, <2>1, <2>2, <2>3, <2>4, <2>5, <2>6, SwungColors
<1> DEFINE k == [h EXCEPT ![near] = h[b], ![b] = h[near]]
<1>13. /\ k \in [Node0 -> Nat] /\ k[near] = h[b] /\ k[b] = h[near]
       /\ \A m \in Node0 : m # b /\ m # near => k[m] = h[m]
  BY <1>1, <1>4, <1>6 DEF ShortFacts
<1> HIDE DEF k
<1>14. Balanced(s, S, k, q, x)
  <2>1. Black(t, b) = 1 /\ Black(t, near) = 0 /\ Black(s, b) = 0 /\ Black(s, near) = 1
        /\ Black(s, end) = Black(t, end)
    <3>1. rb_color(s, end) = rb_color(t, end)
      BY <1>9, <1>11
    <3> QED BY <1>10, <1>11, <3>1 DEF Black
  <2>2. h[near] = h[under] /\ h[near] = h[end] /\ h[b] = h[near] + 1 /\ h[b] = h[far] + 1
        /\ h[under] \in Nat /\ h[end] \in Nat /\ h[near] \in Nat /\ h[far] \in Nat
    <3>1. near # q
      BY <1>8 DEF Swung
    <3>2. near \in S \ {q} /\ b \in S \ {q}
      BY <1>6, <3>1
    <3> QED BY <1>1, <1>4, <1>5, <1>6, <2>1, <3>2 DEF ShortFacts
  <2>3. k[b] = h[under] + Black(s, b) + 0 /\ k[b] = h[far] + Black(s, b) + 0
    BY <1>4, <1>13, <2>1, <2>2
  <2>4. k[near] = k[b] + Black(s, near) /\ k[near] = k[end] + Black(s, near) /\ k[end] = h[end]
    BY <1>1, <1>4, <1>9, <1>13, <2>1, <2>2
  <2>5. end # rbnull => \A y \in Sides : k[end] = h[rb_child(t, end, y)] + Black(s, end)
    <3>1. ASSUME end # rbnull PROVE end \in S \ {q}
      <4>1. end # q
        BY <1>9, <3>1
      <4>2. end \in S
        BY <1>1, <1>4, <1>6, <3>1, FamilyIs DEF ShortFacts
      <4> QED BY <4>1, <4>2
    <3> QED BY <1>4, <2>1, <2>4, <3>1 DEF ShortFacts
  <2>6. \A m \in Node0 : m \notin {b, near, end} => rb_color(s, m) = rb_color(t, m) /\ k[m] = h[m]
    BY <1>11, <1>13
  <2>7. k[b] = h[rb_child(t, near, Other(x))] + Black(s, b) + (IF b = q /\ x = x THEN 1 ELSE 0)
    BY <1>6, <2>3 DEF y0
  <2>8. k[b] = h[rb_child(t, b, Other(x))] + Black(s, b) + (IF b = q /\ Other(x) = x THEN 1 ELSE 0)
    BY <1>6, <2>3 DEF y0
  <2>9. end = rbnull => k[end] = 0
    BY <1>4, <2>4 DEF ShortFacts
  <2>10. q # near /\ (end # rbnull => q # end)
    BY <1>8, <1>9 DEF Swung
  <2>11. end = rb_child(t, near, x)
    OBVIOUS
  <2> HIDE DEF end
  <2>12. \A m \in S, y \in Sides : m \notin {b, near, end} => ((m = q /\ y = x) <=> (m = q /\ y = x))
    OBVIOUS
  <2>13. Shape(t, S, u)
    BY <1>4 DEF ShortFacts
  <2>14. Raised(t, S, h, q, x, s, k, q, x, near, x, b, end)
    BY <1>13, <2>4, <2>5, <2>6, <2>7, <2>8, <2>9, <2>10, <2>12, Zenon DEF Raised
  <2> QED BY <1>3, <1>8, <2>11, <2>13, <2>14, SwungHeights
<1>15. rb_child(s, q, x) = short /\ rb_child(s, q, y0) = near /\ rb_child(s, near, y0) = b
  <2>1. q # near /\ q # b /\ ~ (q = q /\ x = y0) /\ q # rbnull
    BY <1>1, <1>4, <1>5, <1>6, <1>8 DEF Swung, ShortFacts
  <2> QED BY <1>1, <1>8, <2>1 DEF Swung, y0
<1>16. rb_color(s, short) = "BLACK"
  <2>1. short # near /\ short # b
    <3>1. short # b
      BY <1>1, <1>4, FamilyIs DEF ShortFacts
    <3>2. short = near => rb_parent(t, near) = q /\ rb_parent(t, near) = b
      BY <1>1, <1>4, <1>6, FamilyIs DEF ShortFacts
    <3> QED BY <1>6, <3>1, <3>2
  <2> QED BY <1>1, <1>9, <1>11, <2>1
<1>17. Short(s, S, q, x)
  BY <1>1, <1>8, <1>12, <1>14, <1>15, <1>16 DEF Short
<1> QED BY <1>8, <1>11, <1>15, <1>16, <1>17 DEF y0

(* The colors that the brother, the parent and the far child get.          *)
LEMMA BorrowColors ==
  ASSUME NEW t, IsTree(t), NEW q \in Node0, q # rbnull, NEW top \in Node0, top # rbnull,
         NEW w \in Sides, NEW far \in Node0, far # rbnull, far = rb_child(t, top, w),
         NEW c1, c1 = set_color(t, top, rb_color(t, q)), NEW c2, c2 = set_color(c1, q, "BLACK"),
         NEW c, c = set_color(c2, rb_child(c2, top, w), "BLACK")
  PROVE  /\ Tinted(c, t)
         /\ \A m \in Node0 : rb_color(c, m) = IF m = far \/ m = q THEN "BLACK"
                                              ELSE IF m = top THEN rb_color(t, q)
                                              ELSE rb_color(t, m)
<1>1. /\ Tinted(c1, t)
      /\ \A m \in Node0 : rb_color(c1, m) = IF m = top /\ top # rbnull THEN rb_color(t, q) ELSE rb_color(t, m)
  <2>1. rb_color(t, q) \in Colors
    BY ReadsAre
  <2> QED BY <2>1, SetColorIs
<1>2. IsTree(c1)
  BY <1>1 DEF Tinted
<1>3. /\ Tinted(c2, c1)
      /\ \A m \in Node0 : rb_color(c2, m) = IF m = q /\ q # rbnull THEN "BLACK" ELSE rb_color(c1, m)
  BY <1>2, SetColorIs DEF Colors
<1>4. Tinted(c2, t) /\ IsTree(c2)
  BY <1>1, <1>3, TintedTwice DEF Tinted
<1>5. rb_child(c2, top, w) = far
  BY <1>4 DEF Tinted
<1>6. /\ Tinted(c, c2)
      /\ \A m \in Node0 : rb_color(c, m) = IF m = far /\ far # rbnull THEN "BLACK" ELSE rb_color(c2, m)
  BY <1>4, <1>5, SetColorIs DEF Colors
<1>7. Tinted(c, t)
  BY <1>4, <1>6, TintedTwice
<1> QED BY <1>1, <1>3, <1>6, <1>7

(* The brother takes the place of the parent, which becomes the missing    *)
(* black node.                                                             *)
LEMMA BorrowTop ==
  ASSUME NEW t, NEW S, NEW q, NEW x, Short(t, S, q, x),
         NEW top, top = rb_child(t, q, Other(x)), rb_color(t, top) = "BLACK",
         NEW far, far = rb_child(t, top, Other(x)), rb_color(t, far) = "RED",
         NEW c, Tinted(c, t),
         \A m \in Node0 : rb_color(c, m) = IF m = far \/ m = q THEN "BLACK"
                                          ELSE IF m = top THEN rb_color(t, q)
                                          ELSE rb_color(t, m),
         NEW g, g = rb_parent(c, q),
         NEW s, s = rb_rotate(c, top, Other(x), q, rb_which(c, q, g), g)
  PROVE  Sound(set_color(s, s.root, "BLACK"), S) /\ Kept(set_color(s, s.root, "BLACK"), t, S)
<1> DEFINE w == Other(x)
           near == rb_child(t, top, x)
           short == rb_child(t, q, x)
<1>1. q \in S /\ x \in Sides /\ NoRedRed(t, S, rbnull) /\ RootBlack(t) /\ rb_color(t, short) = "BLACK"
  BY DEF Short
<1>2. PICK u : Search(t, S, u)
  BY DEF Short
<1>3. PICK h : Balanced(t, S, h, q, x)
  BY DEF Short
<1>4. ShortFacts(t, S, u, h, q, x, top)
  BY <1>1, <1>2, <1>3, ShortIs
<1>5. w \in Sides /\ w # x /\ Other(w) = x /\ \A y \in Sides : y = w \/ y = x
  BY <1>1, OthersAre
<1>6. far # rbnull /\ far \in S /\ far \in Node0 /\ far # top /\ top \in S /\ top # q /\ q # rbnull
      /\ top # rbnull /\ q \in Node0 /\ top \in Node0 /\ IsTree(t) /\ rb_color(t, q) \in Colors
  <2>1. far # rbnull
    BY DEF rb_color
  <2>2. top \in S /\ top # q /\ IsTree(t) /\ Shape(t, S, u) /\ \A m \in S : m \in Node0 /\ m # rbnull
    BY <1>4 DEF ShortFacts
  <2>3. far \in S /\ far # top
    BY <1>5, <2>1, <2>2, FamilyIs
  <2> QED BY <1>1, <2>1, <2>2, <2>3, ReadsAre
<1> DEFINE pw == rb_which(t, q, g)
<1>8. rb_which(c, q, g) = pw /\ g = rb_parent(t, q)
  <2>1. g = rb_parent(t, q)
    BY <1>6 DEF Tinted
  <2>2. g \in Node0
    BY <1>6, <2>1, ReadsAre
  <2> QED BY <2>1, <2>2, SidesAre DEF rb_which, Tinted
<1>9. /\ Swung(s, t, S, top, w, q, pw, g) /\ Below(t, top, w, q, g)
      /\ \A m \in Node0 : rb_color(s, m) = rb_color(c, m)
      /\ \E v : Search(s, S, v)
      /\ Kept(s, t, S)
  <2> HIDE DEF w, pw
  <2>1. top = rb_child(t, q, w) /\ s = rb_rotate(c, top, w, q, pw, g)
    BY <1>8 DEF w
  <2>2. pw = rb_which(t, q, g) /\ g = rb_parent(t, q)
    BY <1>8 DEF pw
  <2> QED BY <1>1, <1>2, <1>5, <1>6, <2>1, <2>2, SwungIs
<1> HIDE DEF w, pw
<1>10. /\ near \in Node0 /\ short \in Node0
       /\ near # q /\ near # top /\ far # q /\ short # q /\ short # top
       /\ far # near /\ far # short /\ far = rb_child(t, top, w)
  BY <1>5, <1>6, <1>9 DEF Below, w
<1>11. /\ rb_color(s, q) = "BLACK" /\ rb_color(s, top) = rb_color(t, q) /\ rb_color(s, far) = "BLACK"
       /\ \A m \in Node0 : m # q /\ m # top /\ m # far => rb_color(s, m) = rb_color(t, m)
  BY <1>6, <1>9, <1>10
<1>12. NoRedRed(s, S, rbnull) /\ RootBlack(s)
  <2>1. \A m \in Node0 : m \notin {q, top, far} => rb_color(s, m) = rb_color(t, m)
    BY <1>11
  <2>2. rb_color(s, q) # "RED"
    BY <1>11
  <2>3. Shape(t, S, u)
    BY <1>4 DEF ShortFacts
  <2> QED BY <1>1, <1>9, <1>10, <1>11, <2>1, <2>2, <2>3, SwungColors
<1> DEFINE k == [h EXCEPT ![top] = h[q], ![q] = h[top], ![far] = h[far] + 1]
<1>13. /\ k \in [Node0 -> Nat] /\ k[top] = h[q] /\ k[q] = h[top] /\ k[far] = h[far] + 1
       /\ \A m \in Node0 : m # q /\ m # top /\ m # far => k[m] = h[m]
  <2>1. h \in [Node0 -> Nat]
    BY <1>4 DEF ShortFacts
  <2> QED BY <1>6, <1>10, <2>1
<1> HIDE DEF k
<1>14. Balanced(s, S, k, rbnull, x)
  <2>1. Black(t, top) = 1 /\ Black(s, q) = 1 /\ Black(s, top) = Black(t, q)
        /\ Black(s, far) = 1 /\ Black(t, far) = 0
    BY <1>11 DEF Black
  <2>2. h[top] = h[near] + 1 /\ h[top] = h[far] + 1 /\ h[near] \in Nat /\ h[far] \in Nat /\ h[short] \in Nat
    <3>1. top \in S \ {q}
      BY <1>6
    <3> QED BY <1>1, <1>4, <1>5, <2>1, <3>1, <1>10 DEF ShortFacts
  <2>3. k[q] = h[near] + Black(s, q) + 0 /\ k[q] = h[short] + Black(s, q) + 0
    BY <1>4, <1>13, <2>1, <2>2 DEF ShortFacts
  <2>4. k[top] = k[q] + Black(s, top) /\ k[top] = k[far] + Black(s, top)
    BY <1>4, <1>13, <2>1, <2>2 DEF ShortFacts
  <2>5. \A y \in Sides : k[far] = h[rb_child(t, far, y)] + Black(s, far)
    <3>1. far \in S \ {q}
      BY <1>6, <1>10
    <3>2. \A y \in Sides : h[far] = h[rb_child(t, far, y)] + 0 /\ h[rb_child(t, far, y)] \in Nat
      BY <1>4, <2>1, <3>1 DEF ShortFacts
    <3> QED BY <1>13, <2>1, <3>2
  <2>6. \A m \in Node0 : m \notin {q, top, far} => rb_color(s, m) = rb_color(t, m) /\ k[m] = h[m]
    BY <1>11, <1>13
  <2>7. k[q] = h[rb_child(t, top, Other(w))] + Black(s, q) + (IF q = rbnull /\ w = x THEN 1 ELSE 0)
    BY <1>5, <1>6, <2>3
  <2>8. k[q] = h[rb_child(t, q, Other(w))] + Black(s, q) + (IF q = rbnull /\ Other(w) = x THEN 1 ELSE 0)
    BY <1>5, <1>6, <2>3
  <2>9. rbnull # top /\ rbnull # far
    BY <1>6
  <2>10. \A m \in S, y \in Sides : m \notin {q, top, far} => ((m = q /\ y = x) <=> (m = rbnull /\ y = x))
    BY <1>4 DEF ShortFacts
  <2>11. Shape(t, S, u)
    BY <1>4 DEF ShortFacts
  <2>12. far = rbnull => k[far] = 0
    BY <1>6
  <2>13. Raised(t, S, h, q, x, s, k, rbnull, x, top, w, q, far)
    BY <1>13, <2>4, <2>5, <2>6, <2>7, <2>8, <2>9, <2>10, <2>12, Zenon DEF Raised
  <2> QED BY <1>3, <1>9, <1>10, <2>11, <2>13, SwungHeights
<1>15. Balanced(s, S, k, rbnull, LEFT)
  <2>1. rbnull \notin S
    BY <1>4 DEF ShortFacts
  <2> QED BY <1>14, <2>1 DEF Balanced
<1>16. Sound(s, S)
  BY <1>9, <1>12, <1>15 DEF Sound
<1> DEFINE z == set_color(s, s.root, "BLACK")
<1>17. IsTree(s) /\ s.root \in Node0 /\ S \in SUBSET Nodes /\ S \subseteq Node0
  BY <1>4, <1>9, ReadsAre DEF Swung, ShortFacts
<1>18. /\ Tinted(z, s)
       /\ \A m \in Node0 : rb_color(z, m) = IF m = s.root /\ s.root # rbnull THEN "BLACK" ELSE rb_color(s, m)
  BY <1>17, SetColorIs DEF Colors
<1> HIDE DEF z
<1>19. Sound(z, S)
  <2>1. \A m \in Node0 : rb_color(z, m) = rb_color(s, m)
    BY <1>12, <1>18 DEF RootBlack
  <2>2. /\ IsTree(z) /\ z.root = s.root
        /\ \A m \in S : rb_parent(z, m) = rb_parent(s, m) /\ rb_color(z, m) = rb_color(s, m)
                        /\ z.value[m] = s.value[m]
        /\ \A m \in S, y \in Sides : rb_child(z, m, y) = rb_child(s, m, y)
    BY <1>17, <1>18, <2>1 DEF Tinted
  <2> QED BY <1>16, <2>2, RestSound
<1>20. Kept(z, t, S)
  BY <1>9, <1>18, TintedKept, KeptTwice
<1> QED BY <1>19, <1>20 DEF z

(* After n rounds: one side of parent is short, and has more than n nodes  *)
(* under parent; or no parent is left and the tree is sound.               *)
Deleting(s, S, n) ==
  /\ s = [tree |-> s.tree, parent |-> s.parent, which |-> s.which]
  /\ s.parent \in S \cup {rbnull} /\ s.which \in Sides
  /\ s.parent = rbnull => Sound(s.tree, S)
  /\ s.parent # rbnull =>
       /\ Short(s.tree, S, s.parent, s.which)
       /\ \E u : Search(s.tree, S, u) /\ Cardinality(u[s.parent]) > n

LEMMA RecolorIs ==
  ASSUME NEW t, NEW S, NEW q, NEW x, Short(t, S, q, x),
         NEW b, b = rb_child(t, q, Other(x)), rb_color(t, b) = "BLACK",
         \A y \in Sides : rb_color(t, rb_child(t, b, y)) = "BLACK",
         NEW u, Search(t, S, u), NEW n \in Nat, rb_color(t, q) = "RED" \/ Cardinality(u[q]) > n
  PROVE  Deleting(Recolor(t, q, b), S, n + 1) /\ Kept(Recolor(t, q, b).tree, t, S)
<1> DEFINE short == rb_child(t, q, x)
           g == rb_parent(t, q)
           red == set_color(t, b, "RED")
           both == set_color(red, q, "BLACK")
<1>1. q \in S /\ x \in Sides /\ NoRedRed(t, S, rbnull) /\ RootBlack(t) /\ rb_color(t, short) = "BLACK"
  BY DEF Short
<1>2. PICK h : Balanced(t, S, h, q, x)
  BY DEF Short
<1>3. ShortFacts(t, S, u, h, q, x, b)
  BY <1>1, <1>2, ShortIs
<1>4. /\ IsTree(t) /\ Shape(t, S, u) /\ q \in Node0 /\ q # rbnull /\ b \in Node0 /\ b # rbnull /\ b # q
      /\ b \in S /\ t.root \in Node0
  BY <1>1, <1>3, ReadsAre DEF ShortFacts
<1>5. Other(x) \in Sides /\ Other(x) # x /\ \A y \in Sides : y = x \/ y = Other(x)
  BY <1>1, OthersAre
<1>6. /\ Tinted(red, t) /\ IsTree(red)
      /\ \A m \in Node0 : rb_color(red, m) = IF m = b THEN "RED" ELSE rb_color(t, m)
  <2>1. /\ Tinted(red, t)
        /\ \A m \in Node0 : rb_color(red, m) = IF m = b /\ b # rbnull THEN "RED" ELSE rb_color(t, m)
    BY <1>4, SetColorIs DEF Colors
  <2> QED BY <1>4, <2>1 DEF Tinted
<1>7. \A m \in S, y \in Sides : rb_child(t, m, y) = b => m = q /\ y = Other(x)
  BY <1>1, <1>4, <1>5, OnlyChild
<1>8. b # t.root
  BY <1>1, <1>4, <1>5, FamilyIs
<1>9. \A m \in S, y \in Sides : rb_child(t, m, y) \in Node0 /\ m \in Node0 /\ m # rbnull
  BY <1>3 DEF ShortFacts
<1>10. h[b] = h[short] + 1 /\ h[short] \in Nat /\ h[b] \in Nat /\ h[q] \in Nat /\ Black(t, q) \in Nat
       /\ h[q] = h[b] + Black(t, q) /\ h \in [Node0 -> Nat] /\ h[rbnull] = 0
       /\ \A y \in Sides : h[b] = h[rb_child(t, b, y)] + 1 /\ h[rb_child(t, b, y)] \in Nat
  <2>1. Black(t, b) = 1
    BY DEF Black
  <2>2. b \in S \ {q}
    BY <1>4
  <2> QED BY <1>1, <1>3, <2>1, <2>2 DEF ShortFacts
<1>11. CASE rb_color(t, q) = "RED"
  <2>1. /\ Tinted(both, t) /\ IsTree(both)
        /\ \A m \in Node0 : rb_color(both, m) = IF m = q THEN "BLACK" ELSE IF m = b THEN "RED" ELSE rb_color(t, m)
    <3> HIDE DEF red
    <3>1. /\ Tinted(both, red)
          /\ \A m \in Node0 : rb_color(both, m) = IF m = q /\ q # rbnull THEN "BLACK" ELSE rb_color(red, m)
      BY <1>4, <1>6, SetColorIs DEF Colors
    <3>2. Tinted(both, t)
      BY <1>6, <3>1, TintedTwice
    <3> QED BY <1>4, <1>6, <3>1, <3>2 DEF Tinted
  <2>2. Recolor(t, q, b) = [tree |-> both, parent |-> rbnull, which |-> LEFT]
    BY <1>11 DEF Recolor
  <2> HIDE DEF both, red
  <2>3. Search(both, S, u) /\ Kept(both, t, S)
    BY <1>4, <2>1, TintedShape, TintedOrder, TintedKept DEF Search, Shape
  <2>4. \A m \in S, y \in Sides : rb_child(both, m, y) = rb_child(t, m, y)
    BY <1>9, <2>1 DEF Tinted
  <2>5. NoRedRed(both, S, rbnull)
    <3>1. ASSUME NEW m \in S, NEW y \in Sides, rb_color(both, m) = "RED",
                 rb_color(both, rb_child(both, m, y)) = "RED"
          PROVE  FALSE
      <4> DEFINE c == rb_child(t, m, y)
      <4>1. c = rb_child(both, m, y) /\ c \in Node0 /\ m \in Node0
        BY <1>9, <2>4
      <4>2. c # q /\ m # q
        BY <2>1, <3>1, <4>1
      <4>3. c # b
        BY <1>7, <4>2
      <4>4. rb_color(t, c) = "RED"
        BY <2>1, <3>1, <4>1, <4>2, <4>3
      <4>5. m # b
        BY <4>4
      <4>6. rb_color(t, m) = "RED"
        BY <2>1, <3>1, <4>1, <4>2, <4>5
      <4>7. c = rbnull
        BY <1>1, <4>4, <4>6 DEF NoRedRed
      <4> QED BY <4>4, <4>7 DEF rb_color
    <3> QED BY <3>1 DEF NoRedRed
  <2>6. RootBlack(both)
    BY <1>1, <1>4, <1>8, <2>1 DEF RootBlack, Tinted
  <2> DEFINE k == [h EXCEPT ![b] = h[short]]
  <2>7. Balanced(both, S, k, rbnull, LEFT)
    <3>1. k \in [Node0 -> Nat] /\ k[b] = h[short] /\ \A m \in Node0 : m # b => k[m] = h[m]
      BY <1>4, <1>10
    <3> HIDE DEF k
    <3>2. ASSUME NEW m \in S, NEW y \in Sides
          PROVE  k[m] = k[rb_child(both, m, y)] + Black(both, m) + 0 /\ m # rbnull
      <4> DEFINE c == rb_child(t, m, y)
      <4>1. c = rb_child(both, m, y) /\ c \in Node0 /\ m \in Node0 /\ m # rbnull /\ h[c] \in Nat
        BY <1>9, <1>10, <2>4
      <4>2. CASE m = b
        <5>1. Black(both, m) = 0 /\ h[b] = h[c] + 1 /\ c # b
          BY <1>4, <1>7, <1>10, <2>1, <4>1, <4>2 DEF Black
        <5> QED BY <1>10, <3>1, <4>1, <4>2, <5>1
      <4>3. CASE m = q
        <5>1. Black(both, m) = 1 /\ Black(t, m) = 0
          BY <1>4, <1>11, <2>1, <4>3 DEF Black
        <5>2. (c = short /\ short # b) \/ c = b
          BY <1>4, <1>5, <1>7, <4>3
        <5> QED BY <1>4, <1>10, <3>1, <4>1, <4>3, <5>1, <5>2
      <4>4. CASE m # b /\ m # q
        <5>1. Black(both, m) = Black(t, m) /\ Black(t, m) \in Nat
          BY <2>1, <4>1, <4>4 DEF Black
        <5>2. h[m] = h[c] + Black(t, m)
          BY <1>3, <4>4 DEF ShortFacts
        <5>3. c # b
          BY <1>7, <4>4
        <5> QED BY <3>1, <4>1, <4>4, <5>1, <5>2, <5>3
      <4> QED BY <4>2, <4>3, <4>4
    <3>3. k[rbnull] = 0
      BY <1>4, <1>10, <3>1, ReadsAre DEF Node0
    <3> QED BY <3>1, <3>2, <3>3 DEF Balanced
  <2>8. Sound(both, S)
    <3> HIDE DEF k
    <3> QED BY <2>3, <2>5, <2>6, <2>7 DEF Sound
  <2> DEFINE r == [tree |-> both, parent |-> rbnull, which |-> LEFT]
  <2>9. r = [tree |-> r.tree, parent |-> r.parent, which |-> r.which] /\ r.tree = both /\ r.parent = rbnull
        /\ r.which \in Sides
    BY SidesAre
  <2> HIDE DEF r
  <2>10. Deleting(r, S, n + 1) /\ Kept(r.tree, t, S)
    BY <2>3, <2>8, <2>9 DEF Deleting
  <2> QED BY <2>2, <2>10 DEF r
<1>12. CASE rb_color(t, q) # "RED"
  <2> DEFINE y0 == rb_which(t, q, g)
             r == [tree |-> red, parent |-> g, which |-> y0]
  <2>1. Recolor(t, q, b) = r
    BY <1>12 DEF Recolor
  <2>2. rb_color(t, q) = "BLACK" /\ g \in Node0 /\ y0 \in Sides
    BY <1>4, <1>12, ReadsAre DEF Colors
  <2> HIDE DEF red
  <2>3. Search(red, S, u) /\ Kept(red, t, S)
    BY <1>4, <1>6, TintedShape, TintedOrder, TintedKept DEF Search, Shape
  <2>4. \A m \in S, y \in Sides : rb_child(red, m, y) = rb_child(t, m, y)
    BY <1>9, <1>6 DEF Tinted
  <2>5. NoRedRed(red, S, rbnull)
    <3>1. ASSUME NEW m \in S, NEW y \in Sides, rb_color(red, m) = "RED",
                 rb_color(red, rb_child(red, m, y)) = "RED"
          PROVE  FALSE
      <4> DEFINE c == rb_child(t, m, y)
      <4>1. c = rb_child(red, m, y) /\ c \in Node0 /\ m \in Node0
        BY <1>9, <2>4
      <4>2. m # q
        BY <1>4, <1>6, <2>2, <3>1
      <4>3. c # b
        BY <1>7, <4>2
      <4>4. rb_color(t, c) = "RED"
        BY <1>6, <3>1, <4>1, <4>3
      <4>5. m # b
        BY <4>4
      <4>6. rb_color(t, m) = "RED"
        BY <1>6, <3>1, <4>1, <4>5
      <4>7. c = rbnull
        BY <1>1, <4>4, <4>6 DEF NoRedRed
      <4> QED BY <4>4, <4>7 DEF rb_color
    <3> QED BY <3>1 DEF NoRedRed
  <2>6. RootBlack(red)
    BY <1>1, <1>4, <1>6, <1>8 DEF RootBlack, Tinted
  <2> DEFINE k == [h EXCEPT ![b] = h[short], ![q] = h[b]]
  <2>7. k \in [Node0 -> Nat] /\ k[b] = h[short] /\ k[q] = h[b]
        /\ \A m \in Node0 : m # b /\ m # q => k[m] = h[m]
    BY <1>4, <1>10
  <2> HIDE DEF k
  <2>8. g # rbnull => g \in S /\ rb_child(t, g, y0) = q
    <3>1. ASSUME g # rbnull PROVE g \in S /\ rb_child(t, g, y0) = q
      <4>1. q # t.root
        BY <1>1, <1>4, <3>1, FamilyIs
      <4> HIDE DEF g
      <4>2. g = rb_parent(t, q)
        BY DEF g
      <4> HIDE DEF y0
      <4>3. y0 = rb_which(t, q, g)
        BY DEF y0
      <4> QED BY <1>1, <1>4, <4>1, <4>2, <4>3, ParentIs
    <3> QED BY <3>1
  <2>9. \A m \in S, y \in Sides : rb_child(t, m, y) = q => m = g /\ y = y0
    <3>1. ASSUME NEW m \in S, NEW y \in Sides, rb_child(t, m, y) = q PROVE m = g /\ y = y0
      <4>1. m = g /\ g # rbnull
        BY <1>4, <1>9, <3>1, FamilyIs
      <4> HIDE DEF y0, g
      <4> QED BY <1>4, <2>2, <2>8, <3>1, <4>1, OnlyChild
    <3> QED BY <3>1
  <2>10. Balanced(red, S, k, g, y0)
    <3> HIDE DEF g, y0, short
    <3>1. ASSUME NEW m \in S, NEW y \in Sides
          PROVE  k[m] = k[rb_child(red, m, y)] + Black(red, m) + (IF m = g /\ y = y0 THEN 1 ELSE 0)
      <4> DEFINE c == rb_child(t, m, y)
      <4>1. c = rb_child(red, m, y) /\ c \in Node0 /\ m \in Node0 /\ m # rbnull /\ h[c] \in Nat
            /\ k[c] \in Nat
        BY <1>9, <1>10, <2>4, <2>7
      <4>2. c = q => m = g /\ y = y0
        BY <2>9
      <4>3. c = b => m = q /\ y = Other(x)
        BY <1>7
      <4>4. m = g /\ y = y0 => c = q
        BY <2>8, <4>1
      <4> HIDE DEF c
      <4>5. CASE m = b
        <5>1. Black(red, m) = 0 /\ h[b] = h[c] + 1 /\ c # b
          BY <1>4, <1>6, <1>10, <4>1, <4>3, <4>5 DEF Black, c
        <5>2. c # q
          <6>1. c = q => rb_parent(t, q) = b /\ rb_parent(t, b) = q
            BY <1>1, <1>4, <1>5, <4>5, FamilyIs DEF c
          <6>2. ASSUME c = q PROVE FALSE
            <7>1. u[q] \subseteq u[b] /\ q \notin u[b] /\ q \in u[q]
              BY <1>1, <1>4, <1>5, <4>5, <6>2, FamilyIs DEF c
            <7> QED BY <7>1
          <6> QED BY <6>2
        <5>3. ~ (m = g /\ y = y0)
          BY <4>4, <5>2
        <5>4. k[m] = h[short] /\ k[c] = h[c]
          BY <2>7, <4>1, <4>5, <5>1, <5>2
        <5>5. h[c] = h[short]
          BY <1>10, <4>1, <5>1
        <5> QED BY <1>10, <4>1, <5>1, <5>3, <5>4, <5>5
      <4>6. CASE m = q
        <5>1. Black(red, m) = 1
          BY <1>4, <1>6, <2>2, <4>6 DEF Black
        <5>2. c = short \/ c = b
          BY <1>5, <4>6 DEF c, short
        <5>3. c # q
          BY <1>1, <1>4, <4>6, FamilyIs DEF c
        <5>4. k[c] = h[short]
          BY <2>7, <4>1, <5>2, <5>3
        <5>5. ~ (m = g /\ y = y0)
          BY <4>4, <5>3
        <5> QED BY <1>10, <2>7, <4>1, <4>6, <5>1, <5>4, <5>5
      <4>7. CASE m # b /\ m # q
        <5>1. Black(red, m) = Black(t, m) /\ Black(t, m) \in Nat
          BY <1>6, <4>1, <4>7 DEF Black
        <5>2. h[m] = h[c] + Black(t, m)
          BY <1>3, <4>7 DEF ShortFacts, c
        <5>3. c # b /\ k[m] = h[m]
          BY <2>7, <4>1, <4>3, <4>7
        <5>4. CASE c = q
          <6>1. h[q] = k[q] + 1 /\ k[q] \in Nat
            BY <1>10, <2>2, <2>7 DEF Black
          <6> QED BY <4>1, <4>2, <5>1, <5>2, <5>3, <5>4, <6>1
        <5>5. CASE c # q
          <6>1. k[c] = h[c] /\ ~ (m = g /\ y = y0)
            BY <2>7, <4>1, <4>4, <5>3, <5>5
          <6> QED BY <4>1, <5>1, <5>2, <5>3, <6>1
        <5> QED BY <5>4, <5>5
      <4> QED BY <4>5, <4>6, <4>7
    <3>2. k[rbnull] = 0
      BY <1>4, <1>10, <2>7, ReadsAre DEF Node0
    <3> QED BY <2>7, <3>1, <3>2 DEF Balanced
  <2>11. ASSUME g = rbnull PROVE Sound(red, S)
    <3>1. Balanced(red, S, k, rbnull, LEFT)
      BY <1>9, <2>10, <2>11 DEF Balanced
    <3> QED BY <2>3, <2>5, <2>6, <3>1 DEF Sound
  <2>12. ASSUME g # rbnull PROVE Short(red, S, g, y0) /\ Cardinality(u[g]) > n + 1
    <3>1. rb_color(red, rb_child(red, g, y0)) = "BLACK"
      <4>1. rb_child(red, g, y0) = q
        BY <2>2, <2>4, <2>8, <2>12
      <4> QED BY <1>4, <1>6, <2>2, <4>1
    <3>2. Cardinality(u[q]) < Cardinality(u[g])
      BY <1>4, <2>2, <2>8, <2>12, MoreUnder
    <3>3. Cardinality(u[q]) \in Nat /\ Cardinality(u[g]) \in Nat
      <4>1. u[q] \in SUBSET Nodes /\ u[g] \in SUBSET Nodes
        BY <1>4, <2>2 DEF Shape
      <4> QED BY <4>1, FewNodes
    <3> HIDE DEF g, y0
    <3>4. Cardinality(u[g]) > n + 1
      BY <1>12, <3>2, <3>3
    <3> QED BY <2>2, <2>3, <2>5, <2>6, <2>8, <2>10, <2>12, <3>1, <3>4 DEF Short
  <2>13. /\ r = [tree |-> r.tree, parent |-> r.parent, which |-> r.which]
         /\ r.tree = red /\ r.parent = g /\ r.which = y0
    OBVIOUS
  <2> HIDE DEF r, g, y0
  <2>14. Deleting(r, S, n + 1) /\ Kept(r.tree, t, S)
    BY <2>2, <2>3, <2>8, <2>11, <2>12, <2>13 DEF Deleting
  <2> QED BY <2>1, <2>14
<1> QED BY <1>11, <1>12

LEMMA DeleteRound ==
  ASSUME NEW s, NEW S, NEW n \in Nat, Deleting(s, S, n)
  PROVE  Deleting(DeleteFixup(s), S, n + 1) /\ Kept(DeleteFixup(s).tree, s.tree, S)
<1> DEFINE t0 == s.tree
           q == s.parent
           x == s.which
           old == rb_child(t0, q, Other(x))
           grand == rb_parent(t0, q)
           colored == set_color(set_color(t0, old, "BLACK"), q, "RED")
           t == IF rb_color(t0, old) = "RED"
                THEN rb_rotate(colored, old, Other(x), q, rb_which(colored, q, grand), grand)
                ELSE t0
           b == rb_child(t, q, Other(x))
           r == DeleteFixup(s)
<1>1. r = IF q = rbnull THEN s
          ELSE IF \A y \in Sides : rb_color(t, rb_child(t, b, y)) = "BLACK"
          THEN Recolor(t, q, b) ELSE Borrow(t, q, x, b)
  BY DEF DeleteFixup
<1>2. CASE q = rbnull
  <2>1. r = s
    BY <1>1, <1>2
  <2>2. Deleting(s, S, n + 1)
    BY <1>2 DEF Deleting
  <2> QED BY <2>1, <2>2 DEF Kept
<1>3. CASE q # rbnull
  <2>1. Short(t0, S, q, x) /\ \E u : Search(t0, S, u) /\ Cardinality(u[q]) > n
    BY <1>3 DEF Deleting
  <2>2. \A m \in Node0 : rb_color(t0, m) = "RED" \/ rb_color(t0, m) = "BLACK"
    <3>1. IsTree(t0)
      BY <2>1 DEF Short, Search, Shape
    <3> QED BY <3>1, ReadsAre DEF Colors
  <2>3. old \in Node0
    <3>1. q \in Node0 /\ Other(x) \in Sides /\ IsTree(t0)
      BY <2>1, OthersAre DEF Short, Search, Shape, Node0
    <3> QED BY <3>1, ReadsAre
  <2>4. /\ Short(t, S, q, x) /\ Kept(t, t0, S) /\ rb_color(t, b) = "BLACK"
        /\ \E u : Search(t, S, u) /\ (rb_color(t, q) = "RED" \/ Cardinality(u[q]) > n)
    <3>1. CASE rb_color(t0, old) = "RED"
      <4>1. t = rb_rotate(colored, old, Other(x), q, rb_which(colored, q, grand), grand)
        BY <3>1
      <4> HIDE DEF t, x, q
      <4>2. Short(t, S, q, x) /\ Kept(t, t0, S) /\ rb_color(t, q) = "RED"
            /\ rb_color(t, rb_child(t, q, Other(x))) = "BLACK"
        BY <2>1, <3>1, <4>1, RedBrother
      <4>3. \E u : Search(t, S, u)
        BY <4>2 DEF Short
      <4> QED BY <4>2, <4>3
    <3>2. CASE rb_color(t0, old) # "RED"
      <4>1. t = t0 /\ b = old
        BY <3>2
      <4>2. rb_color(t0, old) = "BLACK"
        BY <2>2, <2>3, <3>2
      <4> HIDE DEF t, b, old
      <4> QED BY <2>1, <4>1, <4>2 DEF Kept
    <3> QED BY <3>1, <3>2
  <2> HIDE DEF t
  <2>5. CASE \A y \in Sides : rb_color(t, rb_child(t, b, y)) = "BLACK"
    <3>1. r = Recolor(t, q, b)
      BY <1>1, <1>3, <2>5
    <3>2. PICK u : Search(t, S, u) /\ (rb_color(t, q) = "RED" \/ Cardinality(u[q]) > n)
      BY <2>4
    <3> DEFINE z == Recolor(t, q, b)
    <3>3. Deleting(z, S, n + 1) /\ Kept(z.tree, t, S)
      BY <2>4, <2>5, <3>2, RecolorIs
    <3> HIDE DEF z, r
    <3>4. Kept(z.tree, t0, S)
      BY <2>4, <3>3, KeptTwice
    <3> QED BY <3>1, <3>3, <3>4 DEF z, r
  <2>6. CASE ~ \A y \in Sides : rb_color(t, rb_child(t, b, y)) = "BLACK"
    <3> DEFINE near == rb_child(t, b, x)
               far == rb_child(t, b, Other(x))
               turn == rb_color(t, far) = "BLACK"
               turned == IF turn
                         THEN rb_rotate(set_color(set_color(t, b, "RED"), near, "BLACK"), near, x, b, Other(x), q)
                         ELSE t
               top == IF turn THEN near ELSE b
               color1 == set_color(turned, top, rb_color(turned, q))
               color2 == set_color(color1, q, "BLACK")
               color3 == set_color(color2, rb_child(color2, top, Other(x)), "BLACK")
               gr == rb_parent(color3, q)
               up == rb_rotate(color3, top, Other(x), q, rb_which(color3, q, gr), gr)
               a == set_color(up, up.root, "BLACK")
    <3>1. r = Borrow(t, q, x, b)
      BY <1>1, <1>3, <2>6
    <3>2. Borrow(t, q, x, b) = [tree |-> a, parent |-> rbnull, which |-> LEFT]
      BY DEF Borrow
    <3> HIDE DEF r
    <3>3. x \in Sides /\ q \in S
      BY <2>1 DEF Short
    <3>4. near \in Node0 /\ far \in Node0 /\ (rb_color(t, near) = "RED" \/ rb_color(t, far) = "RED")
          /\ (rb_color(t, far) = "RED" \/ rb_color(t, far) = "BLACK")
      <4>1. Other(x) \in Sides /\ \A y \in Sides : y = x \/ y = Other(x)
        BY <3>3, OthersAre
      <4>2. IsTree(t) /\ q \in Node0
        BY <2>4, <3>3 DEF Short, Search, Shape, Node0
      <4>3. b \in Node0
        BY <4>1, <4>2, ReadsAre
      <4>4. near \in Node0 /\ far \in Node0 /\ rb_color(t, near) \in Colors /\ rb_color(t, far) \in Colors
        BY <3>3, <4>1, <4>2, <4>3, ReadsAre
      <4> QED BY <2>6, <4>1, <4>4 DEF Colors
    <3>5. /\ Short(turned, S, q, x) /\ Kept(turned, t, S) /\ rb_child(turned, q, Other(x)) = top
          /\ rb_color(turned, top) = "BLACK" /\ rb_color(turned, rb_child(turned, top, Other(x))) = "RED"
      <4>1. CASE turn
        <5>1. top = near /\ rb_color(t, near) = "RED" /\ rb_color(t, far) = "BLACK"
              /\ turned = rb_rotate(set_color(set_color(t, b, "RED"), near, "BLACK"), near, x, b, Other(x), q)
          BY <3>4, <4>1
        <5> HIDE DEF turned, top, x, q
        <5>2. /\ Short(turned, S, q, x) /\ Kept(turned, t, S) /\ rb_child(turned, q, Other(x)) = near
              /\ rb_color(turned, near) = "BLACK" /\ rb_color(turned, rb_child(turned, near, Other(x))) = "RED"
          BY <2>4, <5>1, BorrowTurn
        <5> QED BY <5>1, <5>2
      <4>2. CASE ~ turn
        <5>1. turned = t /\ top = b /\ rb_color(t, far) = "RED"
          BY <3>4, <4>2
        <5> HIDE DEF turned, top, x, q
        <5> QED BY <2>4, <5>1 DEF Kept
      <4> QED BY <4>1, <4>2
    <3> DEFINE end == rb_child(turned, top, Other(x))
    <3>6. /\ IsTree(turned) /\ q \in Node0 /\ q # rbnull /\ top \in Node0 /\ top # rbnull
          /\ Other(x) \in Sides /\ end \in Node0 /\ end # rbnull
      <4> HIDE DEF turned, top, q, x
      <4>1. PICK u : Search(turned, S, u)
        BY <3>5 DEF Short
      <4>2. IsTree(turned) /\ q \in Node0 /\ q # rbnull /\ Other(x) \in Sides
        BY <1>3, <3>3, <4>1, OthersAre DEF Search, Shape, Node0
      <4>3. top \in Node0 /\ end \in Node0
        BY <3>5, <4>2, ReadsAre
      <4>4. end # rbnull
        BY <3>5 DEF rb_color
      <4>5. rb_child(turned, rbnull, Other(x)) = rbnull
        BY DEF rb_child
      <4> QED BY <4>2, <4>3, <4>4, <4>5
    <3> HIDE DEF turned, top, q, x
    <3>7. /\ Tinted(color3, turned)
          /\ \A m \in Node0 : rb_color(color3, m) = IF m = end \/ m = q THEN "BLACK"
                                                    ELSE IF m = top THEN rb_color(turned, q)
                                                    ELSE rb_color(turned, m)
      <4> HIDE DEF end
      <4>1. end = rb_child(turned, top, Other(x))
        BY DEF end
      <4> QED BY <3>6, <4>1, BorrowColors
    <3> HIDE DEF color3
    <3>8. Sound(a, S) /\ Kept(a, turned, S)
      <4> HIDE DEF up, gr
      <4>1. gr = rb_parent(color3, q) /\ up = rb_rotate(color3, top, Other(x), q, rb_which(color3, q, gr), gr)
        BY DEF up, gr
      <4> QED BY <3>5, <3>7, <4>1, BorrowTop
    <3> HIDE DEF a
    <3> DEFINE z == [tree |-> a, parent |-> rbnull, which |-> LEFT]
    <3>9. z = [tree |-> z.tree, parent |-> z.parent, which |-> z.which] /\ z.tree = a /\ z.parent = rbnull
          /\ z.which \in Sides
      BY SidesAre
    <3>10. r = z
      BY <3>1, <3>2
    <3> HIDE DEF z, r
    <3>11. Kept(a, t0, S)
      BY <2>4, <3>5, <3>8, KeptTwice
    <3>12. Deleting(z, S, n + 1) /\ Kept(z.tree, t0, S)
      BY <3>8, <3>9, <3>11 DEF Deleting
    <3> QED BY <3>10, <3>12 DEF r
  <2> QED BY <2>5, <2>6
<1> QED BY <1>2, <1>3

LEMMA DeleteFixupIs ==
  ASSUME NEW t, NEW S, NEW q, NEW x, Deleting([tree |-> t, parent |-> q, which |-> x], S, 0)
  PROVE  Sound(rb_delete_fixup(t, q, x), S) /\ Kept(rb_delete_fixup(t, q, x), t, S)
<1> DEFINE s == [tree |-> t, parent |-> q, which |-> x]
           X == [tree : TreeSet, parent : Node0, which : Sides]
           Good == [k \in Nat |-> {y \in X : Deleting(y, S, k) /\ Kept(y.tree, t, S)}]
           F == [y \in X |-> DeleteFixup(y)]
           after == CHOOSE g : g = [k \in 0 .. Rounds |-> IF k = 0 THEN s ELSE DeleteFixup(g[k - 1])]
<1>1. rb_delete_fixup(t, q, x) = after[Rounds].tree
  BY DEF rb_delete_fixup, Loop
<1>2. ASSUME NEW y, NEW k \in Nat, Deleting(y, S, k) PROVE y \in X
  <2>1. PICK u : Shape(y.tree, S, u)
    BY <1>2 DEF Deleting, Search, Sound, Short
  <2>2. y.tree \in TreeSet /\ y.parent \in Node0 /\ y.which \in Sides
    BY <1>2, <2>1, TreesAre DEF Shape, Deleting, Node0
  <2> QED BY <1>2, <2>2 DEF Deleting
<1>3. s \in Good[0]
  <2>1. s \in X
    BY <1>2
  <2> QED BY <2>1 DEF Kept
<1>4. ASSUME NEW k \in 0 .. Rounds, NEW y \in Good[k]
      PROVE  DeleteFixup(y) \in Good[k + 1] /\ F[y] = DeleteFixup(y)
  <2>1. k \in Nat /\ k + 1 \in Nat
    BY RoundsIs
  <2>2. y \in X /\ Deleting(y, S, k) /\ Kept(y.tree, t, S)
    BY <1>4, <2>1
  <2> DEFINE z == DeleteFixup(y)
  <2>3. Deleting(z, S, k + 1) /\ Kept(z.tree, y.tree, S)
    BY <2>1, <2>2, DeleteRound
  <2> HIDE DEF z
  <2>4. z \in X /\ Kept(z.tree, t, S)
    BY <1>2, <2>1, <2>2, <2>3, KeptTwice
  <2>5. z \in Good[k + 1]
    BY <2>1, <2>3, <2>4
  <2> QED BY <2>2, <2>5 DEF z
<1>5. PICK g : IsIteration(g, Rounds, F, Good, s)
  <2>1. StaysGood(F, Good, Rounds)
    <3> HIDE DEF F, Good
    <3> QED BY <1>4 DEF StaysGood
  <2> HIDE DEF F, Good, s
  <2> QED BY <1>3, <2>1, Iterates, RoundsIs
<1>6. after = [k \in 0 .. Rounds |-> IF k = 0 THEN s ELSE DeleteFixup(after[k - 1])]
  <2>1. ASSUME NEW k \in 0 .. Rounds, k # 0 PROVE F[g[k - 1]] = DeleteFixup(g[k - 1])
    <3>1. k - 1 \in 0 .. Rounds
      BY <2>1, RoundsIs
    <3> HIDE DEF F, Good
    <3> QED BY <1>4, <1>5, <3>1 DEF IsIteration
  <2>2. g = [k \in 0 .. Rounds |-> IF k = 0 THEN s ELSE DeleteFixup(g[k - 1])]
    <3> HIDE DEF F, Good, s
    <3> QED BY <1>5, <2>1 DEF IsIteration
  <2> QED BY <2>2, Zenon
<1> DEFINE K == {k \in 0 .. Rounds : after[k] \in Good[k]}
<1>7. Rounds \in K
  <2> HIDE DEF after, Good, F, s
  <2>1. 0 \in K
    BY <1>3, <1>6, RoundsIs
  <2>2. ASSUME NEW k \in 1 .. Rounds, k - 1 \in K PROVE k \in K
    <3>1. k - 1 \in 0 .. Rounds /\ (k - 1) + 1 = k /\ k \in 0 .. Rounds /\ k # 0
      BY RoundsIs
    <3>2. after[k] = DeleteFixup(after[k - 1])
      BY <1>6, <3>1
    <3>3. DeleteFixup(after[k - 1]) \in Good[(k - 1) + 1]
      BY <1>4, <2>2, <3>1
    <3> QED BY <3>1, <3>2, <3>3
  <2> HIDE DEF K
  <2> QED BY <2>1, <2>2, EachRound, RoundsIs
<1> DEFINE z == after[Rounds]
<1>8. Deleting(z, S, Rounds) /\ Kept(z.tree, t, S)
  BY <1>7, RoundsIs
<1> HIDE DEF after, z
<1>9. z.parent = rbnull
  <2>1. ASSUME z.parent # rbnull PROVE FALSE
    <3>1. PICK u : Shape(z.tree, S, u) /\ Cardinality(u[z.parent]) > Rounds
      BY <1>8, <2>1 DEF Deleting, Search
    <3>2. z.parent \in S
      BY <1>8, <2>1 DEF Deleting
    <3>3. u[z.parent] \in SUBSET Nodes
      BY <3>1, <3>2 DEF Shape, Node0
    <3>4. Cardinality(u[z.parent]) <= Cardinality(Nodes) /\ Cardinality(u[z.parent]) \in Nat
          /\ Cardinality(Nodes) \in Nat
      BY <3>3, FewNodes
    <3> QED BY <3>1, <3>4, RoundsIs
  <2> QED BY <2>1
<1>10. Sound(z.tree, S)
  BY <1>8, <1>9 DEF Deleting
<1>11. rb_delete_fixup(t, q, x) = z.tree
  BY <1>1 DEF z
<1> QED BY <1>8, <1>10, <1>11

-----------------------------------------------------------------------------
(* rb_delete.                                                              *)

(* L has lost a node of this color, above c.                               *)
Missing(L, S, q, x, color) ==
  /\ q \in S /\ x \in Sides /\ color \in Colors
  /\ \E u : Search(L, S, u)
  /\ \E h : Balanced(L, S, h, IF color = "RED" THEN rbnull ELSE q, x)
  /\ NoRedRed(L, S, IF color = "RED" THEN rbnull ELSE rb_child(L, q, x)) /\ RootBlack(L)

LEMMA OneLess ==
  ASSUME NEW L, NEW S, NEW q, NEW x, NEW color, Missing(L, S, q, x, color),
         NEW c, c = rb_child(L, q, x), NEW t, link(t, q, x, c) = L
  PROVE  /\ Sound(rb_delete_with_at_most_one_child(t, c, q, x, color), S)
         /\ Kept(rb_delete_with_at_most_one_child(t, c, q, x, color), L, S)
<1> DEFINE d == rb_delete_with_at_most_one_child(t, c, q, x, color)
           black == set_color(L, c, "BLACK")
<1>1. d = IF color = "RED" THEN L
          ELSE IF rb_color(L, c) = "RED" THEN black
          ELSE rb_delete_fixup(L, q, x)
  BY DEF rb_delete_with_at_most_one_child
<1>2. q \in S /\ x \in Sides /\ color \in Colors /\ RootBlack(L)
  BY DEF Missing
<1>3. PICK u : Search(L, S, u)
  BY DEF Missing
<1>4. PICK h : Balanced(L, S, h, IF color = "RED" THEN rbnull ELSE q, x)
  BY DEF Missing
<1>5. /\ IsTree(L) /\ S \in SUBSET Nodes /\ rbnull \notin S /\ S \subseteq Node0 /\ rbnull \in Node0
      /\ Shape(L, S, u) /\ Ordered(L, S, u) /\ q # rbnull /\ L.root \in Node0
  BY <1>2, <1>3, NodesAssumption DEF Search, Shape, Node0
<1>6. \A m \in S, y \in Sides : rb_child(L, m, y) \in Node0 /\ m \in Node0 /\ m # rbnull
  BY <1>5, ReadsAre
<1>7. c \in Node0
  BY <1>2, <1>6
<1> HIDE DEF d
<1>8. CASE color = "RED"
  <2>1. d = L
    BY <1>1, <1>8
  <2>2. Balanced(L, S, h, rbnull, LEFT)
    BY <1>4, <1>6, <1>8 DEF Balanced
  <2>3. NoRedRed(L, S, rbnull)
    BY <1>8 DEF Missing
  <2>4. Sound(L, S)
    BY <1>2, <1>3, <2>2, <2>3 DEF Sound
  <2> QED BY <2>1, <2>4 DEF Kept, d
<1>9. CASE color # "RED" /\ rb_color(L, c) = "RED"
  <2>1. d = black
    BY <1>1, <1>9
  <2>2. c # rbnull /\ c \in S /\ c # L.root
    <3>1. c # rbnull
      BY <1>9 DEF rb_color
    <3> QED BY <1>2, <1>5, <3>1, FamilyIs
  <2>3. /\ Tinted(black, L)
        /\ \A m \in Node0 : rb_color(black, m) = IF m = c /\ c # rbnull THEN "BLACK" ELSE rb_color(L, m)
    BY <1>5, <1>7, SetColorIs DEF Colors
  <2> HIDE DEF black
  <2>4. Search(black, S, u) /\ Kept(black, L, S)
    BY <1>5, <2>3, TintedShape, TintedOrder, TintedKept DEF Search
  <2>5. \A m \in S, y \in Sides : /\ rb_child(black, m, y) = rb_child(L, m, y)
                                  /\ (rb_child(L, m, y) = c => m = q /\ y = x)
    <3>1. \A m \in S, y \in Sides : rb_child(black, m, y) = rb_child(L, m, y)
      BY <1>6, <2>3 DEF Tinted
    <3>2. \A m \in S, y \in Sides : rb_child(L, m, y) = c => m = q /\ y = x
      BY <1>2, <1>5, <2>2, OnlyChild
    <3> QED BY <3>1, <3>2
  <2>6. NoRedRed(black, S, rbnull)
    <3>1. NoRedRed(L, S, c)
      BY <1>9 DEF Missing
    <3>2. ASSUME NEW m \in S, NEW y \in Sides, rb_color(black, m) = "RED",
                 rb_color(black, rb_child(black, m, y)) = "RED"
          PROVE  FALSE
      <4>1. rb_child(L, m, y) # c /\ rb_color(L, m) = "RED" /\ rb_color(L, rb_child(L, m, y)) = "RED"
        BY <1>6, <2>2, <2>3, <2>5, <3>2
      <4> QED BY <3>1, <4>1 DEF NoRedRed
    <3> QED BY <3>2 DEF NoRedRed
  <2>7. RootBlack(black)
    BY <1>2, <1>5, <2>2, <2>3 DEF RootBlack, Tinted
  <2> DEFINE k == [h EXCEPT ![c] = h[c] + 1]
  <2>8. Balanced(black, S, k, rbnull, LEFT)
    <3>1. /\ h \in [Node0 -> Nat] /\ h[rbnull] = 0
          /\ \A m \in S, y \in Sides :
               h[m] = h[rb_child(L, m, y)] + Black(L, m) + (IF m = q /\ y = x THEN 1 ELSE 0)
      BY <1>4, <1>9 DEF Balanced
    <3>2. k \in [Node0 -> Nat] /\ k[c] = h[c] + 1 /\ \A m \in Node0 : m # c => k[m] = h[m]
      BY <1>7, <3>1
    <3> HIDE DEF k
    <3>3. ASSUME NEW m \in S, NEW y \in Sides
          PROVE  k[m] = k[rb_child(black, m, y)] + Black(black, m) + 0 /\ m # rbnull
      <4> DEFINE f == rb_child(L, m, y)
      <4>1. /\ f = rb_child(black, m, y) /\ f \in Node0 /\ m \in Node0 /\ m # rbnull
            /\ h[f] \in Nat /\ k[f] \in Nat /\ h[m] \in Nat
        BY <1>6, <2>5, <3>1, <3>2
      <4>2. f = c <=> (m = q /\ y = x)
        BY <2>5
      <4>3. h[m] = h[f] + Black(L, m) + (IF m = q /\ y = x THEN 1 ELSE 0)
        BY <3>1
      <4> HIDE DEF f
      <4>4. k[f] = h[f] + (IF m = q /\ y = x THEN 1 ELSE 0)
        BY <3>2, <4>1, <4>2
      <4>5. CASE m = c
        <5>1. Black(black, m) = 1 /\ Black(L, m) = 0 /\ k[m] = h[m] + 1
          BY <1>9, <2>2, <2>3, <3>2, <4>1, <4>5 DEF Black
        <5> QED BY <4>1, <4>3, <4>4, <5>1
      <4>6. CASE m # c
        <5>1. Black(black, m) = Black(L, m) /\ Black(L, m) \in Nat /\ k[m] = h[m]
          BY <2>3, <3>2, <4>1, <4>6 DEF Black
        <5> QED BY <4>1, <4>3, <4>4, <5>1
      <4> QED BY <4>5, <4>6
    <3>4. k[rbnull] = 0
      BY <1>5, <2>2, <3>1, <3>2
    <3> QED BY <3>2, <3>3, <3>4 DEF Balanced
  <2> HIDE DEF k
  <2>9. Sound(black, S)
    BY <2>4, <2>6, <2>7, <2>8 DEF Sound
  <2> QED BY <2>1, <2>4, <2>9 DEF d
<1>10. CASE color # "RED" /\ rb_color(L, c) # "RED"
  <2>1. d = rb_delete_fixup(L, q, x)
    BY <1>1, <1>10
  <2>2. rb_color(L, c) = "BLACK"
    BY <1>5, <1>7, <1>10, ReadsAre DEF Colors
  <2>3. NoRedRed(L, S, rbnull)
    <3>1. NoRedRed(L, S, c)
      BY <1>10 DEF Missing
    <3> QED BY <2>2, <3>1 DEF NoRedRed
  <2>4. Balanced(L, S, h, q, x)
    BY <1>4, <1>10
  <2>5. Short(L, S, q, x)
    BY <1>2, <1>3, <2>2, <2>3, <2>4 DEF Short
  <2>6. Cardinality(u[q]) > 0
    <3>1. u[c] \in SUBSET Nodes /\ u[q] \in SUBSET Nodes
      BY <1>2, <1>5, <1>7 DEF Shape
    <3>2. Cardinality(u[c]) \in Nat /\ Cardinality(u[q]) \in Nat /\ Cardinality(u[c]) < Cardinality(u[q])
      BY <1>2, <1>5, <3>1, FewNodes, MoreUnder
    <3> QED BY <3>2
  <2> DEFINE s == [tree |-> L, parent |-> q, which |-> x]
  <2>7. s = [tree |-> s.tree, parent |-> s.parent, which |-> s.which] /\ s.tree = L /\ s.parent = q
        /\ s.which = x
    OBVIOUS
  <2> HIDE DEF s
  <2>8. Deleting(s, S, 0)
    BY <1>2, <1>3, <1>5, <2>5, <2>6, <2>7 DEF Deleting
  <2>9. Sound(rb_delete_fixup(L, q, x), S) /\ Kept(rb_delete_fixup(L, q, x), L, S)
    BY <2>8, DeleteFixupIs DEF s
  <2> QED BY <2>1, <2>9 DEF d
<1> QED BY <1>8, <1>9, <1>10

(* v is left out, its child c under its parent.                            *)
LEMMA SpliceShape ==
  ASSUME NEW t, NEW S, NEW u, Search(t, S, u), NEW v \in S, NEW y \in Sides, rb_child(t, v, y) = rbnull,
         NEW c, c = rb_child(t, v, Other(y)), NEW p \in S, NEW w \in Sides, rb_child(t, p, w) = v,
         NEW L, Linked(L, t, p, w, c)
  PROVE  Search(L, S \ {v}, [m \in Node0 |-> u[m] \ {v}]) /\ p \in S \ {v} /\ rb_child(L, p, w) = c
<1> DEFINE T == S \ {v}
           k == [m \in Node0 |-> u[m] \ {v}]
<1>1. /\ IsTree(t) /\ S \in SUBSET Nodes /\ rbnull \notin S /\ S \subseteq Node0 /\ rbnull \in Node0
      /\ Shape(t, S, u) /\ Ordered(t, S, u) /\ u[rbnull] = {} /\ u \in [Node0 -> SUBSET S]
      /\ t.root \in S \cup {rbnull} /\ u[t.root] = S
  BY NodesAssumption DEF Search, Shape, Node0
<1>2. p # v /\ p # rbnull /\ v # rbnull /\ rb_parent(t, v) = p /\ v # t.root /\ u[v] \subseteq u[p]
  BY <1>1, FamilyIs
<1>3. \A a \in Sides : a = y \/ a = Other(y)
  BY OthersAre
<1>4. /\ c \in Node0 /\ c # v /\ v \notin u[c] /\ u[c] \subseteq u[v] /\ p \notin u[v] /\ c # p
      /\ (c # rbnull => c \in S /\ rb_parent(t, c) = v /\ c # t.root)
  <2>1. Other(y) \in Sides
    BY OthersAre
  <2>2. c \in Node0 /\ c # v /\ v \notin u[c] /\ u[c] \subseteq u[v]
        /\ (c # rbnull => c \in S /\ rb_parent(t, c) = v /\ c \in u[c])
    BY <1>1, <2>1, FamilyIs
  <2>3. p \notin u[v]
    BY <1>1, FamilyIs
  <2>4. c # rbnull => c # t.root
    BY <1>1, <1>2, <2>2, FamilyIs
  <2> QED BY <1>2, <2>2, <2>3, <2>4
<1>5. \A x \in Nodes : x \in u[v] <=> x = v \/ x \in u[c]
  BY <1>1, FamilyIs
<1>6. /\ IsTree(L) /\ L.root = t.root /\ L.value = t.value
      /\ \A m \in Node0 : rb_parent(L, m) = IF m = c /\ c # rbnull THEN p ELSE rb_parent(t, m)
      /\ \A m \in Node0, a \in Sides : rb_child(L, m, a) = IF m = p /\ a = w THEN c ELSE rb_child(t, m, a)
  BY <1>2 DEF Linked
<1>7. k \in [Node0 -> SUBSET T] /\ k[rbnull] = {} /\ (\A m \in Node0 : k[m] = u[m] \ {v})
  BY <1>1
<1> HIDE DEF k, T
<1>8. T \in SUBSET Nodes /\ T \subseteq S /\ v \notin T /\ p \in T /\ L.root \in T \cup {rbnull} /\ k[L.root] = T
      /\ \A m \in S : m # v => m \in T
  <2>1. T \in SUBSET Nodes /\ T \subseteq S /\ v \notin T /\ p \in T
    BY <1>1, <1>2 DEF T
  <2> QED BY <1>1, <1>2, <1>6, <1>7, <2>1 DEF T
<1>9. ASSUME NEW n \in T, NEW a \in Sides
      PROVE  /\ rb_child(t, n, a) \in Node0 /\ rb_child(L, n, a) \in Node0
             /\ (rb_child(t, n, a) = v => n = p /\ a = w)
             /\ k[rb_child(L, n, a)] = u[rb_child(t, n, a)] \ {v}
  <2>1. rb_child(t, n, a) \in Node0 /\ n \in S /\ n \in Node0
    BY <1>1, <1>8, FamilyIs
  <2>2. rb_child(t, n, a) = v => n = p /\ a = w
    BY <1>1, <1>2, <2>1, OnlyChild
  <2>3. CASE n = p /\ a = w
    <3>1. rb_child(L, n, a) = c /\ rb_child(t, n, a) = v
      BY <1>6, <2>1, <2>3
    <3>2. k[c] = u[v] \ {v}
      <4>1. k[c] = u[c] \ {v} /\ v \in Node0
        BY <1>1, <1>4, <1>7
      <4>2. u[c] \in SUBSET Nodes /\ u[v] \in SUBSET Nodes
        BY <1>1, <1>4, <4>1
      <4> QED BY <1>4, <1>5, <4>1, <4>2
    <3> QED BY <1>4, <2>1, <2>2, <3>1, <3>2
  <2>4. CASE ~ (n = p /\ a = w)
    BY <1>6, <1>7, <2>1, <2>2, <2>4
  <2> QED BY <2>3, <2>4
<1>10. ASSUME NEW n \in T PROVE Branches(L, k, n)
  <2>1. Branches(t, u, n) /\ n \in Node0 /\ n # v
    BY <1>1, <1>8 DEF Shape
  <2>2. k[n] = u[n] \ {v}
    BY <1>7, <2>1
  <2>3. \A x \in Nodes : x \in k[n] <=> x = n \/ \E a \in Sides : x \in k[rb_child(L, n, a)]
    BY <1>9, <2>1, <2>2 DEF Branches
  <2>4. \A a \in Sides : n \notin k[rb_child(L, n, a)]
    BY <1>9, <2>1 DEF Branches
  <2>5. \A x \in Nodes : ~ (x \in k[rb_child(L, n, LEFT)] /\ x \in k[rb_child(L, n, RIGHT)])
    BY <1>9, <2>1, SidesAre DEF Branches
  <2> QED BY <2>3, <2>4, <2>5 DEF Branches
<1>11. ASSUME NEW n \in T PROVE Kin(L, T, n)
  <2>1. Kin(t, S, n) /\ n \in Node0 /\ n # v /\ n \in S
    BY <1>1, <1>8 DEF Shape
  <2>2. ASSUME NEW a \in Sides, rb_child(L, n, a) # rbnull
        PROVE  rb_child(L, n, a) \in T /\ rb_parent(L, rb_child(L, n, a)) = n
    <3>1. CASE n = p /\ a = w
      <4>1. rb_child(L, n, a) = c
        BY <1>6, <2>1, <3>1
      <4> QED BY <1>4, <1>6, <1>8, <2>2, <3>1, <4>1
    <3>2. CASE ~ (n = p /\ a = w)
      <4> DEFINE f == rb_child(t, n, a)
      <4>1. rb_child(L, n, a) = f /\ f # v /\ f \in Node0
        BY <1>6, <1>9, <2>1, <3>2
      <4>2. f \in S /\ rb_parent(t, f) = n
        BY <2>1, <2>2, <4>1 DEF Kin
      <4>3. f # c
        BY <1>4, <2>1, <2>2, <4>1, <4>2
      <4> HIDE DEF f
      <4> QED BY <1>6, <1>8, <4>1, <4>2, <4>3
    <3> QED BY <3>1, <3>2
  <2>3. CASE n = c
    <3>1. rb_parent(L, n) = p /\ n # rbnull
      BY <1>1, <1>6, <2>1, <2>3
    <3>2. IsChild(L, n, p)
      BY <1>1, <1>6, <2>3 DEF IsChild
    <3>3. n # L.root
      BY <1>4, <1>6, <2>3, <3>1
    <3> QED BY <1>2, <1>8, <2>2, <3>1, <3>2, <3>3 DEF Kin
  <2>4. CASE n # c
    <3> DEFINE q == rb_parent(t, n)
    <3>1. rb_parent(L, n) = q /\ (q = rbnull <=> n = L.root)
      BY <1>6, <2>1, <2>4 DEF Kin
    <3>2. ASSUME q # rbnull PROVE q \in T /\ IsChild(L, n, q)
      <4>1. q \in S /\ IsChild(t, n, q)
        BY <2>1, <3>2 DEF Kin
      <4>2. PICK a \in Sides : rb_child(t, q, a) = n
        BY <4>1 DEF IsChild
      <4> HIDE DEF q
      <4>3. q # v
        <5>1. ASSUME q = v PROVE FALSE
          <6>1. a = Other(y)
            BY <1>1, <1>3, <2>1, <4>2, <5>1
          <6> QED BY <2>4, <4>2, <5>1, <6>1
        <5> QED BY <5>1
      <4>4. ~ (q = p /\ a = w)
        BY <2>1, <4>2
      <4>5. rb_child(L, q, a) = n
        BY <1>1, <1>6, <4>1, <4>2, <4>4
      <4> QED BY <1>8, <4>1, <4>3, <4>5 DEF IsChild
    <3> QED BY <2>2, <3>1, <3>2 DEF Kin
  <2> QED BY <2>3, <2>4
<1>12. Shape(L, T, k)
  BY <1>6, <1>7, <1>8, <1>10, <1>11 DEF Shape
<1>13. Ordered(L, T, k)
  <2>1. ASSUME NEW n \in T, NEW a \in Sides, NEW m \in k[rb_child(L, n, a)]
        PROVE  Beside(L.value[m], a, L.value[n])
    <3>1. m \in u[rb_child(t, n, a)] /\ n \in S
      BY <1>8, <1>9, <2>1
    <3> QED BY <1>1, <1>6, <3>1 DEF Ordered
  <2> QED BY <2>1 DEF Ordered
<1>14. rb_child(L, p, w) = c
  BY <1>1, <1>6
<1> QED BY <1>8, <1>12, <1>13, <1>14 DEF Search, T, k

LEMMA SpliceIs ==
  ASSUME NEW t, NEW S, Sound(t, S), NEW v \in S, NEW y \in Sides, rb_child(t, v, y) = rbnull,
         NEW c, c = rb_child(t, v, Other(y)), NEW p \in S, NEW w \in Sides, rb_child(t, p, w) = v,
         NEW L, Linked(L, t, p, w, c)
  PROVE  /\ Missing(L, S \ {v}, p, w, rb_color(t, v)) /\ rb_child(L, p, w) = c /\ p # v
         /\ v # t.root /\ v # rbnull /\ c # v
<1>1. PICK u : Search(t, S, u)
  BY DEF Sound
<1>2. PICK h : Balanced(t, S, h, rbnull, LEFT)
  BY DEF Sound
<1>3. /\ IsTree(t) /\ S \in SUBSET Nodes /\ rbnull \notin S /\ S \subseteq Node0 /\ rbnull \in Node0
      /\ Shape(t, S, u) /\ NoRedRed(t, S, rbnull) /\ RootBlack(t) /\ t.root \in Node0
  BY <1>1, NodesAssumption DEF Search, Shape, Node0, Sound
<1> DEFINE T == S \ {v}
<1>4. (\E k : Search(L, T, k)) /\ p \in T /\ rb_child(L, p, w) = c
  <2> DEFINE k == [m \in Node0 |-> u[m] \ {v}]
  <2>1. Search(L, S \ {v}, k) /\ p \in S \ {v} /\ rb_child(L, p, w) = c
    BY <1>1, SpliceShape
  <2> HIDE DEF k
  <2> QED BY <2>1
<1>5. Other(y) \in Sides
  BY OthersAre
<1>6. p # rbnull /\ v # t.root /\ v # rbnull /\ c \in Node0 /\ c # v /\ rb_color(t, v) \in Colors
  <2>1. c \in Node0 /\ c # v
    BY <1>3, <1>5, FamilyIs
  <2>2. v # t.root
    BY <1>3, FamilyIs
  <2> QED BY <1>3, <2>1, <2>2, ReadsAre
<1>7. \A m \in T, a \in Sides : /\ m \in Node0 /\ m \in S /\ m # rbnull /\ rb_child(t, m, a) \in Node0
                                /\ (rb_child(t, m, a) = v => m = p /\ a = w)
                                /\ rb_child(L, m, a) = IF m = p /\ a = w THEN c ELSE rb_child(t, m, a)
  <2>1. \A m \in T, a \in Sides : m \in Node0 /\ m \in S /\ m # rbnull /\ rb_child(t, m, a) \in Node0
    BY <1>3, ReadsAre
  <2>2. \A m \in T, a \in Sides : rb_child(t, m, a) = v => m = p /\ a = w
    BY <1>3, <1>6, OnlyChild
  <2>3. \A m \in T, a \in Sides : rb_child(L, m, a) = IF m = p /\ a = w THEN c ELSE rb_child(t, m, a)
    BY <1>6, <2>1 DEF Linked
  <2> QED BY <2>1, <2>2, <2>3
<1>8. L.root = t.root /\ \A m \in Node0 : rb_color(L, m) = rb_color(t, m)
  BY DEF Linked
<1>9. RootBlack(L)
  BY <1>3, <1>8 DEF RootBlack
<1>10. NoRedRed(L, T, IF rb_color(t, v) = "RED" THEN rbnull ELSE c)
  <2>1. ASSUME NEW m \in T, NEW a \in Sides, rb_color(L, m) = "RED", rb_color(L, rb_child(L, m, a)) = "RED"
        PROVE  rb_child(L, m, a) = IF rb_color(t, v) = "RED" THEN rbnull ELSE c
    <3>1. CASE m = p /\ a = w
      <4>1. rb_child(L, m, a) = c
        BY <1>7, <3>1
      <4>2. ASSUME rb_color(t, v) = "RED" PROVE FALSE
        <5>1. v = rbnull
          BY <1>3, <1>7, <1>8, <2>1, <3>1, <4>2 DEF NoRedRed
        <5> QED BY <1>6, <5>1
      <4> QED BY <4>1, <4>2
    <3>2. CASE ~ (m = p /\ a = w)
      <4>1. rb_child(L, m, a) = rb_child(t, m, a) /\ rb_child(t, m, a) \in Node0
        BY <1>7, <3>2
      <4>2. rb_color(t, m) = "RED" /\ rb_color(t, rb_child(t, m, a)) = "RED"
        BY <1>7, <1>8, <2>1, <4>1
      <4>3. rb_child(t, m, a) = rbnull
        BY <1>3, <1>7, <4>2 DEF NoRedRed
      <4> QED BY <4>2, <4>3 DEF rb_color
    <3> QED BY <3>1, <3>2
  <2> QED BY <2>1 DEF NoRedRed
<1>11. Balanced(L, T, h, IF rb_color(t, v) = "RED" THEN rbnull ELSE p, w)
  <2>1. /\ h \in [Node0 -> Nat] /\ h[rbnull] = 0
        /\ \A m \in S, a \in Sides : h[m] = h[rb_child(t, m, a)] + Black(t, m)
    <3>1. /\ h \in [Node0 -> Nat] /\ h[rbnull] = 0
          /\ \A m \in S, a \in Sides : h[m] = h[rb_child(t, m, a)] + Black(t, m) + 0
      BY <1>2, <1>3 DEF Balanced
    <3>2. \A m \in S, a \in Sides : h[rb_child(t, m, a)] \in Nat /\ Black(t, m) \in Nat
      BY <1>3, <3>1, ReadsAre DEF Black
    <3> QED BY <3>1, <3>2
  <2>2. h[v] = h[c] + Black(t, v) /\ h[c] \in Nat
    BY <1>5, <1>6, <2>1
  <2>3. ASSUME NEW m \in T, NEW a \in Sides
        PROVE  h[m] = h[rb_child(L, m, a)] + Black(L, m)
                        + (IF m = (IF rb_color(t, v) = "RED" THEN rbnull ELSE p) /\ a = w THEN 1 ELSE 0)
    <3>1. /\ h[m] = h[rb_child(t, m, a)] + Black(t, m) /\ h[rb_child(t, m, a)] \in Nat
          /\ Black(t, m) = Black(L, m) /\ Black(t, m) \in Nat /\ m # rbnull
      BY <1>7, <1>8, <2>1 DEF Black
    <3>2. CASE m = p /\ a = w
      <4>1. rb_child(L, m, a) = c /\ rb_child(t, m, a) = v
        BY <1>7, <3>2
      <4>2. CASE rb_color(t, v) = "RED"
        <5>1. Black(t, v) = 0
          BY <4>2 DEF Black
        <5> QED BY <2>2, <3>1, <3>2, <4>1, <4>2, <5>1
      <4>3. CASE rb_color(t, v) # "RED"
        <5>1. Black(t, v) = 1
          BY <1>6, <4>3 DEF Black, Colors
        <5> QED BY <2>2, <3>1, <3>2, <4>1, <4>3, <5>1
      <4> QED BY <4>2, <4>3
    <3>3. CASE ~ (m = p /\ a = w)
      <4>1. rb_child(L, m, a) = rb_child(t, m, a)
        BY <1>7, <3>3
      <4>2. ~ (m = (IF rb_color(t, v) = "RED" THEN rbnull ELSE p) /\ a = w)
        BY <3>1, <3>3
      <4> QED BY <3>1, <4>1, <4>2
    <3> QED BY <3>2, <3>3
  <2> QED BY <2>1, <2>3 DEF Balanced
<1>12. Missing(L, T, p, w, rb_color(t, v))
  BY <1>4, <1>6, <1>9, <1>10, <1>11 DEF Missing
<1> QED BY <1>4, <1>6, <1>12

(* s takes the place of node, its color and what hangs from it.            *)
Replaced(L, t, T, node, s) ==
  /\ IsTree(L) /\ L.value = t.value
  /\ L.root = (IF t.root = node THEN s ELSE t.root)
  /\ \A y \in Sides : rb_child(L, s, y) = rb_child(t, node, y)
  /\ \A m \in T, y \in Sides : rb_child(L, m, y) = IF rb_child(t, m, y) = node THEN s ELSE rb_child(t, m, y)
  /\ rb_parent(L, s) = rb_parent(t, node)
  /\ \A m \in T : rb_parent(L, m) = IF rb_parent(t, m) = node THEN s ELSE rb_parent(t, m)
  /\ rb_color(L, s) = rb_color(t, node) /\ \A m \in T : rb_color(L, m) = rb_color(t, m)

(* The value of s is in order where node is.                               *)
InPlaceOf(t, S, u, node, s) ==
  /\ \A y \in Sides : \A m \in u[rb_child(t, node, y)] : Beside(t.value[m], y, t.value[s])
  /\ \A a \in S, y \in Sides : node \in u[rb_child(t, a, y)] => Beside(t.value[s], y, t.value[a])

LEMMA ReplacedShape ==
  ASSUME NEW t, NEW S, NEW u, Search(t, S, u), NEW node \in S, NEW s \in Nodes \ S,
         NEW L, Replaced(L, t, S \ {node}, node, s),
         InPlaceOf(t, S, u, node, s)
  PROVE  \E k : Search(L, (S \ {node}) \cup {s}, k)
<1> DEFINE T == S \ {node}
           Z == T \cup {s}
           Swap(A) == IF node \in A THEN (A \ {node}) \cup {s} ELSE A
           k == [m \in Node0 |-> IF m = s THEN Swap(u[node]) ELSE Swap(u[m])]
<1>1. /\ IsTree(t) /\ S \in SUBSET Nodes /\ rbnull \notin S /\ S \subseteq Node0 /\ rbnull \in Node0
      /\ Shape(t, S, u) /\ Ordered(t, S, u) /\ u[rbnull] = {} /\ u \in [Node0 -> SUBSET S]
      /\ t.root \in S \cup {rbnull} /\ u[t.root] = S /\ s \in Node0 /\ s # rbnull /\ s # node
  BY NodesAssumption DEF Search, Shape, Node0
<1>2. /\ IsTree(L) /\ L.value = t.value
      /\ L.root = (IF t.root = node THEN s ELSE t.root)
      /\ \A y \in Sides : rb_child(L, s, y) = rb_child(t, node, y)
      /\ \A m \in T, y \in Sides : rb_child(L, m, y) = IF rb_child(t, m, y) = node THEN s ELSE rb_child(t, m, y)
      /\ rb_parent(L, s) = rb_parent(t, node)
      /\ \A m \in T : rb_parent(L, m) = IF rb_parent(t, m) = node THEN s ELSE rb_parent(t, m)
  BY DEF Replaced
<1>3. /\ k \in [Node0 -> SUBSET Z] /\ k[rbnull] = {}
      /\ \A m \in Node0 : m # s => \A x \in Nodes :
           x \in k[m] <=> (x \in u[m] /\ x # node) \/ (x = s /\ node \in u[m])
      /\ \A x \in Nodes : x \in k[s] <=> (x \in u[node] /\ x # node) \/ x = s
  <2>1. \A m \in Node0 : u[m] \in SUBSET S /\ Swap(u[m]) \in SUBSET Z
    BY <1>1
  <2>2. k \in [Node0 -> SUBSET Z]
    BY <1>1, <2>1
  <2>3. node \in u[node]
    BY <1>1, FamilyIs
  <2> QED BY <1>1, <2>1, <2>2, <2>3
<1> HIDE DEF k, T, Z
<1>4. /\ T \subseteq S /\ node \notin T /\ (\A m \in S : m # node => m \in T) /\ s \notin S
      /\ T \subseteq Z /\ s \in Z /\ (\A m \in Z : m = s \/ m \in T) /\ Z \in SUBSET Nodes
  BY <1>1 DEF T, Z
<1>5. \A n \in S, y \in Sides : /\ rb_child(t, n, y) \in Node0 /\ rb_child(t, n, y) # s
                                /\ (rb_child(t, n, y) # rbnull => rb_child(t, n, y) \in S)
                                /\ u[rb_child(t, n, y)] \in SUBSET S
  <2>1. \A n \in S, y \in Sides : rb_child(t, n, y) \in Node0 /\ (rb_child(t, n, y) # rbnull => rb_child(t, n, y) \in S)
    BY <1>1, FamilyIs
  <2> QED BY <1>1, <1>4, <2>1
(* What L has below a node, in terms of t.                                 *)
<1>6. ASSUME NEW n \in S, NEW y \in Sides, NEW m \in Node0,
             m = IF rb_child(t, n, y) = node THEN s ELSE rb_child(t, n, y)
      PROVE  \A x \in Nodes : x \in k[m] <=> (x \in u[rb_child(t, n, y)] /\ x # node)
                                             \/ (x = s /\ node \in u[rb_child(t, n, y)])
  <2>1. CASE rb_child(t, n, y) = node
    <3>1. node \in u[node]
      BY <1>1, FamilyIs
    <3> QED BY <1>3, <1>6, <2>1, <3>1
  <2>2. CASE rb_child(t, n, y) # node
    BY <1>3, <1>5, <1>6, <2>2
  <2> QED BY <2>1, <2>2
<1>7. \A y \in Sides : rb_child(t, node, y) # node /\ node \notin u[rb_child(t, node, y)]
  BY <1>1, FamilyIs
<1>8. ASSUME NEW n \in Z, NEW o \in S, (n = s /\ o = node) \/ (n \in T /\ o = n), NEW y \in Sides
      PROVE  /\ rb_child(L, n, y) = IF rb_child(t, o, y) = node THEN s ELSE rb_child(t, o, y)
             /\ rb_child(L, n, y) \in Node0
             /\ \A x \in Nodes : x \in k[rb_child(L, n, y)] <=> (x \in u[rb_child(t, o, y)] /\ x # node)
                                                                \/ (x = s /\ node \in u[rb_child(t, o, y)])
  <2>1. rb_child(L, n, y) = IF rb_child(t, o, y) = node THEN s ELSE rb_child(t, o, y)
    BY <1>2, <1>7, <1>8
  <2>2. rb_child(L, n, y) \in Node0
    BY <1>1, <1>5, <2>1
  <2> HIDE DEF k
  <2>3. \A x \in Nodes : x \in k[rb_child(L, n, y)] <=> (x \in u[rb_child(t, o, y)] /\ x # node)
                                                        \/ (x = s /\ node \in u[rb_child(t, o, y)])
    BY <1>6, <2>1, <2>2
  <2> QED BY <2>1, <2>2, <2>3
<1>9. ASSUME NEW n \in Z PROVE Branches(L, k, n)
  <2>1. PICK o \in S : (n = s /\ o = node) \/ (n \in T /\ o = n)
    BY <1>4
  <2>2. Branches(t, u, o) /\ o \in Node0 /\ o \in Nodes
    BY <1>1, <2>1 DEF Shape
  <2>3. \A y \in Sides : \A x \in Nodes :
          x \in k[rb_child(L, n, y)] <=> (x \in u[rb_child(t, o, y)] /\ x # node)
                                         \/ (x = s /\ node \in u[rb_child(t, o, y)])
    BY <1>8, <2>1
  <2>4. n \in Nodes /\ node \in Nodes /\ s \in Nodes
    BY <1>1, <1>4
  <2>5. \A y \in Sides : s \notin u[rb_child(t, o, y)] /\ u[rb_child(t, o, y)] \in SUBSET Nodes
    BY <1>1, <1>4, <1>5
  <2>6. \A y \in Sides : n \notin k[rb_child(L, n, y)]
    <3>1. CASE n = s /\ o = node
      BY <1>7, <2>3, <2>4, <2>5, <3>1
    <3>2. CASE n \in T /\ o = n
      BY <1>4, <2>2, <2>3, <2>4, <3>2 DEF Branches
    <3> QED BY <2>1, <3>1, <3>2
  <2>7. \A x \in Nodes : ~ (x \in k[rb_child(L, n, LEFT)] /\ x \in k[rb_child(L, n, RIGHT)])
    BY <2>2, <2>3, <2>4, <2>5, SidesAre DEF Branches
  <2>8. \A x \in Nodes : x \in k[n] <=> x = n \/ \E y \in Sides : x \in k[rb_child(L, n, y)]
    <3>1. CASE n = s /\ o = node
      <4>1. \A x \in Nodes : x \in k[n] <=> (x \in u[node] /\ x # node) \/ x = s
        BY <1>3, <3>1
      <4>2. \A x \in Nodes : x \in u[node] <=> x = node \/ \E y \in Sides : x \in u[rb_child(t, node, y)]
        BY <2>2, <3>1 DEF Branches
      <4>3. \A y \in Sides, x \in Nodes : x \in k[rb_child(L, n, y)] <=> x \in u[rb_child(t, node, y)]
        BY <1>7, <2>3, <2>4, <3>1
      <4> QED BY <1>7, <3>1, <4>1, <4>2, <4>3
    <3>2. CASE n \in T /\ o = n
      <4>1. n # s /\ n # node /\ n \in Node0
        BY <1>4, <2>2, <3>2
      <4>2. \A x \in Nodes : x \in k[n] <=> (x \in u[n] /\ x # node) \/ (x = s /\ node \in u[n])
        BY <1>3, <4>1
      <4>3. \A x \in Nodes : x \in u[n] <=> x = n \/ \E y \in Sides : x \in u[rb_child(t, n, y)]
        BY <2>2, <3>2 DEF Branches
      <4>4. node \in u[n] <=> \E y \in Sides : node \in u[rb_child(t, n, y)]
        BY <2>4, <4>1, <4>3
      <4> QED BY <2>3, <3>2, <4>1, <4>2, <4>3, <4>4
    <3> QED BY <2>1, <3>1, <3>2
  <2> QED BY <2>6, <2>7, <2>8 DEF Branches
<1>10. ASSUME NEW n \in Z PROVE Kin(L, Z, n)
  <2>1. PICK o \in S : (n = s /\ o = node) \/ (n \in T /\ o = n)
    BY <1>4
  <2>2. Kin(t, S, o) /\ o # rbnull
    BY <1>1, <2>1 DEF Shape
  <2>3. ASSUME NEW y \in Sides, rb_child(L, n, y) # rbnull
        PROVE  rb_child(L, n, y) \in Z /\ rb_parent(L, rb_child(L, n, y)) = n
    <3> DEFINE c == rb_child(t, o, y)
    <3>1. rb_child(L, n, y) = IF c = node THEN s ELSE c
      BY <1>8, <2>1
    <3>2. c # rbnull
      BY <1>1, <2>3, <3>1
    <3>3. c \in S /\ rb_parent(t, c) = o
      BY <2>2, <3>2 DEF Kin
    <3> HIDE DEF c
    <3>4. CASE c = node
      <4>1. rb_child(L, n, y) = s /\ rb_parent(L, s) = o
        BY <1>2, <3>1, <3>3, <3>4
      <4>2. n = o
        BY <1>7, <2>1, <3>4 DEF c
      <4> QED BY <1>4, <4>1, <4>2
    <3>5. CASE c # node
      <4>1. c \in T /\ rb_child(L, n, y) = c
        BY <1>4, <3>1, <3>3, <3>5
      <4>2. rb_parent(L, c) = IF o = node THEN s ELSE o
        BY <1>2, <3>3, <4>1
      <4> QED BY <1>4, <2>1, <4>1, <4>2
    <3> QED BY <3>4, <3>5
  <2> DEFINE q == rb_parent(t, o)
  <2>4. rb_parent(L, n) = IF q = node THEN s ELSE q
    <3>1. rb_parent(t, node) # node
      <4>1. ASSUME rb_parent(t, node) = node PROVE FALSE
        <5>1. Kin(t, S, node)
          BY <1>1 DEF Shape
        <5>2. IsChild(t, node, node)
          BY <1>1, <4>1, <5>1 DEF Kin
        <5> QED BY <1>7, <5>2 DEF IsChild
      <4> QED BY <4>1
    <3> QED BY <1>2, <2>1, <3>1
  <2>5. q = rbnull <=> o = t.root
    BY <2>2 DEF Kin
  <2>6. rb_parent(L, n) = rbnull <=> n = L.root
    <3>1. rb_parent(L, n) = rbnull <=> q = rbnull
      BY <1>1, <2>4
    <3>2. n = L.root <=> o = t.root
      BY <1>1, <1>2, <1>4, <2>1
    <3> QED BY <2>5, <3>1, <3>2
  <2>7. ASSUME q # rbnull PROVE rb_parent(L, n) \in Z /\ IsChild(L, n, rb_parent(L, n))
    <3>1. q \in S /\ IsChild(t, o, q)
      BY <2>2, <2>7 DEF Kin
    <3>2. PICK y \in Sides : rb_child(t, q, y) = o
      BY <3>1 DEF IsChild
    <3> HIDE DEF q
    <3> DEFINE z == IF q = node THEN s ELSE q
    <3>3. z \in Z /\ ((z = s /\ q = node) \/ (z \in T /\ q = z))
      BY <1>4, <3>1
    <3> HIDE DEF z
    <3>4. rb_child(L, z, y) = IF rb_child(t, q, y) = node THEN s ELSE rb_child(t, q, y)
      BY <1>8, <3>1, <3>3
    <3>5. rb_child(L, z, y) = n
      BY <1>4, <2>1, <3>2, <3>4
    <3>6. rb_parent(L, n) = z
      BY <2>4 DEF z
    <3> QED BY <3>3, <3>5, <3>6 DEF IsChild
  <2>8. rb_parent(L, n) # rbnull => q # rbnull
    BY <1>1, <2>4
  <2> QED BY <2>3, <2>6, <2>7, <2>8 DEF Kin
<1>11. L.root \in Z \cup {rbnull} /\ k[L.root] = Z
  <2>1. L.root \in Z \cup {rbnull}
    BY <1>1, <1>2, <1>4
  <2>2. CASE t.root = node
    <3>1. \A x \in Nodes : x \in k[s] <=> (x \in u[node] /\ x # node) \/ x = s
      BY <1>3
    <3>2. k[s] \in SUBSET Nodes
      BY <1>1, <1>3, <1>4
    <3>3. L.root = s /\ u[node] = S /\ \A x \in Nodes : x \in Z <=> (x \in S /\ x # node) \/ x = s
      BY <1>1, <1>2, <2>2 DEF Z, T
    <3>4. \A x \in Nodes : x \in k[s] <=> x \in Z
      BY <3>1, <3>3
    <3> QED BY <1>4, <2>1, <3>2, <3>3, <3>4
  <2>3. CASE t.root # node
    <3>1. L.root = t.root /\ t.root # s /\ t.root \in Node0
      BY <1>1, <1>2, <1>4, <2>3
    <3>2. t.root # rbnull
      BY <1>1
    <3>3. \A x \in Nodes : x \in k[t.root] <=> (x \in S /\ x # node) \/ x = s
      BY <1>1, <1>3, <3>1
    <3>4. k[t.root] \in SUBSET Nodes
      BY <1>1, <1>3, <1>4, <3>1
    <3>5. \A x \in Nodes : x \in Z <=> (x \in S /\ x # node) \/ x = s
      BY DEF Z, T
    <3>6. \A x \in Nodes : x \in k[t.root] <=> x \in Z
      BY <3>3, <3>5
    <3> QED BY <1>4, <2>1, <3>1, <3>4, <3>6
  <2> QED BY <2>1, <2>2, <2>3
<1>12. Shape(L, Z, k)
  BY <1>2, <1>3, <1>4, <1>9, <1>10, <1>11 DEF Shape
<1>13. Ordered(L, Z, k)
  <2>1. ASSUME NEW n \in Z, NEW y \in Sides, NEW m \in k[rb_child(L, n, y)]
        PROVE  Beside(L.value[m], y, L.value[n])
    <3>1. PICK o \in S : (n = s /\ o = node) \/ (n \in T /\ o = n)
      BY <1>4
    <3>2. m \in Nodes
      <4>1. rb_child(L, n, y) \in Node0
        BY <1>8, <3>1
      <4> QED BY <1>3, <1>4, <4>1
    <3>3. (m \in u[rb_child(t, o, y)] /\ m # node) \/ (m = s /\ node \in u[rb_child(t, o, y)])
      BY <1>8, <3>1, <3>2
    <3>4. CASE n = s /\ o = node
      BY <1>2, <1>7, <3>3, <3>4 DEF InPlaceOf
    <3>5. CASE n \in T /\ o = n
      <4>1. CASE m \in u[rb_child(t, o, y)]
        BY <1>1, <1>2, <3>5, <4>1 DEF Ordered
      <4>2. CASE m = s /\ node \in u[rb_child(t, o, y)]
        BY <1>2, <3>5, <4>2 DEF InPlaceOf
      <4> QED BY <3>3, <4>1, <4>2
    <3> QED BY <3>1, <3>4, <3>5
  <2> QED BY <2>1 DEF Ordered
<1> QED BY <1>12, <1>13 DEF Search, Z, T

(* And its heights and colors.                                             *)
LEMMA ReplacedIs ==
  ASSUME NEW t, NEW S, NEW q, NEW x, NEW color, Missing(t, S, q, x, color),
         NEW u, Search(t, S, u), NEW node \in S, NEW s \in Nodes \ S, rb_child(t, q, x) # node,
         NEW L, Replaced(L, t, S \ {node}, node, s),
         InPlaceOf(t, S, u, node, s), NEW r, r = (IF q = node THEN s ELSE q)
  PROVE  Missing(L, (S \ {node}) \cup {s}, r, x, color)
<1> DEFINE T == S \ {node}
           Z == T \cup {s}
           e == IF color = "RED" THEN rbnull ELSE rb_child(t, q, x)
           f == IF color = "RED" THEN rbnull ELSE q
           f2 == IF color = "RED" THEN rbnull ELSE r
<1>1. /\ IsTree(t) /\ S \in SUBSET Nodes /\ rbnull \notin S /\ S \subseteq Node0 /\ rbnull \in Node0
      /\ Shape(t, S, u) /\ t.root \in S \cup {rbnull} /\ s \in Node0 /\ s # rbnull /\ s # node /\ s \notin S
      /\ q \in S /\ x \in Sides /\ color \in Colors /\ RootBlack(t) /\ NoRedRed(t, S, e)
  BY NodesAssumption DEF Search, Shape, Node0, Missing
<1>2. PICK h : Balanced(t, S, h, f, x)
  BY DEF Missing
<1>3. /\ IsTree(L) /\ L.root = (IF t.root = node THEN s ELSE t.root)
      /\ \A y \in Sides : rb_child(L, s, y) = rb_child(t, node, y)
      /\ \A m \in T, y \in Sides : rb_child(L, m, y) = IF rb_child(t, m, y) = node THEN s ELSE rb_child(t, m, y)
      /\ rb_color(L, s) = rb_color(t, node) /\ \A m \in T : rb_color(L, m) = rb_color(t, m)
  BY DEF Replaced
<1>4. \E k : Search(L, Z, k)
  BY ReplacedShape
<1>5. /\ T \subseteq S /\ node \notin T /\ (\A m \in S : m # node => m \in T) /\ s \notin T
      /\ T \subseteq Z /\ s \in Z /\ (\A m \in Z : m = s \/ m \in T)
  BY <1>1 DEF Z, T
<1>6. \A n \in S, y \in Sides : /\ rb_child(t, n, y) \in Node0 /\ rb_child(t, n, y) # s
                                /\ (rb_child(t, n, y) # rbnull => rb_child(t, n, y) \in S)
                                /\ (n = node => rb_child(t, n, y) # node)
  <2>1. ASSUME NEW n \in S, NEW y \in Sides
        PROVE  /\ rb_child(t, n, y) \in Node0 /\ rb_child(t, n, y) # n
               /\ (rb_child(t, n, y) # rbnull => rb_child(t, n, y) \in S)
    BY <1>1, FamilyIs
  <2> QED BY <1>1, <2>1
<1> HIDE DEF T, Z
<1>7. rb_color(L, rbnull) = "BLACK" /\ rb_color(t, rbnull) = "BLACK"
  BY DEF rb_color
<1>8. ASSUME NEW n \in Z
      PROVE  \E o \in S : /\ (n = s /\ o = node) \/ (n \in T /\ o = n)
                          /\ rb_color(L, n) = rb_color(t, o) /\ Black(L, n) = Black(t, o)
                          /\ (n = r <=> o = q) /\ (n = f2 <=> o = f)
                          /\ \A y \in Sides :
                               /\ rb_child(L, n, y) = IF rb_child(t, o, y) = node THEN s ELSE rb_child(t, o, y)
                               /\ rb_color(L, rb_child(L, n, y)) = rb_color(t, rb_child(t, o, y))
  <2>1. PICK o \in S : (n = s /\ o = node) \/ (n \in T /\ o = n)
    BY <1>1, <1>5
  <2>2. rb_color(L, n) = rb_color(t, o)
    BY <1>3, <2>1
  <2>3. n = r <=> o = q
    BY <1>1, <1>5, <2>1
  <2>4. n = f2 <=> o = f
    BY <1>1, <1>5, <2>1, <2>3
  <2>5. ASSUME NEW y \in Sides
        PROVE  /\ rb_child(L, n, y) = IF rb_child(t, o, y) = node THEN s ELSE rb_child(t, o, y)
               /\ rb_color(L, rb_child(L, n, y)) = rb_color(t, rb_child(t, o, y))
    <3>1. rb_child(L, n, y) = IF rb_child(t, o, y) = node THEN s ELSE rb_child(t, o, y)
      BY <1>3, <1>6, <2>1
    <3>2. rb_child(t, o, y) = rbnull \/ rb_child(t, o, y) = node \/ rb_child(t, o, y) \in T
      BY <1>5, <1>6
    <3>3. node # rbnull
      BY <1>1
    <3> QED BY <1>3, <1>7, <3>1, <3>2, <3>3
  <2>6. Black(L, n) = Black(t, o)
    BY <2>2 DEF Black
  <2> HIDE DEF f, f2
  <2> QED BY <2>1, <2>2, <2>3, <2>4, <2>5, <2>6
<1>9. rb_child(L, r, x) = rb_child(t, q, x)
  BY <1>1, <1>3, <1>5
<1>10. RootBlack(L)
  BY <1>1, <1>3, <1>5, <1>7 DEF RootBlack
<1>11. NoRedRed(L, Z, e)
  <2>1. ASSUME NEW n \in Z, NEW y \in Sides, rb_color(L, n) = "RED", rb_color(L, rb_child(L, n, y)) = "RED"
        PROVE  rb_child(L, n, y) = e
    <3>1. PICK o \in S : /\ rb_color(L, n) = rb_color(t, o)
                         /\ \A z \in Sides :
                               /\ rb_child(L, n, z) = IF rb_child(t, o, z) = node THEN s ELSE rb_child(t, o, z)
                               /\ rb_color(L, rb_child(L, n, z)) = rb_color(t, rb_child(t, o, z))
      BY <1>8
    <3>2. rb_child(t, o, y) = e
      BY <1>1, <2>1, <3>1 DEF NoRedRed
    <3>3. e # node
      BY <1>1
    <3> QED BY <3>1, <3>2, <3>3
  <2> QED BY <2>1 DEF NoRedRed
<1> DEFINE k == [h EXCEPT ![s] = h[node]]
<1>12. Balanced(L, Z, k, f2, x)
  <2>1. /\ h \in [Node0 -> Nat] /\ h[rbnull] = 0
        /\ \A n \in S, w \in Sides :
             h[n] = h[rb_child(t, n, w)] + Black(t, n) + (IF n = f /\ w = x THEN 1 ELSE 0)
    BY <1>2 DEF Balanced
  <2>2. k \in [Node0 -> Nat] /\ k[rbnull] = 0 /\ k[s] = h[node] /\ \A m \in Node0 : m # s => k[m] = h[m]
    BY <1>1, <2>1
  <2> HIDE DEF k, f, f2
  <2>3. ASSUME NEW n \in Z, NEW y \in Sides
        PROVE  k[n] = k[rb_child(L, n, y)] + Black(L, n) + (IF n = f2 /\ y = x THEN 1 ELSE 0)
    <3>1. PICK o \in S : /\ (n = s /\ o = node) \/ (n \in T /\ o = n)
                         /\ Black(L, n) = Black(t, o) /\ (n = f2 <=> o = f)
                         /\ rb_child(L, n, y) = IF rb_child(t, o, y) = node THEN s ELSE rb_child(t, o, y)
      BY <1>8
    <3>2. k[n] = h[o]
      BY <1>1, <1>5, <2>2, <3>1
    <3>3. k[rb_child(L, n, y)] = h[rb_child(t, o, y)]
      BY <1>1, <1>6, <2>2, <3>1
    <3>4. h[o] = h[rb_child(t, o, y)] + Black(t, o) + (IF o = f /\ y = x THEN 1 ELSE 0)
      BY <2>1
    <3> QED BY <3>1, <3>2, <3>3, <3>4
  <2> QED BY <2>2, <2>3 DEF Balanced
<1>13. r \in Z
  BY <1>1, <1>5
<1>14. Missing(L, Z, r, x, color)
  <2>1. NoRedRed(L, Z, IF color = "RED" THEN rbnull ELSE rb_child(L, r, x))
    BY <1>9, <1>11
  <2>2. \E g : Balanced(L, Z, g, IF color = "RED" THEN rbnull ELSE r, x)
    <3> HIDE DEF k
    <3> QED BY <1>12
  <2> QED BY <1>1, <1>4, <1>10, <1>13, <2>1, <2>2 DEF Missing
<1> QED BY <1>14 DEF Z, T

(* No node is a tree.                                                      *)
LEMMA NoNode ==
  ASSUME NEW s, IsTree(s), s.root = rbnull
  PROVE  Sound(s, {})
<1> DEFINE u == [m \in Node0 |-> {}]
           h == [m \in Node0 |-> 0]
<1>1. rbnull \in Node0
  BY DEF Node0
<1>2. u \in [Node0 -> SUBSET {}] /\ u[rbnull] = {} /\ h \in [Node0 -> Nat] /\ h[rbnull] = 0
  BY <1>1
<1> HIDE DEF u, h
<1>3. Search(s, {}, u)
  BY <1>2 DEF Search, Shape, Ordered
<1>4. Balanced(s, {}, h, rbnull, LEFT)
  BY <1>2 DEF Balanced
<1>5. NoRedRed(s, {}, rbnull) /\ RootBlack(s)
  BY DEF NoRedRed, RootBlack, rb_color
<1> QED BY <1>3, <1>4, <1>5 DEF Sound

(* A root with at most one child: there is no more than that.              *)
LEMMA SmallTree ==
  ASSUME NEW t, NEW S, Sound(t, S), NEW node \in S, node = t.root,
         NEW y \in Sides, rb_child(t, node, y) = rbnull, NEW c, c = rb_child(t, node, Other(y))
  PROVE  /\ rb_color(t, node) = "BLACK" /\ c \in Node0
         /\ rb_color(t, c) = "BLACK" => c = rbnull /\ S = {node}
         /\ rb_color(t, c) = "RED" => /\ c \in Nodes /\ c # node /\ S = {node, c}
                                      /\ \A z \in Sides : rb_child(t, c, z) = rbnull
<1>1. PICK u : Search(t, S, u)
  BY DEF Sound
<1>2. PICK h : Balanced(t, S, h, rbnull, LEFT)
  BY DEF Sound
<1>3. /\ IsTree(t) /\ S \in SUBSET Nodes /\ rbnull \notin S /\ S \subseteq Node0 /\ rbnull \in Node0
      /\ Shape(t, S, u) /\ NoRedRed(t, S, rbnull) /\ RootBlack(t) /\ u[t.root] = S /\ u[rbnull] = {}
  BY <1>1, NodesAssumption DEF Search, Shape, Node0, Sound
<1>4. /\ h \in [Node0 -> Nat] /\ h[rbnull] = 0
      /\ \A m \in S, a \in Sides : h[m] = h[rb_child(t, m, a)] + Black(t, m)
  <2>1. /\ h \in [Node0 -> Nat] /\ h[rbnull] = 0
        /\ \A m \in S, a \in Sides : h[m] = h[rb_child(t, m, a)] + Black(t, m) + 0
    BY <1>2, <1>3 DEF Balanced
  <2>2. \A m \in S, a \in Sides : h[rb_child(t, m, a)] \in Nat /\ Black(t, m) \in Nat
    BY <1>3, <2>1, ReadsAre DEF Black
  <2> QED BY <2>1, <2>2
<1>5. Other(y) \in Sides
  BY OthersAre
<1>6. rb_color(t, node) = "BLACK" /\ c \in Node0 /\ c # node /\ (c # rbnull => c \in S)
      /\ rb_color(t, rbnull) = "BLACK"
  BY <1>3, <1>5, FamilyIs DEF RootBlack, rb_color
<1>7. \A n \in S : \A w \in Sides : /\ rb_child(t, n, w) \in Node0
                                    /\ (rb_child(t, n, w) # rbnull => rb_child(t, n, w) \in S)
  BY <1>3, FamilyIs
<1>8. h[c] = 0
  <2>1. h[node] = h[c] + Black(t, node) /\ h[node] = 0 + Black(t, node) /\ Black(t, node) = 1
    BY <1>4, <1>5, <1>6 DEF Black
  <2> QED BY <1>4, <1>6, <2>1
(* A black node is not that low.                                           *)
<1>9. ASSUME NEW n \in Node0, n # rbnull => n \in S, rb_color(t, n) = "BLACK", h[n] = 0
      PROVE  n = rbnull
  <2>1. SUFFICES ASSUME n # rbnull PROVE FALSE
    OBVIOUS
  <2>2. n \in S /\ Black(t, n) = 1
    BY <1>9, <2>1 DEF Black
  <2>3. h[n] = h[rb_child(t, n, LEFT)] + 1 /\ h[rb_child(t, n, LEFT)] \in Nat
    BY <1>4, <1>7, <2>2, SidesAre
  <2> QED BY <1>9, <2>3
<1>10. \A x \in Nodes : x \in S <=> x = node \/ x \in u[c]
  <2>1. \A x \in Nodes : x \in u[node] <=> x = node \/ x \in u[rb_child(t, node, y)] \/ x \in u[c]
    BY <1>3, FamilyIs
  <2> QED BY <1>3, <2>1
<1>11. ASSUME rb_color(t, c) = "BLACK" PROVE c = rbnull /\ S = {node}
  <2>1. c = rbnull
    BY <1>6, <1>8, <1>9, <1>11
  <2> QED BY <1>3, <1>10, <2>1
<1>12. ASSUME rb_color(t, c) = "RED"
       PROVE  /\ c \in Nodes /\ c # node /\ S = {node, c}
              /\ \A z \in Sides : rb_child(t, c, z) = rbnull
  <2>1. c # rbnull /\ c \in S
    BY <1>6, <1>12
  <2>2. Black(t, c) = 0
    BY <1>12 DEF Black
  <2>3. ASSUME NEW z \in Sides PROVE rb_child(t, c, z) = rbnull
    <3>1. h[c] = h[rb_child(t, c, z)] + 0 /\ h[rb_child(t, c, z)] \in Nat
      BY <1>4, <1>7, <2>1, <2>2
    <3>2. rb_color(t, rb_child(t, c, z)) = "BLACK"
      <4>1. rb_color(t, rb_child(t, c, z)) = "RED" => rb_child(t, c, z) = rbnull
        BY <1>3, <1>12, <2>1 DEF NoRedRed
      <4>2. rb_color(t, rb_child(t, c, z)) \in Colors
        BY <1>3, <1>7, <2>1, ReadsAre
      <4> QED BY <1>6, <4>1, <4>2 DEF Colors
    <3> QED BY <1>7, <1>8, <1>9, <2>1, <3>1, <3>2
  <2>4. \A x \in Nodes : x \in u[c] <=> x = c
    <3>1. \A x \in Nodes : x \in u[c] <=> x = c \/ x \in u[rb_child(t, c, LEFT)] \/ x \in u[rb_child(t, c, Other(LEFT))]
      BY <1>3, <2>1, SidesAre, FamilyIs
    <3> QED BY <1>3, <2>3, <3>1, SidesAre
  <2> QED BY <1>3, <1>6, <1>10, <2>1, <2>3, <2>4
<1> QED BY <1>6, <1>11, <1>12

(* rb_delete, where node has at most one child.                            *)
LEMMA RemoveOuterIs ==
  ASSUME NEW t, NEW S, Sound(t, S), NEW node \in S, \E y \in Sides : rb_child(t, node, y) = rbnull
  PROVE  Sound(remove_outer(t, node), S \ {node}) /\ Kept(remove_outer(t, node), t, S)
<1> DEFINE left  == rb_child(t, node, LEFT)
           c     == IF left = rbnull THEN rb_child(t, node, RIGHT) ELSE left
           p     == rb_parent(t, node)
           w     == rb_which(t, node, p)
           color == rb_color(t, node)
           gone  == rb_delete_with_at_most_one_child(t, c, p, w, color)
<1>1. PICK u : Search(t, S, u)
  BY DEF Sound
<1>2. /\ IsTree(t) /\ S \in SUBSET Nodes /\ rbnull \notin S /\ S \subseteq Node0 /\ rbnull \in Node0
      /\ Shape(t, S, u) /\ node \in Node0
  BY <1>1, NodesAssumption DEF Search, Shape, Node0
<1>3. PICK y \in Sides : rb_child(t, node, y) = rbnull /\ c = rb_child(t, node, Other(y))
  BY SidesAre
<1>4. remove_outer(t, node) = IF node = t.root THEN set_root(gone, c) ELSE gone
  BY Zenon DEF remove_outer
<1>5. c \in Node0 /\ p \in Node0 /\ w \in Sides /\ (c # rbnull => c \in S)
  <2>1. Other(y) \in Sides
    BY OthersAre
  <2>2. c \in Node0 /\ (c # rbnull => c \in S)
    BY <1>2, <1>3, <2>1, FamilyIs
  <2> QED BY <1>2, <2>2, ReadsAre
<1> DEFINE L == link(t, p, w, c)
<1> HIDE DEF c, p, w, color
<1>6. Linked(L, t, p, w, c)
  BY <1>2, <1>5, LinkIs
<1>7. ASSUME NEW s, Kept(s, L, S \ {node}) PROVE Kept(s, t, S)
  <2>1. L.value = t.value /\ \A m \in Nodes \ S : rb_parent(L, m) = rb_parent(t, m)
    BY <1>2, <1>5, <1>6 DEF Linked, Node0
  <2> HIDE DEF L
  <2> QED BY <1>7, <2>1 DEF Kept
<1>8. CASE node # t.root
  <2>1. p \in S /\ rb_child(t, p, w) = node
    BY <1>2, <1>8, ParentIs DEF p, w
  <2>2. Missing(L, S \ {node}, p, w, color) /\ rb_child(L, p, w) = c
    BY <1>3, <1>5, <1>6, <2>1, SpliceIs DEF color
  <2>3. Sound(gone, S \ {node}) /\ Kept(gone, L, S \ {node})
    BY <2>2, OneLess
  <2> HIDE DEF gone, L
  <2> QED BY <1>4, <1>7, <1>8, <2>3
<1>9. CASE node = t.root
  <2>1. /\ color = "BLACK"
        /\ rb_color(t, c) = "BLACK" => c = rbnull /\ S = {node}
        /\ rb_color(t, c) = "RED" => /\ c \in Nodes /\ c # node /\ S = {node, c}
                                     /\ \A z \in Sides : rb_child(t, c, z) = rbnull
    BY <1>3, <1>9, SmallTree DEF color
  <2>2. p = rbnull
    BY <1>2, <1>9, FamilyIs DEF p
  <2>3. gone = IF rb_color(L, c) = "RED" THEN set_color(L, c, "BLACK") ELSE rb_delete_fixup(L, p, w)
    BY <2>1 DEF rb_delete_with_at_most_one_child
  <2>4. rb_color(L, c) = rb_color(t, c) /\ rb_color(t, c) \in Colors
    BY <1>2, <1>5, <1>6, ReadsAre DEF Linked
  <2> HIDE DEF gone
  <2>5. CASE rb_color(t, c) = "RED"
    <3>1. gone = set_color(L, c, "BLACK")
      BY <2>3, <2>4, <2>5
    <3>2. c \in Nodes /\ c # node /\ S = {node, c} /\ \A z \in Sides : rb_child(t, c, z) = rbnull
      BY <2>1, <2>5
    <3>3. c # rbnull
      BY <1>2, <3>2, NodesAssumption
    <3> DEFINE d == set_color(L, c, "BLACK")
               r == set_root(d, c)
    <3>4. Tinted(d, L) /\ rb_color(d, c) = "BLACK"
      BY <1>5, <1>6, <3>3, SetColorIs DEF Linked, Colors
    <3>5. RootSet(r, d, c)
      BY <1>5, <3>4, SetRootIs DEF Tinted
    <3> HIDE DEF d, r, L
    <3>6. rb_parent(L, c) = rbnull /\ \A z \in Sides : rb_child(L, c, z) = rbnull
      BY <1>5, <1>6, <2>2, <3>2, <3>3 DEF Linked
    <3>7. /\ IsTree(r) /\ r.root = c /\ rb_parent(r, c) = rbnull /\ rb_color(r, c) = "BLACK"
          /\ \A z \in Sides : rb_child(r, c, z) = rbnull
      BY <1>5, <3>4, <3>5, <3>6 DEF RootSet, Tinted
    <3>8. Sound(r, {c})
      BY <3>2, <3>7, OneNode
    <3>9. Kept(r, L, S \ {node})
      BY <3>4, <3>5 DEF Kept, RootSet, Tinted, Node0
    <3>10. remove_outer(t, node) = r /\ S \ {node} = {c}
      BY <1>4, <1>9, <3>1, <3>2 DEF r, d
    <3> QED BY <1>7, <3>8, <3>9, <3>10
  <2>6. CASE rb_color(t, c) = "BLACK"
    <3>1. c = rbnull /\ S = {node}
      BY <2>1, <2>6
    <3>2. L = t
      BY <2>2, <3>1 DEF link, set_child, set_parent
    <3>3. gone = rb_delete_fixup(t, rbnull, w)
      BY <2>2, <2>3, <2>4, <2>6, <3>2
    <3>4. Deleting([tree |-> t, parent |-> rbnull, which |-> w], S, 0)
      BY <1>5 DEF Deleting
    <3>5. Sound(gone, S) /\ Kept(gone, t, S)
      BY <3>3, <3>4, DeleteFixupIs
    <3>6. IsTree(gone)
      BY <3>5 DEF Sound, Search, Shape
    <3> DEFINE r == set_root(gone, rbnull)
    <3>7. RootSet(r, gone, rbnull)
      BY <1>2, <3>6, SetRootIs
    <3> HIDE DEF r
    <3>8. Sound(r, {})
      BY <3>7, NoNode DEF RootSet
    <3>9. Kept(r, gone, S)
      BY <3>7 DEF Kept, RootSet, Node0
    <3>10. Kept(r, t, S)
      BY <3>5, <3>9, KeptTwice
    <3>11. remove_outer(t, node) = r /\ S \ {node} = {}
      BY <1>4, <1>9, <3>1 DEF r
    <3> QED BY <3>8, <3>10, <3>11
  <2> QED BY <2>4, <2>5, <2>6 DEF Colors
<1> QED BY <1>8, <1>9

(* The way down the left edge of what is under r, after n steps.           *)
Descending(x, t, S, u, r, n) ==
  /\ x \in S /\ x \in u[r] /\ u[x] \subseteq u[r]
  /\ \A a \in u[x], m \in u[r] \ u[x] : t.value[a] <= t.value[m]
  /\ x = r \/ (rb_parent(t, x) \in u[r] /\ rb_child(t, rb_parent(t, x), LEFT) = x)
  /\ rb_child(t, x, LEFT) = rbnull \/ Cardinality(u[x]) + n <= Cardinality(Nodes)

LEMMA SuccessorIs ==
  ASSUME NEW t, NEW S, NEW u, Search(t, S, u), NEW node \in S,
         NEW r, r = rb_child(t, node, RIGHT), r # rbnull
  PROVE  \E n : Descending(Successor(t, node), t, S, u, r, n)
                /\ rb_child(t, Successor(t, node), LEFT) = rbnull
<1> DEFINE Left(x) == IF rb_child(t, x, LEFT) = rbnull THEN x ELSE rb_child(t, x, LEFT)
           Good == [k \in Nat |-> {x \in Node0 : Descending(x, t, S, u, r, k)}]
           F == [x \in Node0 |-> Left(x)]
           after == CHOOSE g : g = [k \in 0 .. Rounds |-> IF k = 0 THEN rb_child(t, node, RIGHT)
                                                          ELSE Left(g[k - 1])]
<1>1. Successor(t, node) = after[Rounds]
  BY DEF Successor, Loop
<1>2. /\ IsTree(t) /\ S \in SUBSET Nodes /\ rbnull \notin S /\ S \subseteq Node0
      /\ Shape(t, S, u) /\ Ordered(t, S, u) /\ u \in [Node0 -> SUBSET S] /\ r \in S
      /\ t.value \in [Nodes -> Nat]
  <2>1. r \in S
    BY SidesAre, FamilyIs DEF Search
  <2> QED BY <2>1, NodesAssumption DEF Search, Shape, Node0, IsTree
<1>3. \A x \in S : /\ u[x] \in SUBSET Nodes /\ u[x] \in SUBSET S /\ x \in u[x] /\ Cardinality(u[x]) \in Nat
                   /\ Cardinality(u[x]) <= Cardinality(Nodes) /\ Cardinality(Nodes) \in Nat
  <2>1. \A x \in S : u[x] \in SUBSET Nodes /\ u[x] \in SUBSET S /\ x \in u[x]
    BY <1>2, FamilyIs
  <2> QED BY <2>1, FewNodes
<1>4. r \in Good[0]
  <2>1. Descending(r, t, S, u, r, 0)
    BY <1>2, <1>3 DEF Descending
  <2> QED BY <1>2, <2>1
<1>5. ASSUME NEW k \in 0 .. Rounds, NEW x \in Good[k]
      PROVE  Left(x) \in Good[k + 1] /\ F[x] = Left(x)
  <2>1. k \in Nat /\ k + 1 \in Nat
    BY RoundsIs
  <2>2. x \in Node0 /\ Descending(x, t, S, u, r, k) /\ x \in S
    BY <1>5, <2>1 DEF Descending
  <2> DEFINE c == rb_child(t, x, LEFT)
  <2>3. CASE c = rbnull
    <3>1. Left(x) = x
      BY <2>3
    <3>2. Descending(x, t, S, u, r, k + 1)
      BY <2>2, <2>3 DEF Descending
    <3> QED BY <2>1, <2>2, <3>1, <3>2
  <2>4. CASE c # rbnull
    <3>1. Left(x) = c
      BY <2>4
    <3>2. c \in S /\ rb_parent(t, c) = x /\ c \in Node0 /\ c \in u[c] /\ u[c] \subseteq u[x]
      BY <1>2, <2>2, <2>4, SidesAre, FamilyIs
    <3>3. Cardinality(u[c]) < Cardinality(u[x])
      BY <1>2, <2>2, SidesAre, MoreUnder
    <3>4. Cardinality(u[x]) + k <= Cardinality(Nodes)
      BY <2>2, <2>4 DEF Descending
    <3>5. Cardinality(u[c]) + (k + 1) <= Cardinality(Nodes)
      BY <1>3, <2>1, <2>2, <3>2, <3>3, <3>4
    <3>6. ASSUME NEW a \in u[c], NEW m \in u[r] \ u[c] PROVE t.value[a] <= t.value[m]
      <4>1. t.value[a] \in Nat /\ t.value[m] \in Nat /\ t.value[x] \in Nat /\ m \in Nodes
        BY <1>2, <1>3, <2>2, <3>2
      <4>2. CASE m \notin u[x]
        BY <2>2, <3>2, <4>2 DEF Descending
      <4>3. CASE m \in u[x]
        <5>1. t.value[a] <= t.value[x]
          BY <1>2, <2>2, <3>6, SidesAre DEF Ordered, Beside
        <5>2. m = x \/ m \in u[rb_child(t, x, Other(LEFT))]
          BY <1>2, <2>2, <3>6, <4>1, <4>3, SidesAre, FamilyIs
        <5>3. t.value[x] <= t.value[m]
          <6>1. m \in u[rb_child(t, x, RIGHT)] => t.value[m] >= t.value[x]
            BY <1>2, <2>2, SidesAre DEF Ordered, Beside
          <6> QED BY <4>1, <5>2, <6>1, SidesAre
        <5> QED BY <4>1, <5>1, <5>3
      <4> QED BY <4>2, <4>3
    <3> HIDE DEF c
    <3>7. rb_child(t, x, LEFT) = c /\ x \in u[r] /\ u[x] \subseteq u[r]
      BY <2>2 DEF Descending, c
    <3>8. Descending(c, t, S, u, r, k + 1)
      BY <3>2, <3>5, <3>6, <3>7 DEF Descending
    <3> QED BY <2>1, <2>2, <3>1, <3>2, <3>8 DEF c
  <2> QED BY <2>3, <2>4
<1> HIDE DEF Left
<1>6. PICK g : IsIteration(g, Rounds, F, Good, r)
  <2>1. StaysGood(F, Good, Rounds)
    <3> HIDE DEF F, Good
    <3> QED BY <1>5 DEF StaysGood
  <2> HIDE DEF F, Good
  <2> QED BY <1>4, <2>1, Iterates, RoundsIs
<1>7. after = [k \in 0 .. Rounds |-> IF k = 0 THEN rb_child(t, node, RIGHT) ELSE Left(after[k - 1])]
  <2>1. ASSUME NEW k \in 0 .. Rounds, k # 0 PROVE F[g[k - 1]] = Left(g[k - 1])
    <3>1. k - 1 \in 0 .. Rounds
      BY <2>1, RoundsIs
    <3> HIDE DEF F, Good
    <3> QED BY <1>5, <1>6, <3>1 DEF IsIteration
  <2>2. g = [k \in 0 .. Rounds |-> IF k = 0 THEN rb_child(t, node, RIGHT) ELSE Left(g[k - 1])]
    <3> HIDE DEF F, Good
    <3> QED BY <1>6, <2>1 DEF IsIteration
  <2> QED BY <2>2, Zenon
<1> DEFINE K == {k \in 0 .. Rounds : after[k] \in Good[k]}
<1>8. Rounds \in K
  <2> HIDE DEF after, Good, F
  <2>1. 0 \in K
    BY <1>4, <1>7, RoundsIs
  <2>2. ASSUME NEW k \in 1 .. Rounds, k - 1 \in K PROVE k \in K
    <3>1. k - 1 \in 0 .. Rounds /\ (k - 1) + 1 = k /\ k \in 0 .. Rounds /\ k # 0
      BY RoundsIs
    <3>2. after[k] = Left(after[k - 1])
      BY <1>7, <3>1
    <3>3. Left(after[k - 1]) \in Good[(k - 1) + 1]
      BY <1>5, <2>2, <3>1
    <3> QED BY <3>1, <3>2, <3>3
  <2> HIDE DEF K
  <2> QED BY <2>1, <2>2, EachRound, RoundsIs
<1> DEFINE z == after[Rounds]
<1>9. Descending(z, t, S, u, r, Rounds)
  BY <1>8, RoundsIs
<1> HIDE DEF after, z
<1>10. rb_child(t, z, LEFT) = rbnull
  <2>1. z \in S
    BY <1>9 DEF Descending
  <2>2. ~ (Cardinality(u[z]) + Rounds <= Cardinality(Nodes))
    BY <1>3, <2>1, RoundsIs
  <2> QED BY <1>9, <2>2 DEF Descending
<1>11. Successor(t, node) = z
  BY <1>1 DEF z
<1> QED BY <1>9, <1>10, <1>11

(* What is under a node that is under another is under that one too.       *)
LEMMA Nested ==
  ASSUME NEW t, NEW S, NEW u, Shape(t, S, u), NEW n \in S, NEW x \in u[n]
  PROVE  u[x] \subseteq u[n]
<1> DEFINE Wrong == {m \in S : \E z \in u[m] : ~ (u[z] \subseteq u[m])}
           Sizes == {i \in Nat : \E m \in Wrong : i = Cardinality(u[m])}
<1>1. \A m \in S : Cardinality(u[m]) \in Nat /\ u[m] \in SUBSET Nodes
  <2>1. \A m \in S : u[m] \in SUBSET Nodes
    BY FamilyIs DEF Shape
  <2> QED BY <2>1, FewNodes
<1>2. ASSUME Wrong # {} PROVE FALSE
  <2>1. Sizes \in SUBSET Nat /\ Sizes # {}
    BY <1>1, <1>2
  <2>2. PICK i \in Sizes : \A j \in Sizes : i <= j
    BY <2>1, LeastNatural
  <2>3. PICK m \in Wrong : i = Cardinality(u[m])
    BY <2>2
  <2>4. PICK z \in u[m] : m \in S /\ ~ (u[z] \subseteq u[m])
    BY <2>3
  <2>5. z # m /\ z \in Nodes
    BY <1>1, <2>4
  <2>6. PICK w \in Sides : z \in u[rb_child(t, m, w)]
    BY <2>4, <2>5 DEF Shape, Branches
  <2> DEFINE c == rb_child(t, m, w)
  <2>7. c # rbnull
    BY <2>6 DEF Shape
  <2>8. c \in S /\ u[c] \subseteq u[m]
    BY <2>4, <2>7, FamilyIs
  <2>9. Cardinality(u[c]) < Cardinality(u[m])
    BY <2>4, MoreUnder
  <2> HIDE DEF c
  <2>10. c \notin Wrong
    <3>1. ASSUME c \in Wrong PROVE FALSE
      <4>1. Cardinality(u[c]) \in Sizes
        BY <1>1, <2>8, <3>1
      <4>2. Cardinality(u[m]) <= Cardinality(u[c])
        BY <2>2, <2>3, <4>1
      <4> QED BY <1>1, <2>4, <2>8, <2>9, <4>2
    <3> QED BY <3>1
  <2>11. u[z] \subseteq u[c]
    BY <2>6, <2>8, <2>10 DEF c
  <2> QED BY <2>4, <2>8, <2>11
<1> QED BY <1>2

(* The successor of node: the least of what is on its right.               *)
Follows(t, S, u, node, s) ==
  LET r    == rb_child(t, node, RIGHT)
      from == rb_parent(t, s)
  IN  /\ s \in S /\ s # node /\ s \in u[r] /\ u[s] \subseteq u[r]
      /\ rb_child(t, s, LEFT) = rbnull
      /\ \A m \in u[r] : t.value[s] <= t.value[m]
      /\ from \in S /\ (from = node <=> s = r)
      /\ from # node => rb_child(t, from, LEFT) = s

LEMMA FollowsIs ==
  ASSUME NEW t, NEW S, NEW u, Search(t, S, u), NEW node \in S, rb_child(t, node, RIGHT) # rbnull
  PROVE  Follows(t, S, u, node, Successor(t, node))
<1> DEFINE s == Successor(t, node)
           r == rb_child(t, node, RIGHT)
           from == rb_parent(t, s)
<1>1. PICK n : Descending(s, t, S, u, r, n) /\ rb_child(t, s, LEFT) = rbnull
  BY SuccessorIs
<1> HIDE DEF s, r
<1>2. /\ s \in S /\ s \in u[r] /\ u[s] \subseteq u[r]
      /\ \A a \in u[s], m \in u[r] \ u[s] : t.value[a] <= t.value[m]
      /\ s = r \/ (from \in u[r] /\ rb_child(t, from, LEFT) = s)
  BY <1>1 DEF Descending
<1>3. /\ Shape(t, S, u) /\ Ordered(t, S, u) /\ IsTree(t) /\ S \in SUBSET Nodes
      /\ r # rbnull /\ u[rbnull] = {}
  BY DEF Search, Shape, r
<1>4. r \in S /\ rb_parent(t, r) = node /\ node \notin u[r] /\ u[r] \in SUBSET S
  <2>1. r \in S /\ rb_parent(t, r) = node /\ node \notin u[r]
    BY <1>3, SidesAre, FamilyIs DEF r
  <2> QED BY <1>3, <2>1, FamilyIs
<1>5. s # node
  BY <1>2, <1>4
<1>6. from \in S /\ (from = node <=> s = r) /\ (from # node => rb_child(t, from, LEFT) = s)
  <2>1. CASE s = r
    BY <1>4, <2>1
  <2>2. CASE s # r
    BY <1>2, <1>4, <2>2
  <2> QED BY <2>1, <2>2
<1>7. ASSUME NEW m \in u[r] PROVE t.value[s] <= t.value[m]
  <2>1. m \in Nodes /\ s \in Nodes /\ t.value[m] \in Nat /\ t.value[s] \in Nat /\ s \in u[s]
    <3>1. m \in Nodes /\ s \in Nodes
      BY <1>2, <1>3, <1>4, <1>7
    <3>2. s \in u[s]
      BY <1>2, <1>3, FamilyIs
    <3> QED BY <1>3, <3>1, <3>2 DEF IsTree
  <2>2. CASE m \notin u[s]
    BY <1>2, <1>7, <2>1, <2>2
  <2>3. CASE m \in u[s]
    <3>1. m = s \/ m \in u[rb_child(t, s, Other(LEFT))]
      BY <1>1, <1>2, <1>3, <2>1, <2>3, SidesAre, FamilyIs
    <3>2. m \in u[rb_child(t, s, RIGHT)] => t.value[m] >= t.value[s]
      BY <1>2, <1>3, SidesAre DEF Ordered, Beside
    <3> QED BY <2>1, <3>1, <3>2, SidesAre
  <2> QED BY <2>2, <2>3
<1>8. Follows(t, S, u, node, s)
  BY <1>1, <1>2, <1>5, <1>6, <1>7 DEF Follows, r
<1> QED BY <1>8 DEF s

(* s between the parent and the children of node.                          *)
Moved(mv, t, node, s, g, pw, lc, rc) ==
  /\ IsTree(mv) /\ mv.value = t.value /\ mv.root = (IF node = t.root THEN s ELSE t.root)
  /\ \A m \in Node0, y \in Sides :
       rb_child(mv, m, y) = IF m = s /\ y = LEFT THEN lc
                            ELSE IF m = s /\ s # rc /\ y = RIGHT THEN rc
                            ELSE IF m = g /\ g # rbnull /\ y = pw THEN s
                            ELSE rb_child(t, m, y)
  /\ \A m \in Node0 : rb_parent(mv, m) = IF m = s THEN g ELSE IF m = lc \/ m = rc THEN s
                                         ELSE rb_parent(t, m)
  /\ \A m \in Node0 : rb_color(mv, m) = IF m = s THEN rb_color(t, node) ELSE rb_color(t, m)

LEMMA ReplaceIs ==
  ASSUME NEW t, IsTree(t), NEW node \in Nodes, NEW s \in Nodes, s # node,
         NEW g, g = rb_parent(t, node), g # s, NEW pw, pw = rb_which(t, node, g),
         NEW lc, lc = rb_child(t, node, LEFT), lc # rbnull, lc # s,
         NEW rc, rc = rb_child(t, node, RIGHT), rc # rbnull, rc # lc
  PROVE  Moved(replace(t, node, s), t, node, s, g, pw, lc, rc)
<1> DEFINE up    == link(t, g, pw, s)
           left  == link(up, s, LEFT, lc)
           right == link(left, s, RIGHT, rc)
           both  == IF s = rc THEN left ELSE right
           root  == IF node = t.root THEN set_root(both, s) ELSE both
           mv    == set_color(root, s, rb_color(t, node))
<1>1. replace(t, node, s) = mv
  BY Zenon DEF replace
<1>2. /\ node \in Node0 /\ s \in Node0 /\ s # rbnull /\ g \in Node0 /\ pw \in Sides
      /\ lc \in Node0 /\ rc \in Node0 /\ rb_color(t, node) \in Colors
  <2>1. node \in Node0 /\ s \in Node0 /\ s # rbnull
    BY NodesAssumption DEF Node0
  <2>2. g \in Node0
    BY <2>1, ReadsAre
  <2> QED BY <2>1, <2>2, ReadsAre, SidesAre
<1>3. Linked(up, t, g, pw, s)
  BY <1>2, LinkIs
<1>4. Linked(left, up, s, LEFT, lc)
  <2>1. IsTree(up)
    BY <1>3 DEF Linked
  <2> HIDE DEF up
  <2> QED BY <1>2, <2>1, SidesAre, LinkIs
<1> HIDE DEF up
<1>5. Linked(right, left, s, RIGHT, rc)
  <2>1. IsTree(left)
    BY <1>4 DEF Linked
  <2> HIDE DEF left
  <2> QED BY <1>2, <2>1, SidesAre, LinkIs
<1> HIDE DEF left, right
<1>6. /\ IsTree(both) /\ both.value = t.value /\ both.root = t.root
      /\ \A m \in Node0, y \in Sides :
           rb_child(both, m, y) = IF m = s /\ y = LEFT THEN lc
                                  ELSE IF m = s /\ s # rc /\ y = RIGHT THEN rc
                                  ELSE IF m = g /\ g # rbnull /\ y = pw THEN s
                                  ELSE rb_child(t, m, y)
      /\ \A m \in Node0 : rb_parent(both, m) = IF m = s THEN g ELSE IF m = lc \/ m = rc THEN s
                                               ELSE rb_parent(t, m)
      /\ \A m \in Node0 : rb_color(both, m) = rb_color(t, m)
  <2>1. CASE s = rc
    <3>1. both = left
      BY <2>1
    <3> HIDE DEF both
    <3>2. IsTree(both) /\ both.value = t.value /\ both.root = t.root
      BY <1>3, <1>4, <3>1 DEF Linked
    <3>3. \A m \in Node0, y \in Sides :
           rb_child(both, m, y) = IF m = s /\ y = LEFT THEN lc
                                  ELSE IF m = g /\ g # rbnull /\ y = pw THEN s
                                  ELSE rb_child(t, m, y)
      BY <1>2, <1>3, <1>4, <3>1 DEF Linked
    <3>4. \A m \in Node0 : rb_parent(both, m) = IF m = s THEN g ELSE IF m = lc THEN s
                                                ELSE rb_parent(t, m)
      BY <1>2, <1>3, <1>4, <3>1 DEF Linked
    <3>5. \A m \in Node0 : rb_color(both, m) = rb_color(t, m)
      BY <1>3, <1>4, <3>1 DEF Linked
    <3> QED BY <2>1, <3>2, <3>3, <3>4, <3>5
  <2>2. CASE s # rc
    <3>1. both = right
      BY <2>2
    <3> HIDE DEF both
    <3>2. IsTree(both) /\ both.value = t.value /\ both.root = t.root
      BY <1>3, <1>4, <1>5, <3>1 DEF Linked
    <3>3. \A m \in Node0, y \in Sides :
           rb_child(both, m, y) = IF m = s /\ y = LEFT THEN lc
                                  ELSE IF m = s /\ y = RIGHT THEN rc
                                  ELSE IF m = g /\ g # rbnull /\ y = pw THEN s
                                  ELSE rb_child(t, m, y)
      BY <1>2, <1>3, <1>4, <1>5, <3>1, SidesAre DEF Linked
    <3>4. \A m \in Node0 : rb_parent(both, m) = IF m = s THEN g ELSE IF m = lc \/ m = rc THEN s
                                                ELSE rb_parent(t, m)
      BY <1>2, <1>3, <1>4, <1>5, <2>2, <3>1 DEF Linked
    <3>5. \A m \in Node0 : rb_color(both, m) = rb_color(t, m)
      BY <1>3, <1>4, <1>5, <3>1 DEF Linked
    <3> QED BY <2>2, <3>2, <3>3, <3>4, <3>5
  <2> QED BY <2>1, <2>2
<1> HIDE DEF both
<1>7. /\ IsTree(root) /\ root.value = both.value /\ root.root = (IF node = t.root THEN s ELSE t.root)
      /\ \A m \in Node0 : rb_parent(root, m) = rb_parent(both, m) /\ rb_color(root, m) = rb_color(both, m)
      /\ \A m \in Node0, y \in Sides : rb_child(root, m, y) = rb_child(both, m, y)
  <2>1. RootSet(set_root(both, s), both, s)
    BY <1>2, <1>6, SetRootIs
  <2>2. CASE node = t.root
    <3>1. root = set_root(both, s)
      BY <2>2
    <3> HIDE DEF root
    <3> QED BY <2>1, <2>2, <3>1 DEF RootSet
  <2>3. CASE node # t.root
    <3>1. root = both
      BY <2>3
    <3> HIDE DEF root
    <3> QED BY <1>6, <2>3, <3>1
  <2> QED BY <2>2, <2>3
<1> HIDE DEF root
<1>8. /\ Tinted(mv, root)
      /\ \A m \in Node0 : rb_color(mv, m) = IF m = s /\ s # rbnull THEN rb_color(t, node) ELSE rb_color(root, m)
  BY <1>2, <1>7, SetColorIs
<1> HIDE DEF mv
<1>9. Moved(mv, t, node, s, g, pw, lc, rc)
  <2>1. IsTree(mv) /\ mv.value = t.value /\ mv.root = (IF node = t.root THEN s ELSE t.root)
    BY <1>6, <1>7, <1>8 DEF Tinted
  <2>2. \A m \in Node0, y \in Sides : rb_child(mv, m, y) = rb_child(both, m, y)
    BY <1>7, <1>8 DEF Tinted
  <2>3. \A m \in Node0 : rb_parent(mv, m) = rb_parent(both, m)
    BY <1>7, <1>8 DEF Tinted
  <2>4. \A m \in Node0 : rb_color(mv, m) = IF m = s THEN rb_color(t, node) ELSE rb_color(t, m)
    BY <1>2, <1>6, <1>7, <1>8
  <2> QED BY <1>6, <2>1, <2>2, <2>3, <2>4 DEF Moved
<1> QED BY <1>1, <1>9

(* The nodes about node, which has two children, and about its successor.  *)
Inner(t, S, node, s, from, wf, right, g, pw, lc, rc) ==
  /\ IsTree(t) /\ S \in SUBSET Nodes /\ S \subseteq Node0 /\ rbnull \notin S /\ rbnull \in Node0
  /\ node \in S /\ s \in S /\ s # node /\ lc \in S /\ rc \in S /\ lc # rc /\ lc # s /\ lc # node /\ rc # node
  /\ lc = rb_child(t, node, LEFT) /\ rc = rb_child(t, node, RIGHT) /\ g = rb_parent(t, node)
  /\ right = rb_child(t, s, RIGHT) /\ rb_child(t, s, LEFT) = rbnull
  /\ g \in S \cup {rbnull} /\ g # s /\ g # node /\ pw \in Sides
  /\ right \in Node0 /\ right # s /\ right # node /\ right # lc /\ right # rc
  /\ right # rbnull => right \in S /\ rb_parent(t, right) = s
  /\ from = rb_parent(t, s) /\ from \in S /\ from # s /\ (from = node <=> s = rc)
  /\ wf = (IF from = node THEN RIGHT ELSE LEFT) /\ rb_child(t, from, wf) = s
  /\ \A m \in S, y \in Sides : /\ rb_child(t, m, y) \in Node0
                               /\ rb_child(t, m, y) = node <=> (m = g /\ g # rbnull /\ y = pw)
                               /\ rb_child(t, m, y) = s <=> (m = from /\ y = wf)
  /\ \A m \in S : rb_parent(t, m) = node <=> (m = lc \/ m = rc)

LEMMA InnerIs ==
  ASSUME NEW t, NEW S, NEW u, Search(t, S, u), NEW node \in S,
         NEW s, Follows(t, S, u, node, s), NEW from, from = rb_parent(t, s),
         NEW wf, wf = (IF from = node THEN RIGHT ELSE LEFT), NEW right, right = rb_child(t, s, RIGHT),
         NEW g, g = rb_parent(t, node), NEW pw, pw = rb_which(t, node, g),
         NEW lc, lc = rb_child(t, node, LEFT), lc # rbnull,
         NEW rc, rc = rb_child(t, node, RIGHT), rc # rbnull
  PROVE  Inner(t, S, node, s, from, wf, right, g, pw, lc, rc)
<1>1. /\ IsTree(t) /\ S \in SUBSET Nodes /\ rbnull \notin S /\ S \subseteq Node0 /\ rbnull \in Node0
      /\ Shape(t, S, u) /\ u[rbnull] = {}
  BY NodesAssumption DEF Search, Shape, Node0
<1>2. /\ s \in S /\ s # node /\ s \in u[rc] /\ u[s] \subseteq u[rc] /\ rb_child(t, s, LEFT) = rbnull
      /\ from \in S /\ (from = node <=> s = rc) /\ (from # node => rb_child(t, from, LEFT) = s)
  BY DEF Follows
<1>3. /\ lc \in S /\ rc \in S /\ lc # rc /\ lc # node /\ rc # node
      /\ rb_parent(t, lc) = node /\ rb_parent(t, rc) = node /\ node \notin u[rc]
      /\ lc \in u[lc] /\ rc \in u[rc] /\ \A x \in Nodes : ~ (x \in u[lc] /\ x \in u[rc])
  <2>1. /\ lc \in S /\ lc # node /\ rb_parent(t, lc) = node /\ lc \in u[lc]
        /\ rb_child(t, node, Other(LEFT)) # lc
    BY <1>1, SidesAre, FamilyIs
  <2>2. /\ rc \in S /\ rc # node /\ rb_parent(t, rc) = node /\ node \notin u[rc] /\ rc \in u[rc]
    BY <1>1, SidesAre, FamilyIs
  <2>3. \A x \in Nodes : ~ (x \in u[lc] /\ x \in u[rc])
    BY <1>1, SidesAre, FamilyIs
  <2> QED BY <2>1, <2>2, <2>3, SidesAre
<1>4. lc # s
  BY <1>1, <1>2, <1>3
<1>5. wf \in Sides /\ rb_child(t, from, wf) = s
  BY <1>2, SidesAre
<1>6. from # s
  BY <1>1, <1>2, <1>5, FamilyIs
<1>7. /\ right \in Node0 /\ right # s
      /\ right # rbnull => right \in S /\ rb_parent(t, right) = s /\ right \in u[s]
  <2>1. right \in Node0 /\ right # s /\ u[right] \subseteq u[s]
    BY <1>1, <1>2, SidesAre, FamilyIs
  <2>2. right # rbnull => right \in S /\ rb_parent(t, right) = s /\ right \in u[right]
    BY <1>1, <1>2, SidesAre, FamilyIs
  <2> QED BY <2>1, <2>2
<1>8. right # node /\ right # lc /\ right # rc
  BY <1>1, <1>2, <1>3, <1>7
<1>9. g \in S \cup {rbnull} /\ g # node /\ pw \in Sides /\ (g # rbnull => rb_child(t, g, pw) = node /\ node \in u[g])
  <2>1. CASE node = t.root
    <3>1. g = rbnull
      BY <1>1, <2>1, FamilyIs
    <3> QED BY <1>1, <3>1, ReadsAre
  <2>2. CASE node # t.root
    BY <1>1, <2>2, ParentIs
  <2> QED BY <2>1, <2>2
<1>10. g # s
  <2>1. ASSUME g = s PROVE FALSE
    <3>1. node \in u[s]
      BY <1>1, <1>2, <1>9, <2>1
    <3> QED BY <1>2, <1>3, <3>1
  <2> QED BY <2>1
<1>11. ASSUME NEW m \in S, NEW y \in Sides
       PROVE  /\ rb_child(t, m, y) \in Node0
              /\ rb_child(t, m, y) = node <=> (m = g /\ g # rbnull /\ y = pw)
              /\ rb_child(t, m, y) = s <=> (m = from /\ y = wf)
  <2>1. rb_child(t, m, y) \in Node0
    BY <1>1, FamilyIs
  <2>2. ASSUME rb_child(t, m, y) = node PROVE m = g /\ g # rbnull /\ y = pw
    <3>1. node # rbnull /\ rb_parent(t, node) = m
      BY <1>1, <2>2, FamilyIs
    <3>2. g = m /\ g # rbnull
      BY <1>1, <3>1
    <3>3. rb_child(t, g, pw) = rb_child(t, m, y)
      BY <1>9, <2>2, <3>2
    <3>4. pw = y
      BY <1>1, <1>9, <2>2, <3>1, <3>2, <3>3, OnlyChild
    <3> QED BY <3>2, <3>4
  <2>3. ASSUME rb_child(t, m, y) = s PROVE m = from /\ y = wf
    <3>1. s # rbnull
      BY <1>1, <1>2
    <3> QED BY <1>1, <1>2, <1>5, <2>3, <3>1, OnlyChild
  <2> QED BY <1>5, <1>9, <2>1, <2>2, <2>3
<1>12. ASSUME NEW m \in S, rb_parent(t, m) = node PROVE m = lc \/ m = rc
  <2>1. Kin(t, S, m) /\ node # rbnull
    BY <1>1 DEF Shape
  <2>2. IsChild(t, m, node)
    BY <1>12, <2>1 DEF Kin
  <2> QED BY <2>2, SidesAre DEF IsChild
<1> QED BY <1>1, <1>2, <1>3, <1>4, <1>5, <1>6, <1>7, <1>8, <1>9, <1>10, <1>11, <1>12 DEF Inner

(* After both links s is where node was, in a tree that lacks its old      *)
(* place.                                                                  *)
LEMMA InnerReplaced ==
  ASSUME NEW t, NEW S, NEW node, NEW s, NEW from, NEW wf, NEW right, NEW g, NEW pw, NEW lc, NEW rc,
         Inner(t, S, node, s, from, wf, right, g, pw, lc, rc),
         NEW t1, Linked(t1, t, from, wf, right),
         NEW mv, Moved(mv, t, node, s, g, pw, lc, rc),
         NEW q, q = (IF from = node THEN s ELSE from), NEW L, Linked(L, mv, q, wf, right)
  PROVE  Replaced(L, t1, (S \ {s}) \ {node}, node, s)
<1> DEFINE T == (S \ {s}) \ {node}
<1>1. /\ IsTree(t) /\ S \in SUBSET Nodes /\ S \subseteq Node0 /\ rbnull \notin S /\ rbnull \in Node0
      /\ node \in S /\ s \in S /\ s # node /\ lc \in S /\ rc \in S /\ lc # rc /\ lc # s /\ lc # node /\ rc # node
      /\ lc = rb_child(t, node, LEFT) /\ rc = rb_child(t, node, RIGHT) /\ g = rb_parent(t, node)
      /\ right = rb_child(t, s, RIGHT) /\ rb_child(t, s, LEFT) = rbnull
      /\ g \in S \cup {rbnull} /\ g # s /\ g # node /\ pw \in Sides
      /\ right \in Node0 /\ right # s /\ right # node /\ right # lc /\ right # rc
      /\ right # rbnull => right \in S /\ rb_parent(t, right) = s
      /\ from = rb_parent(t, s) /\ from \in S /\ from # s /\ (from = node <=> s = rc)
      /\ wf = (IF from = node THEN RIGHT ELSE LEFT) /\ rb_child(t, from, wf) = s
  BY DEF Inner
<1>2. \A m \in S, y \in Sides : /\ rb_child(t, m, y) \in Node0
                                /\ rb_child(t, m, y) = node <=> (m = g /\ g # rbnull /\ y = pw)
                                /\ rb_child(t, m, y) = s <=> (m = from /\ y = wf)
  BY DEF Inner
<1>3. \A m \in S : rb_parent(t, m) = node <=> (m = lc \/ m = rc)
  BY DEF Inner
<1>4. IsTree(L) /\ L.value = t1.value /\ L.root = (IF t1.root = node THEN s ELSE t1.root)
  BY DEF Linked, Moved
<1>5. wf \in Sides /\ q \in Node0 /\ q # rbnull /\ (q = s <=> from = node)
  BY <1>1, SidesAre
<1>6. \A m \in Node0, y \in Sides :
        /\ rb_child(t1, m, y) = IF m = from /\ y = wf THEN right ELSE rb_child(t, m, y)
        /\ rb_child(L, m, y) = IF m = q /\ y = wf THEN right
                               ELSE IF m = s /\ y = LEFT THEN lc
                               ELSE IF m = s /\ s # rc /\ y = RIGHT THEN rc
                               ELSE IF m = g /\ g # rbnull /\ y = pw THEN s
                               ELSE rb_child(t, m, y)
  <2>1. \A m \in Node0, y \in Sides :
          rb_child(t1, m, y) = IF m = from /\ y = wf THEN right ELSE rb_child(t, m, y)
    BY <1>1 DEF Linked
  <2>2. \A m \in Node0, y \in Sides :
          rb_child(L, m, y) = IF m = q /\ y = wf THEN right ELSE rb_child(mv, m, y)
    BY <1>5 DEF Linked
  <2>3. \A m \in Node0, y \in Sides :
          rb_child(mv, m, y) = IF m = s /\ y = LEFT THEN lc
                               ELSE IF m = s /\ s # rc /\ y = RIGHT THEN rc
                               ELSE IF m = g /\ g # rbnull /\ y = pw THEN s
                               ELSE rb_child(t, m, y)
    BY DEF Moved
  <2> QED BY <2>1, <2>2, <2>3
<1>7. ASSUME NEW y \in Sides PROVE rb_child(L, s, y) = rb_child(t1, node, y)
  <2>1. y = LEFT \/ y = RIGHT
    BY SidesAre
  <2>2. s \in Node0 /\ node \in Node0
    BY <1>1
  <2>3. CASE from = node
    BY <1>1, <1>5, <1>6, <2>1, <2>2, <2>3, SidesAre
  <2>4. CASE from # node
    BY <1>1, <1>5, <1>6, <2>1, <2>2, <2>4, SidesAre
  <2> QED BY <2>3, <2>4
<1>8. ASSUME NEW m \in T, NEW y \in Sides
      PROVE  rb_child(L, m, y) = IF rb_child(t1, m, y) = node THEN s ELSE rb_child(t1, m, y)
  <2>1. m \in S /\ m # s /\ m # node /\ m \in Node0
    BY <1>1
  <2>2. /\ rb_child(t1, m, y) = IF m = from /\ y = wf THEN right ELSE rb_child(t, m, y)
        /\ rb_child(L, m, y) = IF m = q /\ y = wf THEN right
                               ELSE IF m = g /\ g # rbnull /\ y = pw THEN s
                               ELSE rb_child(t, m, y)
    BY <1>6, <2>1
  <2>3. m = q <=> m = from
    BY <2>1
  <2> QED BY <1>1, <1>2, <2>1, <2>2, <2>3
<1>9. \A m \in Node0 :
        /\ rb_parent(t1, m) = IF m = right /\ right # rbnull THEN from ELSE rb_parent(t, m)
        /\ rb_parent(L, m) = IF m = right /\ right # rbnull THEN q
                             ELSE IF m = s THEN g ELSE IF m = lc \/ m = rc THEN s ELSE rb_parent(t, m)
  <2>1. \A m \in Node0 :
          rb_parent(t1, m) = IF m = right /\ right # rbnull THEN from ELSE rb_parent(t, m)
    BY DEF Linked
  <2>2. \A m \in Node0 : rb_parent(L, m) = IF m = right /\ right # rbnull THEN q ELSE rb_parent(mv, m)
    BY DEF Linked
  <2>3. \A m \in Node0 : rb_parent(mv, m) = IF m = s THEN g ELSE IF m = lc \/ m = rc THEN s
                                            ELSE rb_parent(t, m)
    BY DEF Moved
  <2> QED BY <2>1, <2>2, <2>3
<1>10. rb_parent(L, s) = rb_parent(t1, node)
  BY <1>1, <1>9
<1>11. ASSUME NEW m \in T
       PROVE  rb_parent(L, m) = IF rb_parent(t1, m) = node THEN s ELSE rb_parent(t1, m)
  <2>1. m \in S /\ m # s /\ m # node /\ m \in Node0
    BY <1>1
  <2>2. CASE m = right /\ right # rbnull
    BY <1>9, <2>1, <2>2
  <2>3. CASE ~ (m = right /\ right # rbnull)
    BY <1>3, <1>9, <2>1, <2>3
  <2> QED BY <2>2, <2>3
<1>12. rb_color(L, s) = rb_color(t1, node) /\ \A m \in T : rb_color(L, m) = rb_color(t1, m)
  <2>1. \A m \in Node0 : /\ rb_color(L, m) = rb_color(mv, m)
                         /\ rb_color(mv, m) = IF m = s THEN rb_color(t, node) ELSE rb_color(t, m)
                         /\ rb_color(t1, m) = rb_color(t, m)
    BY DEF Linked, Moved
  <2> QED BY <1>1, <2>1
<1> QED BY <1>4, <1>7, <1>8, <1>10, <1>11, <1>12 DEF Replaced

(* The order that s keeps in node's place, in the tree that lacks it.      *)
LEMMA InnerOrder ==
  ASSUME NEW t, NEW S, NEW u, Search(t, S, u), NEW node, NEW s, Follows(t, S, u, node, s),
         NEW from, NEW wf, NEW right, NEW g, NEW pw, NEW lc, NEW rc,
         Inner(t, S, node, s, from, wf, right, g, pw, lc, rc),
         NEW t1, Linked(t1, t, from, wf, right), NEW k, k = [m \in Node0 |-> u[m] \ {s}]
  PROVE  InPlaceOf(t1, S \ {s}, k, node, s)
<1>1. /\ IsTree(t) /\ S \in SUBSET Nodes /\ S \subseteq Node0 /\ rbnull \notin S /\ rbnull \in Node0
      /\ node \in S /\ s \in S /\ s # node /\ lc \in S /\ rc \in S
      /\ lc = rb_child(t, node, LEFT) /\ rc = rb_child(t, node, RIGHT)
      /\ right = rb_child(t, s, RIGHT) /\ right \in Node0 /\ from \in S
      /\ wf = (IF from = node THEN RIGHT ELSE LEFT)
      /\ \A m \in S, y \in Sides : rb_child(t, m, y) \in Node0
  BY DEF Inner
<1>2. /\ s \in u[rc] /\ u[s] \subseteq u[rc] /\ \A m \in u[rc] : t.value[s] <= t.value[m]
  BY <1>1 DEF Follows
<1>3. Shape(t, S, u) /\ Ordered(t, S, u) /\ t.value \in [Nodes -> Nat] /\ u[rbnull] = {}
  BY <1>1 DEF Search, Shape, IsTree
<1>4. /\ u[right] \subseteq u[s] /\ u[rc] \in SUBSET S /\ u[lc] \in SUBSET S
      /\ node \in u[node] /\ node \notin u[rc] /\ u[rc] \subseteq u[node]
  <2>1. u[right] \subseteq u[s]
    BY <1>1, <1>3, SidesAre, FamilyIs
  <2>2. u[rc] \in SUBSET S /\ u[lc] \in SUBSET S /\ node \in u[node]
    BY <1>1, <1>3, FamilyIs
  <2>3. node \notin u[rc] /\ u[rc] \subseteq u[node]
    BY <1>1, <1>3, SidesAre, FamilyIs
  <2> QED BY <2>1, <2>2, <2>3
<1>5. /\ t1.value = t.value /\ \A m \in Node0 : k[m] = u[m] \ {s}
      /\ \A m \in S, y \in Sides :
           rb_child(t1, m, y) = IF m = from /\ y = wf THEN right ELSE rb_child(t, m, y)
  BY <1>1 DEF Linked
<1>6. ASSUME NEW y \in Sides, NEW m \in k[rb_child(t1, node, y)]
      PROVE  Beside(t1.value[m], y, t1.value[s])
  <2>1. CASE y = LEFT
    <3>1. rb_child(t1, node, y) = lc
      BY <1>1, <1>5, <2>1, SidesAre
    <3>2. lc \in Node0
      BY <1>1
    <3>3. m \in u[lc]
      BY <1>5, <1>6, <3>1, <3>2
    <3>4. t.value[m] <= t.value[node]
      BY <1>1, <1>3, <3>3, SidesAre DEF Ordered, Beside
    <3>5. t.value[s] >= t.value[node]
      BY <1>1, <1>2, <1>3, SidesAre DEF Ordered, Beside
    <3>6. t.value[m] \in Nat /\ t.value[node] \in Nat /\ t.value[s] \in Nat
      BY <1>1, <1>3, <1>4, <3>3
    <3>7. t.value[m] <= t.value[s]
      BY <3>4, <3>5, <3>6
    <3> QED BY <1>5, <2>1, <3>7 DEF Beside
  <2>2. CASE y # LEFT
    <3>1. y = RIGHT
      BY <2>2, SidesAre
    <3>2. rb_child(t1, node, y) = right \/ rb_child(t1, node, y) = rc
      BY <1>1, <1>5, <3>1
    <3>3. right \in Node0 /\ rc \in Node0
      BY <1>1
    <3>4. m \in u[right] \/ m \in u[rc]
      BY <1>5, <1>6, <3>2, <3>3
    <3>5. m \in u[rc]
      BY <1>2, <1>4, <3>4
    <3>6. t.value[m] \in Nat /\ t.value[s] \in Nat
      BY <1>1, <1>3, <1>4, <3>5
    <3>7. t.value[m] >= t.value[s]
      BY <1>2, <3>5, <3>6
    <3> QED BY <1>5, <2>2, <3>7 DEF Beside
  <2> QED BY <2>1, <2>2
<1>7. ASSUME NEW a \in S \ {s}, NEW y \in Sides, node \in k[rb_child(t1, a, y)]
      PROVE  Beside(t1.value[s], y, t1.value[a])
  <2>1. CASE a = from /\ y = wf
    <3>1. node \in u[right]
      BY <1>1, <1>5, <1>7, <2>1
    <3> QED BY <1>2, <1>4, <3>1
  <2>2. CASE ~ (a = from /\ y = wf)
    <3> DEFINE f == rb_child(t, a, y)
    <3>1. f \in Node0 /\ node \in u[f]
      BY <1>1, <1>5, <1>7, <2>2
    <3>2. f # rbnull
      BY <1>3, <3>1
    <3>3. f \in S
      BY <1>3, <3>2, FamilyIs
    <3> HIDE DEF f
    <3>4. u[node] \subseteq u[f]
      BY <1>3, <3>1, <3>3, Nested
    <3>5. s \in u[f]
      BY <1>2, <1>4, <3>4
    <3>6. Beside(t.value[s], y, t.value[a])
      BY <1>3, <3>5 DEF Ordered, f
    <3> QED BY <1>5, <3>6
  <2> QED BY <2>1, <2>2
<1> QED BY <1>6, <1>7 DEF InPlaceOf

(* rb_delete, where node has two children.                                 *)
LEMMA RemoveInnerIs ==
  ASSUME NEW t, NEW S, Sound(t, S), NEW node \in S, \A y \in Sides : rb_child(t, node, y) # rbnull
  PROVE  Sound(remove_inner(t, node), S \ {node}) /\ Kept(remove_inner(t, node), t, S)
<1> DEFINE s     == Successor(t, node)
           from  == rb_parent(t, s)
           wf    == IF from = node THEN RIGHT ELSE LEFT
           right == rb_child(t, s, RIGHT)
           color == rb_color(t, s)
           g     == rb_parent(t, node)
           pw    == rb_which(t, node, g)
           lc    == rb_child(t, node, LEFT)
           rc    == rb_child(t, node, RIGHT)
           mv    == replace(t, node, s)
           q     == IF from = node THEN s ELSE from
           t1    == link(t, from, wf, right)
           L     == link(mv, q, wf, right)
           gone  == rb_delete_with_at_most_one_child(mv, right, q, wf, color)
<1>1. PICK u : Search(t, S, u)
  BY DEF Sound
<1>2. remove_inner(t, node) = gone
  <2>1. remove_inner(t, node) = IF from = node
                                THEN rb_delete_with_at_most_one_child(mv, right, s, RIGHT, color)
                                ELSE rb_delete_with_at_most_one_child(mv, right, from, LEFT, color)
    BY Zenon DEF remove_inner
  <2> HIDE DEF s, mv, right, color
  <2> QED BY <2>1
<1>3. Follows(t, S, u, node, s)
  BY <1>1, SidesAre, FollowsIs
<1> HIDE DEF s
<1>4. Inner(t, S, node, s, from, wf, right, g, pw, lc, rc)
  <2>1. lc # rbnull /\ rc # rbnull
    BY SidesAre
  <2> QED BY <1>1, <1>3, <2>1, InnerIs
<1> HIDE DEF from, wf, right, g, pw, lc, rc, color
<1>5. /\ IsTree(t) /\ S \in SUBSET Nodes /\ S \subseteq Node0 /\ rbnull \notin S /\ rbnull \in Node0
      /\ s \in S /\ s # node /\ lc \in S /\ rc \in S /\ lc # rc /\ lc # s
      /\ g # s /\ right \in Node0 /\ right # node /\ from \in S /\ rb_child(t, s, LEFT) = rbnull
      /\ wf \in Sides /\ rb_child(t, from, wf) = s /\ (right # rbnull => right \in S)
  <2>1. wf \in Sides
    BY SidesAre DEF wf
  <2> QED BY <1>4, <2>1 DEF Inner
<1>6. Moved(mv, t, node, s, g, pw, lc, rc)
  <2>1. node \in Nodes /\ s \in Nodes /\ lc # rbnull /\ rc # rbnull
    BY <1>5
  <2> QED BY <1>5, <2>1, ReplaceIs DEF g, pw, lc, rc
<1> HIDE DEF mv
<1>7. Linked(t1, t, from, wf, right)
  <2>1. from \in Node0
    BY <1>5
  <2> QED BY <1>5, <2>1, LinkIs
<1> HIDE DEF t1
<1>8. Linked(L, mv, q, wf, right)
  <2>1. q \in Node0 /\ IsTree(mv)
    BY <1>5, <1>6 DEF Moved
  <2> QED BY <1>5, <2>1, LinkIs
<1> HIDE DEF L
<1>9. Replaced(L, t1, (S \ {s}) \ {node}, node, s)
  BY <1>4, <1>6, <1>7, <1>8, InnerReplaced
<1> DEFINE k == [m \in Node0 |-> u[m] \ {s}]
<1>10. InPlaceOf(t1, S \ {s}, k, node, s)
  BY <1>1, <1>3, <1>4, <1>7, InnerOrder
<1>11. right = rb_child(t, s, Other(LEFT)) /\ LEFT \in Sides
  BY SidesAre DEF right
<1>12. Search(t1, S \ {s}, k)
  BY <1>1, <1>5, <1>7, <1>11, SpliceShape
<1>13. Missing(t1, S \ {s}, from, wf, color) /\ rb_child(t1, from, wf) = right
  BY <1>5, <1>7, <1>11, SpliceIs DEF color
<1> HIDE DEF k
<1> DEFINE Z == ((S \ {s}) \ {node}) \cup {s}
<1>14. Missing(L, Z, q, wf, color) /\ rb_child(L, q, wf) = right
  <2>1. node \in S \ {s} /\ s \in Nodes \ (S \ {s}) /\ rb_child(t1, from, wf) # node
    BY <1>5, <1>13
  <2> DEFINE R == S \ {s}
  <2>2. Missing(t1, R, from, wf, color)
    BY <1>13
  <2>3. Search(t1, R, k)
    BY <1>12
  <2>4. Replaced(L, t1, R \ {node}, node, s)
    BY <1>9
  <2>5. InPlaceOf(t1, R, k, node, s)
    BY <1>10
  <2>6. q = (IF from = node THEN s ELSE from)
    OBVIOUS
  <2>7. node \in R /\ s \in Nodes \ R /\ rb_child(t1, from, wf) # node
    BY <2>1
  <2> HIDE DEF q, R
  <2>8. Missing(L, (R \ {node}) \cup {s}, q, wf, color)
    BY <2>2, <2>3, <2>4, <2>5, <2>6, <2>7, ReplacedIs
  <2>9. rb_child(L, q, wf) = right
    BY <1>5, <1>8, <2>6 DEF Linked
  <2> QED BY <2>8, <2>9 DEF R
<1>15. Sound(gone, Z) /\ Kept(gone, L, Z)
  <2>1. link(mv, q, wf, right) = L
    BY DEF L
  <2> HIDE DEF q, Z
  <2> QED BY <1>14, <2>1, OneLess
<1>16. Z = S \ {node}
  BY <1>5
<1>17. Kept(gone, t, S)
  <2>1. L.value = t.value
    BY <1>6, <1>8 DEF Linked, Moved
  <2>2. ASSUME NEW n \in Nodes \ S PROVE rb_parent(L, n) = rb_parent(t, n)
    <3>1. n \in Node0 /\ n # rbnull /\ n # s /\ n # lc /\ n # rc /\ ~ (n = right /\ right # rbnull)
      BY <1>5, NodesAssumption DEF Node0
    <3>2. rb_parent(L, n) = rb_parent(mv, n)
      BY <1>8, <3>1 DEF Linked
    <3> QED BY <1>6, <3>1, <3>2 DEF Moved
  <2> HIDE DEF gone, Z
  <2> QED BY <1>15, <1>16, <2>1, <2>2 DEF Kept
<1> HIDE DEF gone
<1> QED BY <1>2, <1>15, <1>16, <1>17

(* node is out of the tree.                                                *)
Gone(f, r, node) ==
  /\ IsTree(f) /\ f.root = r.root /\ f.value = [r.value EXCEPT ![node] = 0]
  /\ \A m \in Node0 : m # node => rb_parent(f, m) = rb_parent(r, m) /\ rb_color(f, m) = rb_color(r, m)
  /\ \A m \in Node0, w \in Sides : m # node => rb_child(f, m, w) = rb_child(r, m, w)
  /\ f.parent[node] = node

LEMMA LeaveIs ==
  ASSUME NEW r, IsTree(r), NEW node \in Nodes
  PROVE  Gone(leave(r, node), r, node)
<1> DEFINE none == [w \in Sides |-> rbnull]
           f == leave(r, node)
<1>1. /\ f.root = r.root /\ f.parent = [r.parent EXCEPT ![node] = node]
      /\ f.child = [r.child EXCEPT ![node] = none] /\ f.color = [r.color EXCEPT ![node] = "RED"]
      /\ f.value = [r.value EXCEPT ![node] = 0]
      /\ f = [root |-> f.root, parent |-> f.parent, child |-> f.child, color |-> f.color, value |-> f.value]
  <2>1. r = [root |-> r.root, parent |-> r.parent, child |-> r.child, color |-> r.color, value |-> r.value]
    BY DEF IsTree
  <2> DEFINE f1 == [r EXCEPT !.parent[node] = node]
             f2 == [f1 EXCEPT !.child[node] = none]
             f3 == [f2 EXCEPT !.color[node] = "RED"]
             f4 == [f3 EXCEPT !.value[node] = 0]
  <2>2. f = f4
    BY DEF leave
  <2>3. IsRecord(f1) /\ f1.root = r.root /\ f1.parent = [r.parent EXCEPT ![node] = node]
        /\ f1.child = r.child /\ f1.color = r.color /\ f1.value = r.value
    BY <2>1 DEF IsRecord
  <2> HIDE DEF f, f1
  <2>4. IsRecord(f2) /\ f2.root = f1.root /\ f2.child = [f1.child EXCEPT ![node] = none]
        /\ f2.parent = f1.parent /\ f2.color = f1.color /\ f2.value = f1.value
    BY <2>3 DEF IsRecord
  <2> HIDE DEF f2
  <2>5. IsRecord(f3) /\ f3.root = f2.root /\ f3.color = [f2.color EXCEPT ![node] = "RED"]
        /\ f3.parent = f2.parent /\ f3.child = f2.child /\ f3.value = f2.value
    BY <2>4 DEF IsRecord
  <2> HIDE DEF f3
  <2>6. IsRecord(f4) /\ f4.root = f3.root /\ f4.value = [f3.value EXCEPT ![node] = 0]
        /\ f4.parent = f3.parent /\ f4.child = f3.child /\ f4.color = f3.color
    BY <2>5 DEF IsRecord
  <2> HIDE DEF f4, none
  <2>7. f = [root |-> f.root, parent |-> f.parent, child |-> f.child, color |-> f.color, value |-> f.value]
    BY <2>2, <2>6 DEF IsRecord
  <2> QED BY <2>2, <2>3, <2>4, <2>5, <2>6, <2>7
<1>2. /\ r.root \in Node0 /\ r.parent \in [Nodes -> Node0] /\ r.child \in [Nodes -> [Sides -> Node0]]
      /\ r.color \in [Nodes -> Colors] /\ r.value \in [Nodes -> Nat]
  BY DEF IsTree
<1>3. node \in Node0 /\ rbnull \in Node0 /\ none \in [Sides -> Node0] /\ "RED" \in Colors
  BY DEF Node0, Colors
<1> HIDE DEF f, none
<1>4. IsTree(f)
  <2>1. f.parent \in [Nodes -> Node0]
    BY <1>1, <1>2, <1>3
  <2>2. f.child \in [Nodes -> [Sides -> Node0]]
    BY <1>1, <1>2, <1>3
  <2>3. f.color \in [Nodes -> Colors] /\ f.value \in [Nodes -> Nat]
    BY <1>1, <1>2, <1>3
  <2> QED BY <1>1, <1>2, <2>1, <2>2, <2>3 DEF IsTree
<1>5. \A m \in Node0 : m # node => rb_parent(f, m) = rb_parent(r, m) /\ rb_color(f, m) = rb_color(r, m)
  BY <1>1, <1>2 DEF rb_parent, rb_color, Node0
<1>6. \A m \in Node0, w \in Sides : m # node => rb_child(f, m, w) = rb_child(r, m, w)
  BY <1>1, <1>2 DEF rb_child, Node0
<1>7. f.parent[node] = node
  BY <1>1, <1>2
<1>8. Gone(f, r, node)
  BY <1>1, <1>4, <1>5, <1>6, <1>7 DEF Gone
<1> QED BY <1>8 DEF f

(* A node of the tree is not its own parent.                               *)
LEMMA NotItsParent ==
  ASSUME NEW t, NEW S, Sound(t, S), NEW n \in S
  PROVE  t.parent[n] # n
<1>1. PICK u : Shape(t, S, u)
  BY DEF Sound, Search
<1>2. n # rbnull /\ Kin(t, S, n) /\ rb_parent(t, n) = t.parent[n]
  BY <1>1, FamilyIs DEF Shape, rb_parent
<1>3. ASSUME t.parent[n] = n PROVE FALSE
  <2>1. IsChild(t, n, n)
    BY <1>2, <1>3 DEF Kin
  <2>2. PICK w \in Sides : rb_child(t, n, w) = n
    BY <2>1 DEF IsChild
  <2> QED BY <1>1, <2>2, FamilyIs
<1> QED BY <1>3

(* rb_delete.                                                              *)
Deleted(f, t, S, node) ==
  /\ Sound(f, S \ {node}) /\ f.value = [t.value EXCEPT ![node] = 0] /\ f.parent[node] = node
  /\ \A m \in Nodes \ S : rb_parent(f, m) = rb_parent(t, m)

LEMMA DeleteIs ==
  ASSUME NEW t, NEW S, Sound(t, S), NEW node \in S
  PROVE  Deleted(rb_delete(t, node), t, S, node)
<1> DEFINE r == IF \A w \in Sides : rb_child(t, node, w) # rbnull
                THEN remove_inner(t, node) ELSE remove_outer(t, node)
           f == leave(r, node)
           T == S \ {node}
<1>1. rb_delete(t, node) = f
  BY Zenon DEF rb_delete
<1>2. Sound(r, S \ {node}) /\ Kept(r, t, S)
  <2>1. CASE \A w \in Sides : rb_child(t, node, w) # rbnull
    BY <2>1, RemoveInnerIs
  <2>2. CASE ~ \A w \in Sides : rb_child(t, node, w) # rbnull
    BY <2>2, RemoveOuterIs
  <2> QED BY <2>1, <2>2
<1> HIDE DEF r
<1>3. S \in SUBSET Nodes /\ IsTree(r) /\ S \subseteq Node0
  BY <1>2 DEF Sound, Search, Shape, Node0
<1>4. Gone(f, r, node)
  BY <1>3, LeaveIs
<1> HIDE DEF f
<1>5. Sound(f, T)
  <2>1. IsTree(f) /\ f.root = r.root
    BY <1>4 DEF Gone
  <2>2. \A m \in T : /\ rb_parent(f, m) = rb_parent(r, m) /\ rb_color(f, m) = rb_color(r, m)
                     /\ f.value[m] = r.value[m]
    <3>1. \A m \in T : m \in Node0 /\ m \in Nodes /\ m # node
      BY <1>3
    <3>2. r.value \in [Nodes -> Nat]
      BY <1>3 DEF IsTree
    <3> QED BY <1>4, <3>1, <3>2 DEF Gone
  <2>3. \A m \in T, w \in Sides : rb_child(f, m, w) = rb_child(r, m, w)
    BY <1>3, <1>4 DEF Gone
  <2> HIDE DEF T
  <2>4. Sound(r, T)
    BY <1>2 DEF T
  <2> QED BY <2>1, <2>2, <2>3, <2>4, RestSound
<1>6. f.value = [t.value EXCEPT ![node] = 0] /\ f.parent[node] = node
  BY <1>2, <1>4 DEF Gone, Kept
<1>7. \A m \in Nodes \ S : rb_parent(f, m) = rb_parent(t, m)
  <2>1. \A m \in Nodes \ S : m \in Node0 /\ m # node
    BY DEF Node0
  <2> QED BY <1>2, <1>4, <2>1 DEF Gone, Kept
<1>8. Deleted(f, t, S, node)
  BY <1>5, <1>6, <1>7 DEF Deleted
<1> QED BY <1>1, <1>8

----------------------------------------------------------------------------
(***************************************************************************)
(* The inductive invariant: what is in the tree is a sound tree of nodes,  *)
(* with what is under each of them and a number of black nodes below it    *)
(* as witnesses.                                                           *)
(***************************************************************************)
Inside == {n \in Nodes : InTree(n)}

IInv ==
  /\ Sound(tree, Inside)
  /\ \A n \in Nodes : tree.value[n] \in IF InTree(n) THEN Values ELSE {0}

LEMMA InitHolds == Init => IInv
<1> SUFFICES ASSUME Init PROVE IInv
  OBVIOUS
<1>1. IsTree(tree) /\ tree.root = rbnull
  BY DEF Init, IsTree, Node0, Colors
<1>2. \A n \in Nodes : ~ InTree(n) /\ tree.value[n] = 0
  BY DEF Init, InTree
<1>3. Inside = {}
  BY <1>2 DEF Inside
<1> QED BY <1>1, <1>2, <1>3, NoNode DEF IInv

LEMMA InsertHolds ==
  ASSUME IInv, NEW n \in Nodes, NEW v \in Values, Insert(n, v)
  PROVE  IInv'
<1> DEFINE S == Inside
           s == [tree EXCEPT !.value[n] = v]
<1>1. Sound(tree, S) /\ n \in Nodes \ S /\ v \in Nat
  BY ValuesAssumption DEF IInv, Insert, Inside
<1>2. IsTree(tree)
  BY <1>1 DEF Sound, Search, Shape
<1>3. NewValue(s, tree, n, v)
  BY <1>2, NewValueIs DEF IsTree, IsRecord
<1>4. tree' = rb_insert(s, n)
  BY DEF Insert
<1> HIDE DEF s, S
<1>5. /\ Sound(tree', S \cup {n}) /\ tree'.value = [tree.value EXCEPT ![n] = v]
      /\ \A m \in Nodes \ (S \cup {n}) : rb_parent(tree', m) = rb_parent(tree, m)
  BY <1>1, <1>3, <1>4, InsertIs
<1>6. \A m \in Nodes : InTree(m)' <=> m \in S \cup {n}
  <2>1. \A m \in S \cup {n} : tree'.parent[m] # m
    BY <1>5, NotItsParent
  <2>2. \A m \in Nodes \ (S \cup {n}) : tree'.parent[m] = m
    <3>1. \A m \in Nodes \ (S \cup {n}) : tree.parent[m] = m /\ m # rbnull
      BY NodesAssumption DEF S, Inside, InTree
    <3> QED BY <1>5, <3>1 DEF rb_parent
  <2> QED BY <2>1, <2>2 DEF InTree
<1>7. Inside' = S \cup {n}
  BY <1>1, <1>6 DEF S, Inside
<1>8. ASSUME NEW m \in Nodes PROVE tree'.value[m] \in IF InTree(m)' THEN Values ELSE {0}
  <2>1. tree.value \in [Nodes -> Nat]
    BY <1>2 DEF IsTree
  <2>2. CASE m = n
    BY <1>5, <1>6, <2>1, <2>2
  <2>3. CASE m # n
    <3>1. tree.value[m] \in IF InTree(m) THEN Values ELSE {0}
      BY DEF IInv
    <3>2. InTree(m)' <=> InTree(m)
      BY <1>6, <2>3 DEF S, Inside
    <3> QED BY <1>5, <2>1, <2>3, <3>1, <3>2
  <2> QED BY <2>2, <2>3
<1> QED BY <1>5, <1>7, <1>8 DEF IInv

LEMMA DeleteHolds ==
  ASSUME IInv, NEW n \in Nodes, Delete(n)
  PROVE  IInv'
<1> DEFINE S == Inside
<1>1. Sound(tree, S) /\ n \in S /\ tree' = rb_delete(tree, n)
  BY DEF IInv, Delete, Inside
<1>2. IsTree(tree)
  BY <1>1 DEF Sound, Search, Shape
<1> HIDE DEF S
<1>3. /\ Sound(tree', S \ {n}) /\ tree'.value = [tree.value EXCEPT ![n] = 0]
      /\ tree'.parent[n] = n
      /\ \A m \in Nodes \ S : rb_parent(tree', m) = rb_parent(tree, m)
  <2>1. Deleted(rb_delete(tree, n), tree, S, n)
    BY <1>1, DeleteIs
  <2> QED BY <1>1, <2>1 DEF Deleted
<1>4. \A m \in Nodes : InTree(m)' <=> m \in S \ {n}
  <2>1. \A m \in S \ {n} : tree'.parent[m] # m
    BY <1>3, NotItsParent
  <2>2. \A m \in Nodes \ S : tree'.parent[m] = m
    <3>1. \A m \in Nodes \ S : tree.parent[m] = m /\ m # rbnull
      BY NodesAssumption DEF S, Inside, InTree
    <3> QED BY <1>3, <3>1 DEF rb_parent
  <2> QED BY <1>3, <2>1, <2>2 DEF InTree
<1>5. Inside' = S \ {n}
  BY <1>4 DEF S, Inside
<1>6. ASSUME NEW m \in Nodes PROVE tree'.value[m] \in IF InTree(m)' THEN Values ELSE {0}
  <2>1. tree.value \in [Nodes -> Nat]
    BY <1>2 DEF IsTree
  <2>2. CASE m = n
    BY <1>3, <1>4, <2>1, <2>2
  <2>3. CASE m # n
    <3>1. tree.value[m] \in IF InTree(m) THEN Values ELSE {0}
      BY DEF IInv
    <3>2. InTree(m)' <=> InTree(m)
      BY <1>4, <2>3 DEF S, Inside
    <3> QED BY <1>3, <2>1, <2>3, <3>1, <3>2
  <2> QED BY <2>2, <2>3
<1> QED BY <1>3, <1>5, <1>6 DEF IInv

(* The nodes inside the tree are a red-black tree after every insertion    *)
(* and every removal, and only they keep a value.                          *)
THEOREM Invariance == Spec => []IInv
<1>1. IInv /\ [Next]_tree => IInv'
  <2> SUFFICES ASSUME IInv, [Next]_tree PROVE IInv'
    OBVIOUS
  <2>1. ASSUME NEW n \in Nodes, Delete(n) PROVE IInv'
    BY <2>1, DeleteHolds
  <2>2. ASSUME NEW n \in Nodes, NEW v \in Values, Insert(n, v) PROVE IInv'
    BY <2>2, InsertHolds
  <2>3. ASSUME UNCHANGED tree PROVE IInv'
    BY <2>3 DEF IInv, Inside, InTree
  <2> QED BY <2>1, <2>2, <2>3 DEF Next
<1> QED BY <1>1, InitHolds, PTL DEF Spec

(* Every insertion and every removal leaves fields of the right kind.      *)
THEOREM TypeCorrect == Spec => []TypeOK
<1>1. IInv => TypeOK
  <2> SUFFICES ASSUME IInv PROVE TypeOK
    OBVIOUS
  <2>1. IsTree(tree)
    BY DEF IInv, Sound, Search, Shape
  <2> QED BY <2>1 DEF IInv, TypeOK, IsTree, Node0, Colors
<1> QED BY <1>1, Invariance, PTL

(* The kids of the nodes of a set are in it, or it has more than k nodes.  *)
Growing(s, u, n, k) ==
  /\ s \in SUBSET Nodes /\ s \subseteq u[n] /\ n \in s
  /\ (\A m \in s : Kids(m) \subseteq s) \/ Cardinality(s) > k

LEMMA KidsAre ==
  ASSUME NEW S, NEW u, Shape(tree, S, u), NEW m \in S, NEW x \in Kids(m)
  PROVE  x \in S /\ x \in u[m] /\ rb_parent(tree, x) = m
<1>1. PICK w \in Sides : x = rb_child(tree, m, w) /\ x # rbnull
  BY DEF Kids
<1> QED BY <1>1, FamilyIs

(* A set with the kids of each of its nodes has everything under them.     *)
LEMMA Closed ==
  ASSUME NEW S, NEW u, Shape(tree, S, u), NEW n \in S, NEW s \in SUBSET Nodes, n \in s,
         \A m \in s : Kids(m) \subseteq s
  PROVE  u[n] \subseteq s
<1> DEFINE Left  == u[n] \ s
           Sizes == {i \in Nat : \E x \in Left : i = Cardinality(u[x])}
<1>1. S \in SUBSET Nodes /\ IsFiniteSet(Nodes) /\ u[n] \in SUBSET S
  BY NodesAssumption, FamilyIs DEF Shape
<1>2. \A x \in S : Cardinality(u[x]) \in Nat /\ Cardinality(u[x]) <= Cardinality(Nodes)
  <2>1. \A x \in S : u[x] \in SUBSET Nodes
    BY <1>1, FamilyIs
  <2> QED BY <2>1, FewNodes
<1>3. ASSUME Left # {} PROVE FALSE
  <2>1. Sizes \in SUBSET (0 .. Cardinality(Nodes)) /\ Sizes # {} /\ Cardinality(Nodes) \in Nat
    <3>1. Cardinality(Nodes) \in Nat
      BY FewNodes
    <3> QED BY <1>1, <1>2, <1>3, <3>1
  <2>2. PICK i \in Sizes : \A j \in Sizes : j <= i
    <3> HIDE DEF Sizes
    <3> QED BY <2>1, GreatestNatural
  <2>3. PICK x \in Left : i = Cardinality(u[x])
    BY <2>2
  <2>4. x \in u[n] /\ x # n /\ x \notin s /\ x \in S
    BY <1>1, <2>3
  <2> DEFINE p == rb_parent(tree, x)
  <2>5. p \in u[n]
    BY <2>4, Upward
  <2>6. p \in S
    BY <1>1, <2>5
  <2>7. p # rbnull /\ x # rbnull
    BY <2>4, <2>6, FamilyIs
  <2>8. Kin(tree, S, x)
    BY <2>4 DEF Shape
  <2>9. PICK w \in Sides : rb_child(tree, p, w) = x
    BY <2>7, <2>8 DEF Kin, IsChild
  <2>10. x \in Kids(p)
    BY <2>7, <2>9 DEF Kids
  <2>11. p \in Left
    BY <2>4, <2>5, <2>10
  <2>12. Cardinality(u[x]) < Cardinality(u[p])
    BY <2>6, <2>9, MoreUnder
  <2> HIDE DEF p
  <2>13. Cardinality(u[p]) \in Sizes
    BY <1>2, <2>6, <2>11
  <2>14. Cardinality(u[p]) <= i
    BY <2>2, <2>13
  <2> QED BY <1>2, <2>3, <2>4, <2>6, <2>12, <2>14
<1> QED BY <1>3

(* Under(n) is what the tree has under n.                                  *)
LEMMA UnderIs ==
  ASSUME NEW S, NEW u, Shape(tree, S, u), NEW n \in S
  PROVE  Under(n) = u[n]
<1> DEFINE Wider(s) == s \cup UNION {Kids(m) : m \in s}
           Good == [k \in Nat |-> {s \in SUBSET Nodes : Growing(s, u, n, k)}]
           F == [s \in SUBSET Nodes |-> Wider(s)]
           after == CHOOSE g : g = [k \in 0 .. Rounds |-> IF k = 0 THEN {n} \ {rbnull} ELSE Wider(g[k - 1])]
<1>1. Under(n) = after[Rounds]
  BY DEF Under, Loop
<1>2. S \in SUBSET Nodes /\ rbnull \notin S /\ n \in Nodes /\ n \in u[n] /\ u[n] \in SUBSET S
  BY NodesAssumption, FamilyIs DEF Shape
<1>3. {n} \ {rbnull} \in Good[0] /\ {n} \ {rbnull} = {n}
  <2>1. {n} \ {rbnull} = {n}
    BY <1>2
  <2>2. Cardinality({n}) > 0
    BY FS_Singleton
  <2>3. Growing({n}, u, n, 0)
    BY <1>2, <2>2 DEF Growing
  <2> QED BY <1>2, <2>1, <2>3
<1>4. ASSUME NEW k \in 0 .. Rounds, NEW s \in Good[k]
      PROVE  Wider(s) \in Good[k + 1] /\ F[s] = Wider(s)
  <2>1. k \in Nat /\ k + 1 \in Nat
    BY RoundsIs
  <2>2. s \in SUBSET Nodes /\ Growing(s, u, n, k)
    BY <1>4, <2>1
  <2>3. s \subseteq u[n] /\ n \in s /\ ((\A m \in s : Kids(m) \subseteq s) \/ Cardinality(s) > k)
    BY <2>2 DEF Growing
  <2>4. ASSUME NEW m \in s, NEW x \in Kids(m) PROVE x \in u[n] /\ x \in Nodes
    <3>1. m \in S
      BY <1>2, <2>3
    <3>2. x \in u[m]
      BY <3>1, KidsAre
    <3>3. u[m] \subseteq u[n]
      BY <2>3, Nested
    <3> QED BY <1>2, <3>2, <3>3
  <2> DEFINE r == Wider(s)
  <2>5. r \subseteq u[n] /\ r \in SUBSET Nodes /\ s \subseteq r /\ n \in r
    BY <1>2, <2>3, <2>4
  <2>6. CASE \A m \in s : Kids(m) \subseteq s
    <3>1. r = s
      BY <2>6
    <3> QED BY <2>1, <2>2, <2>3, <2>6, <3>1 DEF Growing
  <2>7. CASE ~ \A m \in s : Kids(m) \subseteq s
    <3>1. PICK x \in r : x \notin s
      BY <2>7
    <3>2. IsFiniteSet(r) /\ Cardinality(r) \in Nat /\ Cardinality(s) \in Nat /\ IsFiniteSet(s)
      <4> HIDE DEF r
      <4> QED BY <2>2, <2>5, FewNodes
    <3> HIDE DEF r
    <3>3. s # r
      BY <3>1
    <3>4. Cardinality(s) < Cardinality(r)
      <4>1. Cardinality(s) <= Cardinality(r) /\ (Cardinality(s) = Cardinality(r) => s = r)
        BY <2>5, <3>2, FS_Subset
      <4> QED BY <3>2, <3>3, <4>1
    <3>5. Cardinality(r) > k + 1
      BY <2>1, <2>3, <2>7, <3>2, <3>4
    <3>6. Growing(r, u, n, k + 1)
      BY <2>5, <3>5 DEF Growing
    <3>7. r \in Good[k + 1]
      BY <2>1, <2>5, <3>6
    <3> QED BY <2>2, <3>7 DEF r
  <2> QED BY <2>6, <2>7
<1> HIDE DEF Wider
<1>5. PICK g : IsIteration(g, Rounds, F, Good, {n} \ {rbnull})
  <2>1. StaysGood(F, Good, Rounds)
    <3> HIDE DEF F, Good
    <3> QED BY <1>4 DEF StaysGood
  <2> HIDE DEF F, Good
  <2> QED BY <1>3, <2>1, Iterates, RoundsIs
<1>6. after = [k \in 0 .. Rounds |-> IF k = 0 THEN {n} \ {rbnull} ELSE Wider(after[k - 1])]
  <2>1. ASSUME NEW k \in 0 .. Rounds, k # 0 PROVE F[g[k - 1]] = Wider(g[k - 1])
    <3>1. k - 1 \in 0 .. Rounds
      BY <2>1, RoundsIs
    <3> HIDE DEF F, Good
    <3> QED BY <1>4, <1>5, <3>1 DEF IsIteration
  <2>2. g = [k \in 0 .. Rounds |-> IF k = 0 THEN {n} \ {rbnull} ELSE Wider(g[k - 1])]
    <3> HIDE DEF F, Good
    <3> QED BY <1>5, <2>1 DEF IsIteration
  <2> QED BY <2>2, Zenon
<1> DEFINE K == {k \in 0 .. Rounds : after[k] \in Good[k]}
<1>7. Rounds \in K
  <2> HIDE DEF after, Good, F
  <2>1. 0 \in K
    BY <1>3, <1>6, RoundsIs
  <2>2. ASSUME NEW k \in 1 .. Rounds, k - 1 \in K PROVE k \in K
    <3>1. k - 1 \in 0 .. Rounds /\ (k - 1) + 1 = k /\ k \in 0 .. Rounds /\ k # 0
      BY RoundsIs
    <3>2. after[k] = Wider(after[k - 1])
      BY <1>6, <3>1
    <3>3. Wider(after[k - 1]) \in Good[(k - 1) + 1]
      BY <1>4, <2>2, <3>1
    <3> QED BY <3>1, <3>2, <3>3
  <2> HIDE DEF K
  <2> QED BY <2>1, <2>2, EachRound, RoundsIs
<1> DEFINE z == after[Rounds]
<1>8. z \in SUBSET Nodes /\ Growing(z, u, n, Rounds)
  BY <1>7, RoundsIs
<1> HIDE DEF after, z
<1>9. \A m \in z : Kids(m) \subseteq z
  <2>1. ~ (Cardinality(z) > Rounds)
    BY <1>8, FewNodes, RoundsIs
  <2> QED BY <1>8, <2>1 DEF Growing
<1>10. z = u[n]
  <2>1. u[n] \subseteq z
    BY <1>8, <1>9, Closed DEF Growing
  <2> QED BY <1>8, <2>1 DEF Growing
<1> QED BY <1>1, <1>10 DEF z

(* What is under a child, which may be rbnull.                             *)
LEMMA UnderNone == Under(rbnull) = {}
<1> DEFINE Wider(s) == s \cup UNION {Kids(m) : m \in s}
           g == [k \in 0 .. Rounds |-> {}]
           after == CHOOSE f : f = [k \in 0 .. Rounds |-> IF k = 0 THEN {rbnull} \ {rbnull} ELSE Wider(f[k - 1])]
<1>1. Under(rbnull) = after[Rounds]
  BY DEF Under, Loop
<1>2. Wider({}) = {}
  OBVIOUS
<1> HIDE DEF Wider
<1>3. after = [k \in 0 .. Rounds |-> IF k = 0 THEN {rbnull} \ {rbnull} ELSE Wider(after[k - 1])]
  <2>1. g = [k \in 0 .. Rounds |-> IF k = 0 THEN {rbnull} \ {rbnull} ELSE Wider(g[k - 1])]
    <3>1. \A k \in 0 .. Rounds : k # 0 => k - 1 \in 0 .. Rounds
      BY RoundsIs
    <3> QED BY <1>2, <3>1
  <2> HIDE DEF g
  <2> QED BY <2>1, Zenon
<1> HIDE DEF after
<1> DEFINE K == {k \in 0 .. Rounds : after[k] = {}}
<1>4. Rounds \in K
  <2>1. 0 \in K
    BY <1>3, RoundsIs
  <2>2. ASSUME NEW k \in 1 .. Rounds, k - 1 \in K PROVE k \in K
    <3>1. k - 1 \in 0 .. Rounds /\ k \in 0 .. Rounds /\ k # 0
      BY RoundsIs
    <3> QED BY <1>2, <1>3, <2>2, <3>1
  <2> HIDE DEF K
  <2> QED BY <2>1, <2>2, EachRound, RoundsIs
<1> QED BY <1>1, <1>4

(* The way down the left edge from x, after k steps.                       *)
Counting(s, S, u, h, x, k) ==
  /\ s = [node |-> s.node, height |-> s.height]
  /\ s.node \in S \cup {rbnull} /\ s.height \in Nat /\ s.height + h[s.node] = h[x]
  /\ s.node = rbnull \/ Cardinality(u[s.node]) + k <= Cardinality(Nodes)

LEMMA BlackHeightIs ==
  ASSUME NEW S, NEW u, Search(tree, S, u), NEW h, Balanced(tree, S, h, rbnull, LEFT),
         NEW x \in S \cup {rbnull}
  PROVE  BlackHeight(x) = h[x]
<1> DEFINE Step(s) == IF s.node = rbnull THEN s
                      ELSE [node   |-> rb_child(tree, s.node, LEFT),
                            height |-> s.height + (IF rb_color(tree, s.node) = "BLACK" THEN 1 ELSE 0)]
           States == [node : Node0, height : Nat]
           Good == [k \in Nat |-> {s \in States : Counting(s, S, u, h, x, k)}]
           F == [s \in States |-> Step(s)]
           s0 == [node |-> x, height |-> 0]
           after == CHOOSE g : g = [k \in 0 .. Rounds |-> IF k = 0 THEN s0 ELSE Step(g[k - 1])]
<1>1. BlackHeight(x) = after[Rounds].height
  BY DEF BlackHeight, Loop
<1>2. /\ S \in SUBSET Nodes /\ rbnull \notin S /\ S \subseteq Node0 /\ rbnull \in Node0
      /\ Shape(tree, S, u)
  BY NodesAssumption DEF Search, Shape, Node0
<1>3. \A m \in S : /\ Cardinality(u[m]) \in Nat /\ Cardinality(u[m]) <= Cardinality(Nodes)
                   /\ Cardinality(Nodes) \in Nat
  <2>1. \A m \in S : u[m] \in SUBSET Nodes
    BY <1>2, FamilyIs
  <2> QED BY <2>1, FewNodes
<1>4. /\ h \in [Node0 -> Nat] /\ h[rbnull] = 0
      /\ \A m \in S : /\ rb_child(tree, m, LEFT) \in S \cup {rbnull}
                      /\ h[m] = h[rb_child(tree, m, LEFT)] + Black(tree, m)
                      /\ h[rb_child(tree, m, LEFT)] \in Nat /\ Black(tree, m) \in Nat
  <2>1. /\ h \in [Node0 -> Nat] /\ h[rbnull] = 0
        /\ \A m \in S, a \in Sides : h[m] = h[rb_child(tree, m, a)] + Black(tree, m) + 0
    BY <1>2 DEF Balanced
  <2>2. \A m \in S : rb_child(tree, m, LEFT) \in S \cup {rbnull}
    BY <1>2, SidesAre, FamilyIs
  <2>3. \A m \in S : h[rb_child(tree, m, LEFT)] \in Nat /\ Black(tree, m) \in Nat
    BY <1>2, <2>1, <2>2 DEF Black
  <2> QED BY <2>1, <2>2, <2>3, SidesAre
<1>5. s0 \in Good[0]
  <2>1. h[x] \in Nat
    BY <1>2, <1>4
  <2>2. Counting(s0, S, u, h, x, 0)
    BY <1>2, <1>3, <2>1 DEF Counting
  <2> QED BY <1>2, <2>2
<1>6. ASSUME NEW k \in 0 .. Rounds, NEW s \in Good[k]
      PROVE  Step(s) \in Good[k + 1] /\ F[s] = Step(s)
  <2>1. k \in Nat /\ k + 1 \in Nat
    BY RoundsIs
  <2>2. s \in States /\ Counting(s, S, u, h, x, k)
    BY <1>6, <2>1
  <2>3. CASE s.node = rbnull
    <3>1. Step(s) = s
      BY <2>3
    <3>2. Counting(s, S, u, h, x, k + 1)
      BY <2>2, <2>3 DEF Counting
    <3> QED BY <2>1, <2>2, <3>1, <3>2
  <2>4. CASE s.node # rbnull
    <3> DEFINE n == s.node
               c == rb_child(tree, n, LEFT)
               r == [node |-> c, height |-> s.height + Black(tree, n)]
    <3>1. Step(s) = r
      BY <2>4 DEF Black
    <3>2. n \in S /\ s.height \in Nat /\ s.height + h[n] = h[x] /\ Cardinality(u[n]) + k <= Cardinality(Nodes)
      BY <2>2, <2>4 DEF Counting
    <3> HIDE DEF n
    <3>3. c \in S \cup {rbnull} /\ h[n] = h[c] + Black(tree, n) /\ h[c] \in Nat /\ Black(tree, n) \in Nat
      BY <1>4, <3>2
    <3>4. Cardinality(u[c]) < Cardinality(u[n])
      BY <1>2, <3>2, SidesAre, MoreUnder
    <3> HIDE DEF c
    <3>5. s.height + Black(tree, n) \in Nat /\ (s.height + Black(tree, n)) + h[c] = h[x]
      BY <3>2, <3>3
    <3>6. c = rbnull \/ Cardinality(u[c]) + (k + 1) <= Cardinality(Nodes)
      BY <1>3, <2>1, <3>2, <3>3, <3>4
    <3>7. Counting(r, S, u, h, x, k + 1)
      BY <3>3, <3>5, <3>6 DEF Counting
    <3>8. r \in States
      BY <1>2, <3>3, <3>5
    <3> QED BY <2>1, <2>2, <3>1, <3>7, <3>8
  <2> QED BY <2>3, <2>4
<1> HIDE DEF Step
<1>7. PICK g : IsIteration(g, Rounds, F, Good, s0)
  <2>1. StaysGood(F, Good, Rounds)
    <3> HIDE DEF F, Good
    <3> QED BY <1>6 DEF StaysGood
  <2> HIDE DEF F, Good, s0
  <2> QED BY <1>5, <2>1, Iterates, RoundsIs
<1>8. after = [k \in 0 .. Rounds |-> IF k = 0 THEN s0 ELSE Step(after[k - 1])]
  <2>1. ASSUME NEW k \in 0 .. Rounds, k # 0 PROVE F[g[k - 1]] = Step(g[k - 1])
    <3>1. k - 1 \in 0 .. Rounds
      BY <2>1, RoundsIs
    <3> HIDE DEF F, Good, s0
    <3> QED BY <1>6, <1>7, <3>1 DEF IsIteration
  <2>2. g = [k \in 0 .. Rounds |-> IF k = 0 THEN s0 ELSE Step(g[k - 1])]
    <3> HIDE DEF F, Good, s0
    <3> QED BY <1>7, <2>1 DEF IsIteration
  <2> HIDE DEF s0
  <2> QED BY <2>2, Zenon
<1> HIDE DEF s0
<1> DEFINE K == {k \in 0 .. Rounds : after[k] \in Good[k]}
<1>9. Rounds \in K
  <2> HIDE DEF after, Good, F
  <2>1. 0 \in K
    BY <1>5, <1>8, RoundsIs
  <2>2. ASSUME NEW k \in 1 .. Rounds, k - 1 \in K PROVE k \in K
    <3>1. k - 1 \in 0 .. Rounds /\ (k - 1) + 1 = k /\ k \in 0 .. Rounds /\ k # 0
      BY RoundsIs
    <3>2. after[k] = Step(after[k - 1])
      BY <1>8, <3>1
    <3>3. Step(after[k - 1]) \in Good[(k - 1) + 1]
      BY <1>6, <2>2, <3>1
    <3> QED BY <3>1, <3>2, <3>3
  <2> HIDE DEF K
  <2> QED BY <2>1, <2>2, EachRound, RoundsIs
<1> DEFINE z == after[Rounds]
<1>10. Counting(z, S, u, h, x, Rounds)
  BY <1>9, RoundsIs
<1> HIDE DEF after, z
<1>11. z.node = rbnull
  <2>1. ASSUME z.node \in S PROVE FALSE
    <3>1. ~ (Cardinality(u[z.node]) + Rounds <= Cardinality(Nodes))
      BY <1>3, <2>1, RoundsIs
    <3> QED BY <1>2, <1>10, <2>1, <3>1 DEF Counting
  <2> QED BY <1>10, <2>1 DEF Counting
<1>12. z.height = h[x]
  BY <1>4, <1>10, <1>11 DEF Counting
<1> QED BY <1>1, <1>12 DEF z

(* What rb_traversal asserts of the colors holds after every insertion and *)
(* every removal.                                                          *)
THEOREM ColorsAreRight == Spec => []RedBlack
<1>1. IInv => RedBlack
  <2> SUFFICES ASSUME IInv PROVE RedBlack
    OBVIOUS
  <2> DEFINE S == Inside
  <2>1. PICK u : Search(tree, S, u)
    BY DEF IInv, Sound
  <2>2. PICK h : Balanced(tree, S, h, rbnull, LEFT)
    BY DEF IInv, Sound
  <2>3. NoRedRed(tree, S, rbnull) /\ RootBlack(tree) /\ Shape(tree, S, u) /\ IsTree(tree)
    BY <2>1 DEF IInv, Sound, Search, Shape
  <2>4. \A n \in Nodes : InTree(n) => n \in S
    BY DEF Inside
  <2> HIDE DEF S
  <2>5. ASSUME NEW n \in S, rb_color(tree, n) = "RED", NEW m \in Kids(n) PROVE rb_color(tree, m) = "BLACK"
    <3>1. PICK w \in Sides : m = rb_child(tree, n, w) /\ m # rbnull
      BY DEF Kids
    <3>2. rb_color(tree, m) # "RED"
      BY <2>3, <2>5, <3>1 DEF NoRedRed
    <3>3. m \in Node0
      BY <2>3, <3>1, FamilyIs
    <3> QED BY <2>3, <3>2, <3>3, ReadsAre DEF Colors
  <2>6. ASSUME NEW n \in S
        PROVE  BlackHeight(rb_child(tree, n, LEFT)) = BlackHeight(rb_child(tree, n, RIGHT))
    <3>1. ASSUME NEW w \in Sides PROVE rb_child(tree, n, w) \in S \cup {rbnull}
      BY <2>3, FamilyIs
    <3>2. ASSUME NEW w \in Sides
          PROVE  BlackHeight(rb_child(tree, n, w)) = h[rb_child(tree, n, w)]
      BY <2>1, <2>2, <3>1, BlackHeightIs
    <3>3. /\ n # rbnull /\ h \in [Node0 -> Nat] /\ S \subseteq Node0 /\ rbnull \in Node0
          /\ \A w \in Sides : h[n] = h[rb_child(tree, n, w)] + Black(tree, n) + 0
      <4>1. n # rbnull
        BY <2>3, FamilyIs
      <4>2. S \subseteq Node0 /\ rbnull \in Node0
        BY <2>3 DEF Shape, Node0
      <4> QED BY <2>2, <4>1, <4>2 DEF Balanced
    <3>4. \A w \in Sides : h[rb_child(tree, n, w)] \in Nat /\ Black(tree, n) \in Nat
      BY <3>1, <3>3 DEF Black
    <3>5. h[rb_child(tree, n, LEFT)] = h[rb_child(tree, n, RIGHT)]
      BY <3>3, <3>4, SidesAre
    <3> QED BY <3>2, <3>5, SidesAre
  <2> QED BY <2>3, <2>4, <2>5, <2>6 DEF RedBlack, RootBlack
<1> QED BY <1>1, Invariance, PTL

(* The lengths on the left of a node are no longer than its own, those on  *)
(* its right no shorter, however the tree was turned.                      *)
THEOREM OrderIsKept == Spec => []SearchOrder
<1>1. IInv => SearchOrder
  <2> SUFFICES ASSUME IInv PROVE SearchOrder
    OBVIOUS
  <2> DEFINE S == Inside
  <2>1. PICK u : Search(tree, S, u)
    BY DEF IInv, Sound
  <2>2. Shape(tree, S, u) /\ Ordered(tree, S, u) /\ u[rbnull] = {}
    BY <2>1 DEF Search, Shape
  <2>3. \A n \in Nodes : InTree(n) => n \in S
    BY DEF Inside
  <2> HIDE DEF S
  <2>4. ASSUME NEW n \in S, NEW w \in Sides
        PROVE  Under(rb_child(tree, n, w)) = u[rb_child(tree, n, w)]
    <3>1. rb_child(tree, n, w) \in S \/ rb_child(tree, n, w) = rbnull
      BY <2>2, FamilyIs
    <3> QED BY <2>2, <3>1, UnderIs, UnderNone
  <2>5. ASSUME NEW n \in S, NEW m \in Under(rb_child(tree, n, LEFT)) PROVE rb_value(tree, m) <= rb_value(tree, n)
    BY <2>2, <2>4, <2>5, SidesAre DEF Ordered, Beside, rb_value
  <2>6. ASSUME NEW n \in S, NEW m \in Under(rb_child(tree, n, RIGHT)) PROVE rb_value(tree, m) >= rb_value(tree, n)
    BY <2>2, <2>4, <2>6, SidesAre DEF Ordered, Beside, rb_value
  <2> QED BY <2>3, <2>5, <2>6 DEF SearchOrder
<1> QED BY <1>1, Invariance, PTL

(* The root reaches the free blocks and nothing else, and every child      *)
(* knows its parent.                                                       *)
THEOREM NothingIsLost == Spec => []NoNodeIsLost
<1>1. IInv => NoNodeIsLost
  <2> SUFFICES ASSUME IInv PROVE NoNodeIsLost
    OBVIOUS
  <2> DEFINE S == Inside
  <2>1. PICK u : Search(tree, S, u)
    BY DEF IInv, Sound
  <2>2. Shape(tree, S, u) /\ u[rbnull] = {} /\ u[tree.root] = S /\ tree.root \in S \cup {rbnull}
    BY <2>1 DEF Search, Shape
  <2>3. Under(tree.root) = S
    BY <2>2, UnderIs, UnderNone
  <2>4. ASSUME NEW n \in S PROVE tree.parent[n] = rbnull <=> n = tree.root
    BY <2>2, FamilyIs DEF rb_parent
  <2>5. ASSUME NEW n \in S, NEW m \in Kids(n) PROVE rb_parent(tree, m) = n
    BY <2>2, KidsAre
  <2> QED BY <2>3, <2>4, <2>5 DEF NoNodeIsLost, Inside
<1> QED BY <1>1, Invariance, PTL

(* The search for a length of v: what is enough is still under node, or is *)
(* not shorter than what was found.                                        *)
Finding(s, S, u, v, k) ==
  /\ s = [node |-> s.node, result |-> s.result]
  /\ s.node \in S \cup {rbnull}
  /\ s.result = rbnull \/ (s.result \in S /\ tree.value[s.result] >= v)
  /\ \A n \in S : tree.value[n] >= v /\ n \notin u[s.node] =>
       s.result # rbnull /\ tree.value[s.result] <= tree.value[n]
  /\ s.result # rbnull => \A m \in u[s.node] : tree.value[m] <= tree.value[s.result]
  /\ s.node = rbnull \/ Cardinality(u[s.node]) + k <= Cardinality(Nodes)

(* One step down.                                                          *)
LEMMA FindingStep ==
  ASSUME NEW S, NEW u, Search(tree, S, u), NEW v \in Nat, NEW k \in Nat, NEW s, Finding(s, S, u, v, k),
         NEW n \in S, n = s.node
  PROVE  /\ tree.value[n] >= v =>
              Finding([node |-> rb_child(tree, n, LEFT), result |-> n], S, u, v, k + 1)
         /\ ~ (tree.value[n] >= v) =>
              Finding([node |-> rb_child(tree, n, RIGHT), result |-> s.result], S, u, v, k + 1)
<1> DEFINE l == rb_child(tree, n, LEFT)
           r == rb_child(tree, n, RIGHT)
<1>1. /\ S \in SUBSET Nodes /\ rbnull \notin S /\ Shape(tree, S, u) /\ Ordered(tree, S, u)
      /\ tree.value \in [Nodes -> Nat] /\ u[rbnull] = {}
  BY NodesAssumption DEF Search, Shape, IsTree
<1>2. \A m \in S : /\ Cardinality(u[m]) \in Nat /\ Cardinality(u[m]) <= Cardinality(Nodes)
                   /\ Cardinality(Nodes) \in Nat /\ u[m] \in SUBSET S /\ tree.value[m] \in Nat
  <2>1. \A m \in S : u[m] \in SUBSET Nodes /\ u[m] \in SUBSET S
    BY <1>1, FamilyIs
  <2> QED BY <1>1, <2>1, FewNodes
<1>3. /\ l \in S \cup {rbnull} /\ r \in S \cup {rbnull} /\ u[l] \subseteq u[n] /\ u[r] \subseteq u[n]
      /\ n \in u[n] /\ n \notin u[l] /\ n \notin u[r]
      /\ \A x \in Nodes : x \in u[n] => x = n \/ x \in u[l] \/ x \in u[r]
  <2>1. l \in S \cup {rbnull} /\ u[l] \subseteq u[n] /\ n \in u[n] /\ n \notin u[l]
    BY <1>1, SidesAre, FamilyIs
  <2>2. r \in S \cup {rbnull} /\ u[r] \subseteq u[n] /\ n \notin u[r]
    BY <1>1, SidesAre, FamilyIs
  <2>3. \A x \in Nodes : x \in u[n] => x = n \/ x \in u[l] \/ x \in u[r]
    BY <1>1, SidesAre, FamilyIs
  <2> QED BY <2>1, <2>2, <2>3
<1>4. /\ \A m \in u[l] : tree.value[m] <= tree.value[n]
      /\ \A m \in u[r] : tree.value[m] >= tree.value[n]
  BY <1>1, SidesAre DEF Ordered, Beside
<1>5. \A a \in {l, r} : a = rbnull \/ Cardinality(u[a]) + (k + 1) <= Cardinality(Nodes)
  <2>1. Cardinality(u[l]) < Cardinality(u[n]) /\ Cardinality(u[r]) < Cardinality(u[n])
    BY <1>1, SidesAre, MoreUnder
  <2>2. Cardinality(u[n]) + k <= Cardinality(Nodes)
    BY <1>1 DEF Finding
  <2> HIDE DEF l, r
  <2> QED BY <1>2, <1>3, <2>1, <2>2
<1>6. /\ s.result = rbnull \/ (s.result \in S /\ tree.value[s.result] >= v)
      /\ \A x \in S : tree.value[x] >= v /\ x \notin u[n] =>
           s.result # rbnull /\ tree.value[s.result] <= tree.value[x]
      /\ s.result # rbnull => \A m \in u[n] : tree.value[m] <= tree.value[s.result]
  BY DEF Finding
<1> HIDE DEF l, r
<1>7. ASSUME tree.value[n] >= v PROVE Finding([node |-> l, result |-> n], S, u, v, k + 1)
  <2>1. ASSUME NEW x \in S, tree.value[x] >= v, x \notin u[l]
        PROVE  n # rbnull /\ tree.value[n] <= tree.value[x]
    <3>1. tree.value[n] \in Nat /\ tree.value[x] \in Nat /\ x \in Nodes /\ n # rbnull
      BY <1>1, <1>2
    <3>2. CASE x \in u[n]
      BY <1>3, <1>4, <2>1, <3>1, <3>2
    <3>3. CASE x \notin u[n]
      <4>1. /\ s.result \in S /\ tree.value[s.result] <= tree.value[x]
            /\ tree.value[n] <= tree.value[s.result]
        BY <1>3, <1>6, <2>1, <3>3
      <4> QED BY <1>2, <3>1, <4>1
    <3> QED BY <3>2, <3>3
  <2> QED BY <1>3, <1>4, <1>5, <1>7, <2>1 DEF Finding
<1>8. ASSUME ~ (tree.value[n] >= v)
      PROVE  Finding([node |-> r, result |-> s.result], S, u, v, k + 1)
  <2>1. ASSUME NEW x \in S, tree.value[x] >= v, x \notin u[r]
        PROVE  s.result # rbnull /\ tree.value[s.result] <= tree.value[x]
    <3>1. tree.value[n] \in Nat /\ tree.value[x] \in Nat /\ x \in Nodes
      BY <1>1, <1>2
    <3>2. x \notin u[n]
      <4>1. x # n /\ x \notin u[l]
        BY <1>4, <1>8, <2>1, <3>1
      <4> QED BY <1>3, <2>1, <3>1, <4>1
    <3> QED BY <1>6, <2>1, <3>2
  <2> QED BY <1>3, <1>5, <1>6, <2>1 DEF Finding
<1> QED BY <1>7, <1>8 DEF l, r

LEMMA LowerBoundIs ==
  ASSUME NEW S, NEW u, Search(tree, S, u), NEW v \in Nat
  PROVE  \E s : Finding(s, S, u, v, Rounds) /\ s.node = rbnull /\ rb_lower_bound(tree, v) = s.result
<1> DEFINE Step(s) == IF s.node = rbnull THEN s
                      ELSE IF rb_value(tree, s.node) >= v
                      THEN [node |-> rb_child(tree, s.node, LEFT), result |-> s.node]
                      ELSE [s EXCEPT !.node = rb_child(tree, s.node, RIGHT)]
           States == [node : Node0, result : Node0]
           Good == [k \in Nat |-> {s \in States : Finding(s, S, u, v, k)}]
           F == [s \in States |-> Step(s)]
           s0 == [node |-> tree.root, result |-> rbnull]
           after == CHOOSE g : g = [k \in 0 .. Rounds |-> IF k = 0 THEN s0 ELSE Step(g[k - 1])]
<1>1. rb_lower_bound(tree, v) = after[Rounds].result
  BY DEF rb_lower_bound, Loop
<1>2. /\ S \in SUBSET Nodes /\ rbnull \notin S /\ S \subseteq Node0 /\ rbnull \in Node0
      /\ Shape(tree, S, u) /\ tree.root \in S \cup {rbnull} /\ u[tree.root] = S
  BY NodesAssumption DEF Search, Shape, Node0
<1>3. \A m \in S : /\ Cardinality(u[m]) \in Nat /\ Cardinality(u[m]) <= Cardinality(Nodes)
                   /\ Cardinality(Nodes) \in Nat
  <2>1. \A m \in S : u[m] \in SUBSET Nodes
    BY <1>2, FamilyIs
  <2> QED BY <2>1, FewNodes
<1>4. s0 \in Good[0]
  <2>1. Finding(s0, S, u, v, 0)
    BY <1>2, <1>3 DEF Finding
  <2> QED BY <1>2, <2>1
<1>5. ASSUME NEW k \in 0 .. Rounds, NEW s \in Good[k]
      PROVE  Step(s) \in Good[k + 1] /\ F[s] = Step(s)
  <2>1. k \in Nat /\ k + 1 \in Nat
    BY RoundsIs
  <2>2. s \in States /\ Finding(s, S, u, v, k)
    BY <1>5, <2>1
  <2>3. CASE s.node = rbnull
    <3>1. Step(s) = s
      BY <2>3
    <3>2. Finding(s, S, u, v, k + 1)
      BY <2>2, <2>3 DEF Finding
    <3> QED BY <2>1, <2>2, <3>1, <3>2
  <2>4. CASE s.node # rbnull
    <3> DEFINE n == s.node
               a == [node |-> rb_child(tree, n, LEFT), result |-> n]
               b == [node |-> rb_child(tree, n, RIGHT), result |-> s.result]
    <3>1. n \in S /\ s = [node |-> n, result |-> s.result]
      BY <2>2, <2>4 DEF Finding
    <3>2. Step(s) = IF tree.value[n] >= v THEN a ELSE b
      BY <2>4, <3>1 DEF rb_value
    <3>3. \A w \in Sides : rb_child(tree, n, w) \in Node0
      BY <1>2, <3>1, FamilyIs
    <3>4. a \in States /\ b \in States
      BY <1>2, <2>2, <3>1, <3>3, SidesAre
    <3>5. (tree.value[n] >= v => Finding(a, S, u, v, k + 1)) /\ (~ (tree.value[n] >= v) => Finding(b, S, u, v, k + 1))
      BY <2>1, <2>2, <3>1, FindingStep
    <3> HIDE DEF a, b, Step
    <3> QED BY <2>1, <2>2, <3>2, <3>4, <3>5
  <2> QED BY <2>3, <2>4
<1> HIDE DEF Step
<1>6. PICK g : IsIteration(g, Rounds, F, Good, s0)
  <2>1. StaysGood(F, Good, Rounds)
    <3> HIDE DEF F, Good
    <3> QED BY <1>5 DEF StaysGood
  <2> HIDE DEF F, Good, s0
  <2> QED BY <1>4, <2>1, Iterates, RoundsIs
<1>7. after = [k \in 0 .. Rounds |-> IF k = 0 THEN s0 ELSE Step(after[k - 1])]
  <2>1. ASSUME NEW k \in 0 .. Rounds, k # 0 PROVE F[g[k - 1]] = Step(g[k - 1])
    <3>1. k - 1 \in 0 .. Rounds
      BY <2>1, RoundsIs
    <3> HIDE DEF F, Good, s0
    <3> QED BY <1>5, <1>6, <3>1 DEF IsIteration
  <2>2. g = [k \in 0 .. Rounds |-> IF k = 0 THEN s0 ELSE Step(g[k - 1])]
    <3> HIDE DEF F, Good, s0
    <3> QED BY <1>6, <2>1 DEF IsIteration
  <2> HIDE DEF s0
  <2> QED BY <2>2, Zenon
<1> HIDE DEF s0
<1> DEFINE K == {k \in 0 .. Rounds : after[k] \in Good[k]}
<1>8. Rounds \in K
  <2> HIDE DEF after, Good, F
  <2>1. 0 \in K
    BY <1>4, <1>7, RoundsIs
  <2>2. ASSUME NEW k \in 1 .. Rounds, k - 1 \in K PROVE k \in K
    <3>1. k - 1 \in 0 .. Rounds /\ (k - 1) + 1 = k /\ k \in 0 .. Rounds /\ k # 0
      BY RoundsIs
    <3>2. after[k] = Step(after[k - 1])
      BY <1>7, <3>1
    <3>3. Step(after[k - 1]) \in Good[(k - 1) + 1]
      BY <1>5, <2>2, <3>1
    <3> QED BY <3>1, <3>2, <3>3
  <2> HIDE DEF K
  <2> QED BY <2>1, <2>2, EachRound, RoundsIs
<1> DEFINE z == after[Rounds]
<1>9. Finding(z, S, u, v, Rounds)
  BY <1>8, RoundsIs
<1> HIDE DEF after, z
<1>10. z.node = rbnull
  <2>1. ASSUME z.node \in S PROVE FALSE
    <3>1. ~ (Cardinality(u[z.node]) + Rounds <= Cardinality(Nodes))
      BY <1>3, <2>1, RoundsIs
    <3> QED BY <1>2, <1>9, <2>1, <3>1 DEF Finding
  <2> QED BY <1>9, <2>1 DEF Finding
<1> QED BY <1>1, <1>9, <1>10 DEF z

(* rb_lower_bound finds a block of the least length that is enough, and    *)
(* rbnull only when there is none.                                         *)
THEOREM BestIsFound == Spec => []LowerBoundIsBest
<1>1. IInv => LowerBoundIsBest
  <2> SUFFICES ASSUME IInv, NEW v \in Values
               PROVE  LET enough == {n \in Nodes : InTree(n) /\ rb_value(tree, n) >= v}
                          found  == rb_lower_bound(tree, v)
                      IN  IF enough = {} THEN found = rbnull
                          ELSE found \in enough /\ \A n \in enough : rb_value(tree, found) <= rb_value(tree, n)
    BY DEF LowerBoundIsBest
  <2> DEFINE S == Inside
             enough == {n \in Nodes : InTree(n) /\ rb_value(tree, n) >= v}
             found == rb_lower_bound(tree, v)
  <2>1. PICK u : Search(tree, S, u)
    BY DEF IInv, Sound
  <2>2. v \in Nat /\ u[rbnull] = {} /\ rbnull \notin Nodes
    BY <2>1, ValuesAssumption, NodesAssumption DEF Search, Shape
  <2>3. PICK s : Finding(s, S, u, v, Rounds) /\ s.node = rbnull /\ found = s.result
    BY <2>1, <2>2, LowerBoundIs
  <2>4. enough = {n \in S : tree.value[n] >= v}
    BY DEF Inside, rb_value
  <2>5. found = rbnull \/ (found \in S /\ tree.value[found] >= v)
    BY <2>3 DEF Finding
  <2>6. \A n \in S : tree.value[n] >= v => found # rbnull /\ tree.value[found] <= tree.value[n]
    BY <2>2, <2>3 DEF Finding
  <2> HIDE DEF found, enough, S
  <2>7. CASE enough = {}
    <3>1. found = rbnull
      BY <2>4, <2>5, <2>7
    <3> QED BY <2>7, <3>1 DEF found, enough
  <2>8. CASE enough # {}
    <3>1. found \in enough /\ \A n \in enough : tree.value[found] <= tree.value[n]
      BY <2>4, <2>5, <2>6, <2>8
    <3> QED BY <2>8, <3>1 DEF found, enough, rb_value
  <2> QED BY <2>7, <2>8
<1> QED BY <1>1, Invariance, PTL
=============================================================================

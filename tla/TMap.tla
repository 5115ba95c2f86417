--------------------------------- MODULE TMap ---------------------------------
(***************************************************************************)
(* common/tmap.c: a red-black tree.  tmap_put() and tmap_remove() first    *)
(* link or unlink a node, then rebalance, one turn of the loop at a time.  *)
(*                                                                         *)
(* A node is named by its key, so that the copying of another node's key   *)
(* into it renames it.  Keys are numbers, ordered as compare() does, and   *)
(* the code for the left and for the right is one, given the side.         *)
(***************************************************************************)
EXTENDS Naturals, FiniteSets

CONSTANTS
  Keys,
  Values,     \* for each key, the values put under it
  Class       \* for each key, what a partial match looks at

nil == 0
NULL == 0

ASSUME KeysAssumption == Keys \subseteq Nat \ {nil} /\ IsFiniteSet(Keys)
ASSUME ClassAssumption ==     \* partial matches are in the order of the keys
  /\ Class \in [Keys -> Nat]
  /\ \A k, l \in Keys : k < l => Class[k] <= Class[l]

VARIABLES
  tree,             \* its root, and of each node the links, colour and value
  size,
  pc,               \* "idle" between calls
  node, parent,     \* of the rebalancing loop
  n0, n1            \* the iterator's

loopVars == <<pc, node, parent>>
itVars == <<n0, n1>>
vars == <<tree, size, loopVars, itVars>>

Opposite(s) == IF s = "left" THEN "right" ELSE "left"

Fresh(up, v) ==
  [left |-> nil, right |-> nil, parent |-> up, red |-> TRUE, value |-> v]
Nil == [Fresh(nil, NULL) EXCEPT !.red = FALSE]
Empty == [root |-> nil, node |-> [x \in {nil} |-> Nil]]

Init ==
  /\ tree = Empty
  /\ size = 0
  /\ pc = "idle" /\ node = nil /\ parent = nil
  /\ n0 = nil /\ n1 = nil

-----------------------------------------------------------------------------
(* Going down the tree.                                                    *)

Live == DOMAIN tree.node \ {nil}
Steps == 0..Cardinality(Keys)

Link(x, s) == tree.node[x][s]

(* Where tmap_put() and tmap_get_node() get to from the root: the node of  *)
(* the key, or nil, and the node above.                                    *)
Descent(k) ==
  LET at[d \in Steps] ==
        IF d = 0 THEN [node |-> tree.root, parent |-> nil]
        ELSE LET x == at[d - 1].node
             IN  IF x \in {nil, k} THEN at[d - 1]
                 ELSE [node |-> Link(x, IF k > x THEN "right" ELSE "left"),
                       parent |-> x]
  IN  at[Cardinality(Keys)]

tmap_get_node(k) == Descent(k).node

(* From x as far as the links of one side go.                              *)
Outermost(x, s) ==
  LET at[d \in Steps] ==
        IF d = 0 \/ x = nil THEN x
        ELSE IF Link(at[d - 1], s) = nil THEN at[d - 1] ELSE Link(at[d - 1], s)
  IN  at[Cardinality(Keys)]

-----------------------------------------------------------------------------
(* Linking and painting, of a tree t.                                      *)

Paint(t, blacks, reds) ==
  [t EXCEPT !.node =
     [x \in DOMAIN t.node |->
        IF x \in blacks \cup reds THEN [t.node[x] EXCEPT !.red = x \in reds]
        ELSE t.node[x]]]

SetLink(t, x, s, y) == [t EXCEPT !.node[x][s] = y]
SetParent(t, x, up) == [t EXCEPT !.node[x].parent = up]
TellParent(t, x, up) == IF x = nil THEN t ELSE SetParent(t, x, up)

(* y takes the place of x below the node up, or as the root.               *)
Replace(t, up, x, y) ==
  IF up = nil THEN [t EXCEPT !.root = y]
  ELSE SetLink(t, up, IF t.node[up].left = x THEN "left" ELSE "right", y)

(* tmap_rotate_left() and tmap_rotate_right(): x goes down on the side s.  *)
Turned(t, x, s, told) ==
  LET child == t.node[x][Opposite(s)]
      up == t.node[x].parent
      linked == SetLink(told, x, Opposite(s), t.node[child][s])
      placed == Replace(SetParent(linked, child, up), up, x, child)
  IN  SetParent(SetLink(placed, child, s, x), x, child)

(* Mutant: the inner subtree is not told of its new parent.                *)
RotateForgetful(t, x, s) == Turned(t, x, s, t)

Rotate(t, x, s) ==
  Turned(t, x, s, TellParent(t, t.node[t.node[x][Opposite(s)]][s], x))

-----------------------------------------------------------------------------
(* tmap_put().                                                             *)

PutExisting(k, v) ==
  /\ pc = "idle"
  /\ tmap_get_node(k) # nil
  /\ tree' = [tree EXCEPT !.node[tmap_get_node(k)].value = v]
  /\ UNCHANGED <<size, loopVars, itVars>>

(* A new leaf below the node up, which is not linked to it yet.            *)
Grow(t, k, up, v) ==
  [t EXCEPT !.node = [x \in DOMAIN @ \cup {k} |->
                        IF x = k THEN Fresh(up, v) ELSE @[x]]]

PutNew(k, v) ==
  /\ pc = "idle"
  /\ tmap_get_node(k) = nil
  /\ size' = size + 1
  /\ LET up == Descent(k).parent
         grown == Grow(tree, k, up, v)
     IN  IF up = nil
         THEN /\ tree' = Paint([grown EXCEPT !.root = k], {k}, {})
              /\ UNCHANGED <<pc, node>>
         ELSE /\ tree' = SetLink(grown, up, IF k > up THEN "right" ELSE "left", k)
              /\ pc' = "insert"
              /\ node' = k
  /\ UNCHANGED <<parent, itVars>>

IsRed(t, x) == t.node[x].red

Up(x) == tree.node[x].parent

(* Below a red node that is not the root.                                  *)
Unbalanced == IsRed(tree, Up(node)) /\ Up(Up(node)) # nil

SideOf(t, x, up) == IF x = t.node[up].left THEN "left" ELSE "right"

Uncle(x) ==
  LET g == Up(Up(x)) IN Link(g, Opposite(SideOf(tree, Up(x), g)))

(* The red of parent and uncle moves up to the grandparent.                *)
InsertRecolor ==
  /\ pc = "insert"
  /\ Unbalanced
  /\ IsRed(tree, Uncle(node))
  /\ tree' = Paint(tree, {Up(node), Uncle(node)}, {Up(Up(node))})
  /\ node' = Up(Up(node))
  /\ UNCHANGED <<size, pc, parent, itVars>>

(* An inner node is first turned into an outer one.                        *)
InsertTurn(straightened) ==
  /\ pc = "insert"
  /\ Unbalanced
  /\ ~IsRed(tree, Uncle(node))
  /\ LET p == Up(node)
         g == Up(p)
         s == SideOf(tree, p, g)
         inner == node = Link(p, Opposite(s))
         t == IF inner /\ straightened THEN Rotate(tree, p, s) ELSE tree
         x == IF inner THEN p ELSE node
         top == t.node[x].parent
     IN  /\ tree' = Rotate(Paint(t, {top}, {g}), g, Opposite(s))
         /\ node' = x
  /\ UNCHANGED <<size, pc, parent, itVars>>

(* Mutant: the inner node is forgotten.                                    *)
InsertRotateOnce == InsertTurn(FALSE)
InsertRotate == InsertTurn(TRUE)

InsertSettle ==
  /\ pc = "insert"
  /\ ~Unbalanced
  /\ tree' = Paint(tree, {tree.root}, {})
  /\ pc' = "idle"
  /\ node' = nil
  /\ UNCHANGED <<size, parent, itVars>>

-----------------------------------------------------------------------------
(* tmap_remove().  The node that goes is the key's own, or, if that has    *)
(* two children, the one before it, whose key and value move up.           *)

Spliced(k) ==
  IF nil \in {Link(k, "left"), Link(k, "right")} THEN k
  ELSE Outermost(Link(k, "left"), "right")

(* The node of k in t becomes that of another key.                         *)
Rename(t, k, key, value) ==
  LET new(x) == IF x = k THEN key ELSE x
      moved(n, v) == [left |-> new(n.left), right |-> new(n.right),
                      parent |-> new(n.parent), red |-> n.red, value |-> v]
  IN  [root |-> new(t.root),
       node |-> [x \in (DOMAIN t.node \cup {key}) \ {k} |->
                   IF x = key THEN moved(t.node[k], value)
                   ELSE moved(t.node[x], t.node[x].value)]]

Unlink(t, x, child) ==
  LET up == t.node[x].parent
      cut == Replace(TellParent(t, child, up), up, x, child)
  IN  [cut EXCEPT !.node = [y \in DOMAIN @ \ {x} |-> @[y]]]

(* The iterator of a map with a node removed is not to be used.            *)
RemoveValued(k, valueCopied) ==
  /\ pc = "idle"
  /\ k \in Live
  /\ size' = size - 1
  /\ LET splice == Spliced(k)
         child == IF Link(splice, "left") = nil THEN Link(splice, "right")
                  ELSE Link(splice, "left")
         up == Up(splice)
         value == tree.node[IF valueCopied THEN splice ELSE k].value
         t == Unlink(tree, splice, child)
     IN  /\ tree' = IF splice = k THEN t ELSE Rename(t, k, splice, value)
         /\ IF up = nil \/ IsRed(tree, splice)
            THEN UNCHANGED loopVars
            ELSE /\ pc' = "remove"
                 /\ node' = child
                 /\ parent' = IF up = k THEN splice ELSE up
  /\ n0' = nil /\ n1' = nil

(* Mutant: only the key moves up.                                          *)
RemoveKeyOnly(k) == RemoveValued(k, FALSE)
Remove(k) == RemoveValued(k, TRUE)

RemoveAbsent(k) ==
  /\ pc = "idle"
  /\ tmap_get_node(k) = nil
  /\ UNCHANGED <<tree, size, loopVars>>
  /\ n0' = nil /\ n1' = nil

(* tmap_delete_rebalance(): the paths through node are one black short.    *)
Short == node # tree.root /\ ~IsRed(tree, node)
Side == SideOf(tree, node, parent)
Sibling == Link(parent, Opposite(Side))
Outer == Link(Sibling, Opposite(Side))
Inner == Link(Sibling, Side)

Shortening ==
  /\ pc = "remove"
  /\ Short
  /\ UNCHANGED <<size, pc, itVars>>

(* The loop goes on with the black nephew for a sibling.                   *)
RemoveRedSibling ==
  /\ Shortening
  /\ IsRed(tree, Sibling)
  /\ tree' = Rotate(Paint(tree, {Sibling}, {parent}), parent, Side)
  /\ UNCHANGED <<node, parent>>

RemoveRecolor ==
  /\ Shortening
  /\ ~IsRed(tree, Sibling) /\ ~IsRed(tree, Inner) /\ ~IsRed(tree, Outer)
  /\ tree' = Paint(tree, {}, {Sibling})
  /\ node' = parent
  /\ parent' = Up(parent)

(* The red nephew is first turned outwards.                                *)
RemoveTurn ==
  /\ Shortening
  /\ ~IsRed(tree, Sibling) /\ IsRed(tree, Inner) /\ ~IsRed(tree, Outer)
  /\ tree' = Rotate(Paint(tree, {Inner}, {Sibling}), Sibling, Opposite(Side))
  /\ UNCHANGED <<node, parent>>

RemoveRotate ==
  /\ Shortening
  /\ ~IsRed(tree, Sibling) /\ IsRed(tree, Outer)
  /\ LET reds == IF IsRed(tree, parent) THEN {Sibling} ELSE {}
         painted == Paint(tree, {parent, Sibling, Outer} \ reds, reds)
     IN  tree' = Rotate(painted, parent, Side)
  /\ node' = tree'.root
  /\ UNCHANGED parent

RemoveSettle ==
  /\ pc = "remove"
  /\ ~Short
  /\ tree' = Paint(tree, {node}, {})
  /\ pc' = "idle"
  /\ node' = nil /\ parent' = nil
  /\ UNCHANGED <<size, itVars>>

Clear ==
  /\ pc = "idle"
  /\ tree' = Empty
  /\ size' = 0
  /\ n0' = nil /\ n1' = nil
  /\ UNCHANGED loopVars

-----------------------------------------------------------------------------
(* Iterators.                                                              *)

successor(x) ==
  IF Link(x, "right") # nil THEN Outermost(Link(x, "right"), "left")
  ELSE LET at[d \in Steps] ==
             IF d = 0 THEN x
             ELSE IF at[d - 1] = Link(Up(at[d - 1]), "right")
                  THEN Up(at[d - 1]) ELSE at[d - 1]
       IN  Up(at[Cardinality(Keys)])

Iterate ==
  /\ pc = "idle"
  /\ n0' = Outermost(tree.root, "left")
  /\ n1' = nil
  /\ UNCHANGED <<tree, size, loopVars>>

(* The node nearest the root that the comparison takes for equal to m.     *)
Matching(m) ==
  LET at[d \in Steps] ==
        IF d = 0 THEN tree.root
        ELSE LET x == at[d - 1]
             IN  IF x = nil \/ Class[x] = m THEN x
                 ELSE Link(x, IF m > Class[x] THEN "right" ELSE "left")
  IN  at[Cardinality(Keys)]

(* The last that does on the side s of x, where they end.                  *)
Boundary(x, m, s) ==
  LET at[d \in Steps] ==
        IF d = 0 THEN [found |-> x, next |-> Link(x, s)]
        ELSE LET y == at[d - 1].next
             IN  IF y = nil THEN at[d - 1]
                 ELSE IF Class[y] = m THEN [found |-> y, next |-> Link(y, s)]
                 ELSE [found |-> at[d - 1].found, next |-> Link(y, Opposite(s))]
  IN  at[Cardinality(Keys)].found

IteratePartial(m) ==
  /\ pc = "idle"
  /\ LET x == Matching(m)
     IN  IF x = nil THEN n0' = nil /\ n1' = nil
         ELSE n0' = Boundary(x, m, "left") /\ n1' = Boundary(x, m, "right")
  /\ UNCHANGED <<tree, size, loopVars>>

IteratorNext ==
  /\ pc = "idle"
  /\ n0 # nil
  /\ n0' = IF n0 = n1 THEN nil ELSE successor(n0)
  /\ UNCHANGED <<tree, size, loopVars, n1>>

-----------------------------------------------------------------------------
Call ==
  \/ \E k \in Keys : \/ \E v \in Values[k] : PutExisting(k, v) \/ PutNew(k, v)
                     \/ Remove(k) \/ RemoveAbsent(k)
                     \/ IteratePartial(Class[k])
  \/ Clear \/ Iterate \/ IteratorNext

Rebalance ==
  \/ InsertRecolor \/ InsertRotate \/ InsertSettle
  \/ RemoveRedSibling \/ RemoveRecolor \/ RemoveTurn \/ RemoveRotate
  \/ RemoveSettle

Next == Call \/ Rebalance

Spec == Init /\ [][Next]_vars

-----------------------------------------------------------------------------
(* Properties.                                                             *)

(* At every step of the rebalancing, the links down and up agree, nobody   *)
(* has written to the shared nil node, tmap_get() finds every entry from   *)
(* the root, and tmap_size() counts them.                                  *)
Linked ==
  /\ tree.node[nil] = Nil
  /\ Up(tree.root) = nil
  /\ \A x \in Live, s \in {"left", "right"} :
       Link(x, s) # nil => Up(Link(x, s)) = x
  /\ \A k \in Live : tmap_get_node(k) = k
  /\ size = Cardinality(Live)

Above(x) ==
  LET at[d \in Steps] == IF d = 0 THEN x ELSE Up(at[d - 1])
  IN  {at[d] : d \in Steps} \ {nil}

(* Black nodes from the root to a nil below x; while a removal is being    *)
(* made up for, the node that is short of one counts it.                   *)
Blacks(x) ==
  Cardinality({y \in Above(x) : ~IsRed(tree, y)})
  + (IF pc = "remove" /\ (node \in Above(x) \/ (node = nil /\ x = parent))
     THEN 1 ELSE 0)

(* What tmap_verify() asks between calls, and what the loops keep on the   *)
(* way there: all the paths to nil have as many black nodes, but for the   *)
(* one that delete_rebalance() owes, and no red node is below a red one,   *)
(* but for the node that the loop is at.                                   *)
Balanced ==
  /\ \A x, y \in {z \in Live : nil \in {Link(z, "left"), Link(z, "right")}} :
       Blacks(x) = Blacks(y)
  /\ \A x \in Live : IsRed(tree, x) /\ IsRed(tree, Up(x)) =>
                       \/ pc # "idle" /\ x = node
                       \/ pc = "remove" /\ Up(x) = node
  /\ pc = "idle" /\ IsRed(tree, tree.root) => Live = {tree.root}

(* A map and its iterators do what a partial function would, with the keys *)
(* in order: a key that moves to another node takes its value along, and   *)
(* an iterator goes on in order after the tree is turned under it.         *)
Unvisited ==
  IF n0 = nil THEN {}
  ELSE {k \in Live : n0 <= k /\ (n1 = nil \/ k <= n1)}

Abstract == INSTANCE OrderedMapSpec WITH
  map <- [k \in Live |-> tree.node[k].value],
  unvisited <- Unvisited

ImplementsOrderedMap == Abstract!Spec
=============================================================================

------------------------------ MODULE TMapProofs ------------------------------
(***************************************************************************)
(* Proofs about the red-black tree of common/tmap.c, for every number of   *)
(* keys: what tmap_put() and tmap_remove() promise at every turn of their  *)
(* rebalancing loops, and that the tree is a map with its keys in order.   *)
(***************************************************************************)
EXTENDS TMap, FiniteSetTheorems, WellFoundedInduction, TLAPS

-----------------------------------------------------------------------------
(* Trees as records: what one assignment of the code changes.              *)

Sides == {"left", "right"}

IsNode(n) ==
  n = [left |-> n.left, right |-> n.right, parent |-> n.parent, red |-> n.red,
       value |-> n.value]

IsTree(t) ==
  /\ t = [root |-> t.root, node |-> t.node]
  /\ t.node = [x \in DOMAIN t.node |-> t.node[x]]
  /\ \A x \in DOMAIN t.node : IsNode(t.node[x])

(* The trees t and u have the same nodes, with the same values.            *)
SameNodes(t, u) ==
  /\ IsTree(u)
  /\ DOMAIN u.node = DOMAIN t.node
  /\ \A x \in DOMAIN t.node : u.node[x].value = t.node[x].value

SameLinks(t, u) ==
  /\ u.root = t.root
  /\ \A x \in DOMAIN t.node : /\ u.node[x].parent = t.node[x].parent
                              /\ \A s \in Sides : u.node[x][s] = t.node[x][s]

SameColours(t, u) == \A x \in DOMAIN t.node : u.node[x].red = t.node[x].red

LEMMA NodeSet ==
  ASSUME NEW t, IsTree(t), NEW x \in DOMAIN t.node, NEW n, IsNode(n)
  PROVE  LET u == [t EXCEPT !.node[x] = n]
         IN  /\ IsTree(u) /\ u.root = t.root /\ DOMAIN u.node = DOMAIN t.node
             /\ u.node[x] = n
             /\ \A y \in DOMAIN t.node : y # x => u.node[y] = t.node[y]
<1> DEFINE u == [t EXCEPT !.node[x] = n]
           M == [t.node EXCEPT ![x] = n]
<1>1. u = [root |-> t.root, node |-> M]
  BY DEF IsTree
<1>2. M = [y \in DOMAIN t.node |-> IF y = x THEN n ELSE t.node[y]]
  BY DEF IsTree
<1> HIDE DEF u, M
<1>3. u.root = t.root /\ u.node = M
  BY <1>1
<1>4. /\ DOMAIN M = DOMAIN t.node /\ M[x] = n
      /\ \A y \in DOMAIN t.node : y # x => M[y] = t.node[y]
      /\ M = [y \in DOMAIN M |-> M[y]]
  BY <1>2
<1>5. IsTree(u)
  BY <1>1, <1>3, <1>4 DEF IsTree
<1> QED BY <1>3, <1>4, <1>5 DEF u

(* The tree u is t with a link, or a parent, that is another one.          *)
LinkSetTo(t, u, x, s, v) ==
  /\ SameNodes(t, u) /\ SameColours(t, u) /\ u.root = t.root
  /\ \A y \in DOMAIN t.node :
       /\ u.node[y].parent = t.node[y].parent
       /\ \A g \in Sides :
            u.node[y][g] = IF y = x /\ g = s THEN v ELSE t.node[y][g]

ParentSetTo(t, u, x, v) ==
  /\ SameNodes(t, u) /\ SameColours(t, u) /\ u.root = t.root
  /\ \A y \in DOMAIN t.node :
       /\ u.node[y].parent = IF y = x THEN v ELSE t.node[y].parent
       /\ \A g \in Sides : u.node[y][g] = t.node[y][g]

LEMMA LinkIsSet ==
  ASSUME NEW t, IsTree(t), NEW x \in DOMAIN t.node, NEW s \in Sides, NEW v
  PROVE  LinkSetTo(t, SetLink(t, x, s, v), x, s, v)
<1> DEFINE n == [t.node[x] EXCEPT ![s] = v]
           u == [t EXCEPT !.node[x] = n]
<1>1. n = [left |-> IF s = "left" THEN v ELSE t.node[x].left,
           right |-> IF s = "right" THEN v ELSE t.node[x].right,
           parent |-> t.node[x].parent, red |-> t.node[x].red,
           value |-> t.node[x].value]
  BY DEF IsTree, IsNode, Sides
<1> HIDE DEF n
<1>2. /\ IsNode(n) /\ n.parent = t.node[x].parent /\ n.red = t.node[x].red
      /\ n.value = t.node[x].value
      /\ \A g \in Sides : n[g] = IF g = s THEN v ELSE t.node[x][g]
  BY <1>1 DEF IsNode, Sides
<1>3. /\ IsTree(u) /\ u.root = t.root /\ DOMAIN u.node = DOMAIN t.node
      /\ u.node[x] = n
      /\ \A y \in DOMAIN t.node : y # x => u.node[y] = t.node[y]
  BY <1>2, NodeSet
<1>4. SetLink(t, x, s, v) = u
  BY DEF n, SetLink
<1> HIDE DEF u
<1>5. SameNodes(t, u) /\ SameColours(t, u)
  BY <1>2, <1>3 DEF SameNodes, SameColours
<1>6. \A y \in DOMAIN t.node :
        /\ u.node[y].parent = t.node[y].parent
        /\ \A g \in Sides :
             u.node[y][g] = IF y = x /\ g = s THEN v ELSE t.node[y][g]
  BY <1>2, <1>3
<1> QED BY <1>3, <1>4, <1>5, <1>6 DEF LinkSetTo

LEMMA ParentIsSet ==
  ASSUME NEW t, IsTree(t), NEW x \in DOMAIN t.node, NEW v
  PROVE  ParentSetTo(t, SetParent(t, x, v), x, v)
<1> DEFINE n == [t.node[x] EXCEPT !.parent = v]
           u == [t EXCEPT !.node[x] = n]
<1>1. n = [left |-> t.node[x].left, right |-> t.node[x].right,
           parent |-> v, red |-> t.node[x].red, value |-> t.node[x].value]
  BY DEF IsTree, IsNode
<1> HIDE DEF n
<1>2. /\ IsNode(n) /\ n.parent = v /\ n.red = t.node[x].red
      /\ n.value = t.node[x].value
      /\ \A g \in Sides : n[g] = t.node[x][g]
  BY <1>1 DEF IsNode, Sides
<1>3. /\ IsTree(u) /\ u.root = t.root /\ DOMAIN u.node = DOMAIN t.node
      /\ u.node[x] = n
      /\ \A y \in DOMAIN t.node : y # x => u.node[y] = t.node[y]
  BY <1>2, NodeSet
<1>4. SetParent(t, x, v) = u
  BY DEF n, SetParent
<1> HIDE DEF u
<1>5. SameNodes(t, u) /\ SameColours(t, u)
  BY <1>2, <1>3 DEF SameNodes, SameColours
<1>6. \A y \in DOMAIN t.node :
        /\ u.node[y].parent = IF y = x THEN v ELSE t.node[y].parent
        /\ \A g \in Sides : u.node[y][g] = t.node[y][g]
  BY <1>2, <1>3
<1> QED BY <1>3, <1>4, <1>5, <1>6 DEF ParentSetTo

RootSetTo(t, u, v) ==
  SameNodes(t, u) /\ SameColours(t, u) /\ u.root = v /\ u.node = t.node

LEMMA RootIsSet ==
  ASSUME NEW t, IsTree(t), NEW v
  PROVE  RootSetTo(t, [t EXCEPT !.root = v], v)
<1> DEFINE u == [t EXCEPT !.root = v]
<1>1. u = [root |-> v, node |-> t.node]
  BY DEF IsTree
<1> HIDE DEF u
<1>2. u.root = v /\ u.node = t.node
  BY <1>1
<1>3. IsTree(u)
  BY <1>1, <1>2 DEF IsTree
<1> QED BY <1>2, <1>3 DEF u, SameNodes, SameColours, RootSetTo

(* The tree u is t with other colours.                                     *)
PaintedTo(t, u, blacks, reds) ==
  /\ SameNodes(t, u) /\ SameLinks(t, u)
  /\ \A y \in DOMAIN t.node :
       u.node[y].red = IF y \in blacks \cup reds THEN y \in reds
                       ELSE t.node[y].red

LEMMA Painted ==
  ASSUME NEW t, IsTree(t), NEW blacks, NEW reds
  PROVE  PaintedTo(t, Paint(t, blacks, reds), blacks, reds)
<1> DEFINE n(x) == IF x \in blacks \cup reds
                   THEN [t.node[x] EXCEPT !.red = x \in reds] ELSE t.node[x]
           M == [x \in DOMAIN t.node |-> n(x)]
           u == Paint(t, blacks, reds)
<1>1. ASSUME NEW x \in DOMAIN t.node
      PROVE  /\ IsNode(n(x)) /\ n(x).parent = t.node[x].parent
             /\ n(x).value = t.node[x].value
             /\ n(x).left = t.node[x].left /\ n(x).right = t.node[x].right
             /\ n(x).red = IF x \in blacks \cup reds THEN x \in reds
                           ELSE t.node[x].red
  <2>1. CASE x \in blacks \cup reds
    <3>1. n(x) = [left |-> t.node[x].left, right |-> t.node[x].right,
                  parent |-> t.node[x].parent, red |-> x \in reds,
                  value |-> t.node[x].value]
      BY <2>1 DEF IsTree, IsNode
    <3> QED BY <2>1, <3>1 DEF IsNode
  <2>2. CASE x \notin blacks \cup reds
    BY <2>2 DEF IsTree
  <2> QED BY <2>1, <2>2
<1>2. u = [root |-> t.root, node |-> M]
  BY DEF Paint, IsTree
<1>3. DOMAIN M = DOMAIN t.node /\ \A x \in DOMAIN t.node : M[x] = n(x)
  OBVIOUS
<1>4. M = [x \in DOMAIN M |-> M[x]]
  OBVIOUS
<1> HIDE DEF M, n, u
<1>5. u.root = t.root /\ u.node = M
  BY <1>2
<1>6. IsTree(u)
  BY <1>1, <1>2, <1>3, <1>4, <1>5 DEF IsTree
<1> QED BY <1>1, <1>3, <1>5, <1>6 DEF u, SameNodes, SameLinks, Sides, PaintedTo

LEMMA SidesAre ==
  /\ \A s \in Sides : Opposite(s) \in Sides /\ Opposite(s) # s
       /\ Opposite(Opposite(s)) = s
  /\ \A s, g \in Sides : g # s => g = Opposite(s)
BY DEF Sides, Opposite

(* The tree u is t with y in the place of x below up.                      *)
ReplacedBy(t, u, up, x, y) ==
  /\ SameNodes(t, u) /\ SameColours(t, u)
  /\ u.root = IF up = nil THEN y ELSE t.root
  /\ \A z \in DOMAIN t.node :
       /\ u.node[z].parent = t.node[z].parent
       /\ \A g \in Sides :
            u.node[z][g] = IF up # nil /\ z = up /\ g = SideOf(t, x, up)
                           THEN y ELSE t.node[z][g]

LEMMA IsReplaced ==
  ASSUME NEW t, IsTree(t), NEW up \in DOMAIN t.node, NEW x, NEW y
  PROVE  ReplacedBy(t, Replace(t, up, x, y), up, x, y)
<1> DEFINE u == Replace(t, up, x, y)
<1>1. CASE up = nil
  <2>1. u = [t EXCEPT !.root = y]
    BY <1>1 DEF Replace
  <2> HIDE DEF u
  <2>2. RootSetTo(t, u, y)
    BY <2>1, RootIsSet
  <2> QED BY <1>1, <2>2 DEF u, ReplacedBy, RootSetTo
<1>2. CASE up # nil
  <2> DEFINE s == SideOf(t, x, up)
  <2>1. s \in Sides
    BY DEF Sides, SideOf
  <2>2. u = SetLink(t, up, s, y)
    <3>1. (IF t.node[up].left = x THEN "left" ELSE "right") = s
      BY DEF SideOf
    <3> QED BY <1>2, <3>1 DEF Replace
  <2> HIDE DEF u, s
  <2>3. LinkSetTo(t, u, up, s, y)
    BY <2>1, <2>2, LinkIsSet
  <2> QED BY <1>2, <2>3 DEF u, s, LinkSetTo, ReplacedBy
<1> QED BY <1>1, <1>2

ParentToldTo(t, u, x, up) ==
  /\ SameNodes(t, u) /\ SameColours(t, u) /\ u.root = t.root
  /\ \A z \in DOMAIN t.node :
       /\ u.node[z].parent = IF z = x /\ x # nil THEN up ELSE t.node[z].parent
       /\ \A g \in Sides : u.node[z][g] = t.node[z][g]

LEMMA ParentTold ==
  ASSUME NEW t, IsTree(t), NEW x \in DOMAIN t.node, NEW up
  PROVE  ParentToldTo(t, TellParent(t, x, up), x, up)
<1> DEFINE u == TellParent(t, x, up)
<1>1. CASE x = nil
  <2>1. u = t
    BY <1>1 DEF TellParent
  <2> HIDE DEF u
  <2> QED BY <1>1, <2>1 DEF u, SameNodes, SameColours, ParentToldTo
<1>2. CASE x # nil
  <2>1. u = SetParent(t, x, up)
    BY <1>2 DEF TellParent
  <2> HIDE DEF u
  <2>2. ParentSetTo(t, u, x, up)
    BY <2>1, ParentIsSet
  <2> QED BY <1>2, <2>2 DEF u, ParentSetTo, ParentToldTo
<1> QED BY <1>1, <1>2

LEMMA SameTrans ==
  ASSUME NEW t, NEW u, NEW v, SameNodes(t, u), SameColours(t, u),
         SameNodes(u, v), SameColours(u, v)
  PROVE  SameNodes(t, v) /\ SameColours(t, v) /\ DOMAIN u.node = DOMAIN t.node
BY DEF SameNodes, SameColours

(* The tree u is t with x turned down to the side s.                       *)
Rotated(t, u, x, s) ==
  LET child == t.node[x][Opposite(s)]
      inner == t.node[child][s]
      up == t.node[x].parent
  IN  /\ SameNodes(t, u) /\ SameColours(t, u)
      /\ u.root = IF up = nil THEN child ELSE t.root
      /\ \A y \in DOMAIN t.node :
           /\ u.node[y].parent =
                IF y = inner /\ inner # nil THEN x
                ELSE IF y = x THEN child ELSE IF y = child THEN up
                ELSE t.node[y].parent
           /\ \A g \in Sides :
                u.node[y][g] =
                  IF y = x /\ g = Opposite(s) THEN inner
                  ELSE IF y = child /\ g = s THEN x
                  ELSE IF up # nil /\ y = up /\ g = SideOf(t, x, up) THEN child
                  ELSE t.node[y][g]

LEMMA RotateIs ==
  ASSUME NEW t, IsTree(t), NEW x \in DOMAIN t.node, NEW s \in Sides,
         t.node[x][Opposite(s)] \in DOMAIN t.node,
         t.node[t.node[x][Opposite(s)]][s] \in DOMAIN t.node,
         t.node[x].parent \in DOMAIN t.node,
         x # nil, t.node[x][Opposite(s)] # x,
         t.node[t.node[x][Opposite(s)]][s] \notin {x, t.node[x][Opposite(s)]},
         t.node[x].parent \notin {x, t.node[x][Opposite(s)]}
  PROVE  Rotated(t, Rotate(t, x, s), x, s)
<1> DEFINE o == Opposite(s)
           child == t.node[x][o]
           inner == t.node[child][s]
           up == t.node[x].parent
           a == TellParent(t, inner, x)
           b == SetLink(a, x, o, inner)
           c == SetParent(b, child, up)
           d == Replace(c, up, x, child)
           e == SetLink(d, child, s, x)
           f == SetParent(e, x, child)
           D == DOMAIN t.node
<1>1. Rotate(t, x, s) = f
  BY DEF Rotate, Turned
<1>2. /\ o \in Sides /\ o # s /\ x \in D /\ child \in D /\ inner \in D
           /\ up \in D
      /\ child # x /\ inner # x /\ inner # child /\ up # x /\ up # child
  BY SidesAre
<1>3. ParentToldTo(t, a, inner, x)
  BY <1>2, ParentTold
<1>4. IsTree(a) /\ DOMAIN a.node = D
  BY <1>3 DEF SameNodes, ParentToldTo
<1> HIDE DEF a
<1>5. LinkSetTo(a, b, x, o, inner)
  BY <1>2, <1>4, LinkIsSet
<1>6. IsTree(b) /\ DOMAIN b.node = D
  BY <1>4, <1>5 DEF SameNodes, LinkSetTo
<1> HIDE DEF b
<1>7. ParentSetTo(b, c, child, up)
  BY <1>2, <1>6, ParentIsSet
<1>8. IsTree(c) /\ DOMAIN c.node = D
  BY <1>6, <1>7 DEF SameNodes, ParentSetTo
<1> HIDE DEF c
<1>9. ReplacedBy(c, d, up, x, child)
  BY <1>2, <1>8, IsReplaced
<1>10. IsTree(d) /\ DOMAIN d.node = D
  BY <1>8, <1>9 DEF SameNodes, ReplacedBy
<1> HIDE DEF d
<1>12. LinkSetTo(d, e, child, s, x)
  BY <1>2, <1>10, LinkIsSet
<1>13. IsTree(e) /\ DOMAIN e.node = D
  BY <1>10, <1>12 DEF SameNodes, LinkSetTo
<1> HIDE DEF e
<1>14. ParentSetTo(e, f, x, child)
  BY <1>2, <1>13, ParentIsSet
<1> HIDE DEF f
<1> USE DEF ParentToldTo, LinkSetTo, ParentSetTo, ReplacedBy
<1>11. SideOf(c, x, up) = SideOf(t, x, up)
  <2>1. c.node[up].left = t.node[up].left
    BY <1>2, <1>3, <1>4, <1>5, <1>6, <1>7 DEF Sides
  <2> QED BY <2>1 DEF SideOf
<1>15. SameNodes(t, f) /\ SameColours(t, f)
  <2>1. SameNodes(t, b) /\ SameColours(t, b)
    BY <1>3, <1>5, SameTrans
  <2>2. SameNodes(t, c) /\ SameColours(t, c)
    BY <1>7, <2>1, SameTrans
  <2>3. SameNodes(t, d) /\ SameColours(t, d)
    BY <1>9, <2>2, SameTrans
  <2>4. SameNodes(t, e) /\ SameColours(t, e)
    BY <1>12, <2>3, SameTrans
  <2> QED BY <1>14, <2>4, SameTrans
<1> USE <1>4, <1>6, <1>8, <1>10, <1>13
<1>16. f.root = IF up = nil THEN child ELSE t.root
  BY <1>3, <1>5, <1>7, <1>9, <1>12, <1>14
<1>17. ASSUME NEW y \in D
       PROVE  f.node[y].parent = IF y = inner /\ inner # nil THEN x
                ELSE IF y = x THEN child ELSE IF y = child THEN up
                ELSE t.node[y].parent
  <2>1. f.node[y].parent = IF y = x THEN child ELSE c.node[y].parent
    BY <1>9, <1>12, <1>14
  <2>2. c.node[y].parent = IF y = child THEN up
                           ELSE IF y = inner /\ inner # nil THEN x
                           ELSE t.node[y].parent
    BY <1>3, <1>5, <1>7
  <2> QED BY <1>2, <2>1, <2>2
<1>18. ASSUME NEW y \in D, NEW g \in Sides
       PROVE  f.node[y][g] = IF y = x /\ g = o THEN inner
                  ELSE IF y = child /\ g = s THEN x
                  ELSE IF up # nil /\ y = up /\ g = SideOf(t, x, up) THEN child
                  ELSE t.node[y][g]
  <2>1. c.node[y][g] = IF y = x /\ g = o THEN inner ELSE t.node[y][g]
    BY <1>3, <1>5, <1>7
  <2>2. d.node[y][g] = IF up # nil /\ y = up /\ g = SideOf(t, x, up) THEN child
                       ELSE c.node[y][g]
    BY <1>9, <1>11
  <2>3. f.node[y][g] = IF y = child /\ g = s THEN x ELSE d.node[y][g]
    BY <1>12, <1>14
  <2> QED BY <1>2, <2>1, <2>2, <2>3
<1> QED BY <1>1, <1>15, <1>16, <1>17, <1>18 DEF Rotated

-----------------------------------------------------------------------------
(* Search trees.                                                           *)

Nodes(t) == DOMAIN t.node \ {nil}

(* y lies on the side s of x.                                              *)
Beyond(s, x, y) == IF s = "left" THEN y < x ELSE x < y

(* sub[x] are the keys at and below x: those of the one side, x, and those *)
(* of the other, in this order.                                            *)
Shape(t, sub) ==
  /\ IsTree(t)
  /\ nil \in DOMAIN t.node /\ t.node[nil] = Nil
  /\ Nodes(t) \subseteq Keys
  /\ t.root \in DOMAIN t.node /\ t.node[t.root].parent = nil
  /\ \A y \in Nodes(t) : y \notin sub[nil] /\ y \in sub[t.root]
  /\ \A x \in DOMAIN t.node : sub[x] \subseteq Nodes(t)
  /\ \A x \in Nodes(t) :
       /\ x # t.root => /\ t.node[x].parent \in Nodes(t)
                        /\ \E s \in Sides : t.node[t.node[x].parent][s] = x
       /\ \A y \in Nodes(t) :
            y \in sub[x] <=> \/ y = x
                             \/ \E s \in Sides : y \in sub[t.node[x][s]]
       /\ \A s \in Sides :
            /\ t.node[x][s] \in DOMAIN t.node
            /\ t.node[x][s] # nil => t.node[t.node[x][s]].parent = x
            /\ \A y \in Nodes(t) : y \in sub[t.node[x][s]] => Beyond(s, x, y)

LEMMA NodesNumbered ==
  ASSUME NEW t, NEW sub, Shape(t, sub), NEW x \in Nodes(t)
  PROVE  x \in Nat /\ x # nil /\ x # 0 /\ x \in Keys /\ x \in DOMAIN t.node
<1>1. x \in Keys /\ x \in DOMAIN t.node
  BY DEF Shape, Nodes
<1> QED BY <1>1, KeysAssumption DEF nil

LEMMA BeyondIs ==
  ASSUME NEW x \in Nat, NEW y \in Nat, NEW s \in Sides
  PROVE  /\ ~Beyond(s, x, x)
         /\ Beyond(s, x, y) <=> Beyond(Opposite(s), y, x)
         /\ Beyond(s, x, y) => ~Beyond(Opposite(s), x, y)
         /\ \A z \in Nat : Beyond(s, x, y) /\ Beyond(s, y, z) => Beyond(s, x, z)
         /\ x # y => Beyond(s, x, y) \/ Beyond(Opposite(s), x, y)
BY DEF Beyond, Sides, Opposite

LEMMA ChildIs ==
  ASSUME NEW t, NEW sub, Shape(t, sub), NEW x \in Nodes(t), NEW s \in Sides
  PROVE  LET c == t.node[x][s]
             o == t.node[x][Opposite(s)]
         IN  /\ c \in DOMAIN t.node
             /\ \A y \in sub[c] : y \in Nodes(t) /\ y \in sub[x]
                  /\ Beyond(s, x, y)
                                  /\ y # x /\ y \notin sub[o]
             /\ c # nil => /\ c \in Nodes(t) /\ c \in sub[c] /\ c # x
                                /\ c # t.root
                           /\ c # o /\ t.node[c].parent = x
<1> DEFINE c == t.node[x][s]
           o == t.node[x][Opposite(s)]
<1>1. c \in DOMAIN t.node /\ o \in DOMAIN t.node
        /\ (c # nil => t.node[c].parent = x)
  BY SidesAre DEF Shape
<1>2. c # nil => c \in Nodes(t)
  BY <1>1 DEF Nodes
<1>3. c # nil => c \in sub[c]
  BY <1>2 DEF Shape
<1>4. c # nil => c # t.root
  BY <1>1, NodesNumbered DEF Shape
<1>5. ASSUME NEW y \in sub[c]
      PROVE  y \in Nodes(t) /\ y \in sub[x] /\ Beyond(s, x, y) /\ y # x
               /\ y \notin sub[o]
  <2>1. y \in Nodes(t)
    BY <1>1 DEF Shape
  <2>2. y \in sub[x] /\ Beyond(s, x, y)
    BY <2>1 DEF Shape
  <2>3. x \in Nat /\ y \in Nat
    BY <2>1, NodesNumbered
  <2>4. y \in sub[o] => Beyond(Opposite(s), x, y)
    BY <2>1, SidesAre DEF Shape
  <2> QED BY <2>1, <2>2, <2>3, <2>4, BeyondIs
<1>6. c # nil => c # x /\ c # o
  BY <1>2, <1>3, <1>5
<1> QED BY <1>1, <1>2, <1>3, <1>4, <1>5, <1>6

(* Which of its parent's links a node is.                                  *)
LEMMA SideIs ==
  ASSUME NEW t, NEW sub, Shape(t, sub), NEW x \in Nodes(t), NEW s \in Sides,
         t.node[x][s] # nil
  PROVE  /\ SideOf(t, t.node[x][s], x) = s
         /\ \A y \in Nodes(t), g \in Sides :
              t.node[y][g] = t.node[x][s] => y = x /\ g = s
<1>1. t.node[x][Opposite(s)] # t.node[x][s]
  BY ChildIs
<1>2. SideOf(t, t.node[x][s], x) = s
  BY <1>1 DEF SideOf, Sides, Opposite
<1>3. ASSUME NEW y \in Nodes(t), NEW g \in Sides, t.node[y][g] = t.node[x][s]
      PROVE  y = x /\ g = s
  <2>1. t.node[t.node[x][s]].parent = x /\ t.node[t.node[y][g]].parent = y
    BY <1>3 DEF Shape
  <2> QED BY <1>1, <1>3, <2>1, SidesAre
<1> QED BY <1>2, <1>3

LEMMA ParentIs ==
  ASSUME NEW t, NEW sub, Shape(t, sub), NEW x \in Nodes(t)
  PROVE  LET up == t.node[x].parent
         IN  /\ up \in DOMAIN t.node /\ up # x
             /\ x = t.root <=> up = nil
             /\ up # nil =>
                  /\ up \in Nodes(t) /\ SideOf(t, x, up) \in Sides
                  /\ t.node[up][SideOf(t, x, up)] = x
                  /\ t.node[up][Opposite(SideOf(t, x, up))] # x
                  /\ up \notin sub[x] /\ \A y \in sub[x] : y \in sub[up]
<1> DEFINE up == t.node[x].parent
<1>1. CASE x = t.root
  <2>1. up = nil
    BY <1>1 DEF Shape
  <2> QED BY <1>1, <2>1, NodesNumbered DEF Shape
<1>2. CASE x # t.root
  <2>1. up \in Nodes(t)
    BY <1>2 DEF Shape
  <2>2. PICK s \in Sides : t.node[up][s] = x
    BY <1>2 DEF Shape
  <2>3. SideOf(t, x, up) = s
    BY <2>1, <2>2, SideIs, NodesNumbered
  <2>4. up # nil /\ up \in DOMAIN t.node
    BY <2>1, NodesNumbered
  <2>5. /\ t.node[up][Opposite(s)] # x /\ x # up
        /\ up \notin sub[x] /\ \A y \in sub[x] : y \in sub[up]
    BY <2>1, <2>2, ChildIs, NodesNumbered
  <2> QED BY <1>2, <2>1, <2>2, <2>3, <2>4, <2>5
<1> QED BY <1>1, <1>2

-----------------------------------------------------------------------------
(* Turning keeps the order of the keys.                                    *)

(* The keys below the nodes after x is turned down to the side s.          *)
RotatedSub(t, sub, x, s) ==
  LET child == t.node[x][Opposite(s)]
  IN  [y \in DOMAIN t.node |->
         IF y = child THEN sub[x]
         ELSE IF y = x THEN {x} \cup sub[t.node[x][s]] \cup sub[t.node[child][s]]
         ELSE sub[y]]

(* What is known of the nodes that a rotation links.                       *)
LEMMA RotationOf ==
  ASSUME NEW t, NEW sub, Shape(t, sub), NEW x \in Nodes(t), NEW s \in Sides,
         t.node[x][Opposite(s)] # nil
  PROVE  LET child == t.node[x][Opposite(s)]
             inner == t.node[child][s]
             outer == t.node[child][Opposite(s)]
             far == t.node[x][s]
             up == t.node[x].parent
         IN  /\ Rotated(t, Rotate(t, x, s), x, s)
             /\ child \in Nodes(t) /\ child # x /\ child # t.root
             /\ inner \in DOMAIN t.node /\ inner # x /\ inner # child
             /\ outer \in DOMAIN t.node /\ outer # x /\ outer # child
             /\ far \in DOMAIN t.node /\ far # x /\ far # child
             /\ up \in DOMAIN t.node /\ up # x /\ up # child
             /\ inner # nil => inner # outer /\ inner # far
             /\ far # nil => far # outer
             /\ up # nil => up # inner /\ up # outer /\ up # far
<1> DEFINE o == Opposite(s)
           child == t.node[x][o]
           inner == t.node[child][s]
           outer == t.node[child][o]
           far == t.node[x][s]
           up == t.node[x].parent
<1>0. o \in Sides /\ o # s /\ Opposite(o) = s
  BY SidesAre
<1>1. child \in Nodes(t) /\ child # x /\ child # t.root /\ child # far
      /\ t.node[child].parent = x
  BY <1>0, ChildIs
<1>2. /\ inner \in DOMAIN t.node /\ outer \in DOMAIN t.node
           /\ far \in DOMAIN t.node
      /\ inner # nil => inner # outer /\ inner # child /\ inner \in sub[inner]
                        /\ inner \in Nodes(t) /\ t.node[inner].parent = child
      /\ outer # nil => outer # inner /\ outer # child /\ outer \in sub[outer]
                        /\ outer \in Nodes(t) /\ t.node[outer].parent = child
      /\ far # nil => far # x /\ far \in sub[far] /\ far \in Nodes(t)
           /\ t.node[far].parent = x
  BY <1>0, <1>1, ChildIs
<1>3. x # nil /\ child # nil /\ x \in DOMAIN t.node
  BY <1>1, NodesNumbered
<1>4. /\ \A y \in sub[child] : y # x /\ y \notin sub[far] /\ y \in sub[x]
      /\ \A y \in sub[inner] : y \in sub[child]
      /\ \A y \in sub[outer] : y \in sub[child]
      /\ \A y \in sub[far] : y # x /\ y \in sub[x]
  <2>1. \A y \in sub[child] : y # x /\ y \notin sub[far] /\ y \in sub[x]
    BY <1>0, ChildIs
  <2>2. \A y \in sub[inner] : y \in sub[child]
    BY <1>1, ChildIs
  <2>3. \A y \in sub[outer] : y \in sub[child]
    BY <1>0, <1>1, ChildIs
  <2>4. \A y \in sub[far] : y # x /\ y \in sub[x]
    BY ChildIs
  <2> QED BY <2>1, <2>2, <2>3, <2>4
<1>5. inner # x /\ outer # x /\ inner # child /\ outer # child /\ far # x
  BY <1>2, <1>3, <1>4
<1>6. /\ inner # nil => inner # far
      /\ far # nil => far # outer
  BY <1>2, <1>4
<1>7. /\ up \in DOMAIN t.node /\ up # x
      /\ up # nil => up \in Nodes(t) /\ up \notin sub[x]
  BY ParentIs
<1>8. child \in sub[child] /\ child \in sub[x]
  BY <1>0, <1>1, <1>4, ChildIs, NodesNumbered
<1>9. up # child /\ (up # nil => up # inner /\ up # outer /\ up # far)
  BY <1>2, <1>3, <1>4, <1>7, <1>8
<1>10. Rotated(t, Rotate(t, x, s), x, s)
  <2>1. IsTree(t)
    BY DEF Shape
  <2>2. child \in DOMAIN t.node
    BY <1>1 DEF Nodes
  <2> QED BY <1>2, <1>3, <1>5, <1>1, <1>7, <1>9, <2>1, <2>2, RotateIs
<1> QED BY <1>1, <1>2, <1>5, <1>6, <1>7, <1>9, <1>10

LEMMA RotateShape ==
  ASSUME NEW t, NEW sub, Shape(t, sub), NEW x \in Nodes(t), NEW s \in Sides,
         t.node[x][Opposite(s)] # nil
  PROVE  Shape(Rotate(t, x, s), RotatedSub(t, sub, x, s))
<1> DEFINE o == Opposite(s)
           child == t.node[x][o]
           inner == t.node[child][s]
           outer == t.node[child][o]
           far == t.node[x][s]
           up == t.node[x].parent
           u == Rotate(t, x, s)
           low == RotatedSub(t, sub, x, s)
           D == DOMAIN t.node
           N == Nodes(t)
<1>0. o \in Sides /\ o # s /\ Opposite(o) = s /\ Opposite(s) = o
  BY SidesAre
<1>1. /\ Rotated(t, u, x, s)
      /\ child \in N /\ child # x /\ child # t.root
      /\ inner \in D /\ inner # x /\ inner # child
      /\ outer \in D /\ outer # x /\ outer # child
      /\ far \in D /\ far # x /\ far # child
      /\ up \in D /\ up # x /\ up # child
      /\ inner # nil => inner # outer /\ inner # far
      /\ far # nil => far # outer
      /\ up # nil => up # inner /\ up # outer /\ up # far
  BY RotationOf
<1> HIDE DEF u
<1>2. /\ IsTree(u) /\ DOMAIN u.node = D /\ Nodes(u) = N
      /\ \A y \in D : u.node[y].red = t.node[y].red
           /\ u.node[y].value = t.node[y].value
  BY <1>1 DEF Rotated, SameNodes, SameColours, Nodes
<1>3. /\ u.root = IF up = nil THEN child ELSE t.root
      /\ \A y \in D :
           /\ u.node[y].parent =
                IF y = inner /\ inner # nil THEN x
                ELSE IF y = x THEN child ELSE IF y = child THEN up
                ELSE t.node[y].parent
           /\ \A g \in Sides :
                u.node[y][g] =
                  IF y = x /\ g = o THEN inner
                  ELSE IF y = child /\ g = s THEN x
                  ELSE IF up # nil /\ y = up /\ g = SideOf(t, x, up) THEN child
                  ELSE t.node[y][g]
  BY <1>1 DEF Rotated
<1>4. x # nil /\ child # nil /\ x \in D /\ child \in D /\ nil \in D
        /\ nil \notin N
      /\ N \subseteq D
  BY <1>1, NodesNumbered DEF Shape, Nodes
<1>5. /\ x = t.root <=> up = nil
      /\ up # nil => /\ up \in N /\ SideOf(t, x, up) \in Sides
                     /\ t.node[up][SideOf(t, x, up)] = x
                     /\ t.node[up][Opposite(SideOf(t, x, up))] # x
                     /\ up \notin sub[x] /\ \A y \in sub[x] : y \in sub[up]
  BY ParentIs
<1>6. /\ \A y \in D : low[y] = IF y = child THEN sub[x]
                               ELSE IF y = x THEN {x} \cup sub[far] \cup sub[inner]
                               ELSE sub[y]
  BY DEF RotatedSub
<1> HIDE DEF low
<1>7. /\ \A y \in sub[child] : y \in N /\ Beyond(o, x, y) /\ y \in sub[x]
           /\ y # x
      /\ \A y \in sub[inner] : y \in N /\ Beyond(s, child, y)
           /\ y \in sub[child] /\ y # child
      /\ \A y \in sub[outer] : y \in N /\ Beyond(o, child, y)
           /\ y \in sub[child] /\ y # child
      /\ \A y \in sub[far] : y \in N /\ Beyond(s, x, y) /\ y \in sub[x] /\ y # x
      /\ x \in sub[x] /\ child \in sub[child]
  <2>1. \A y \in sub[child] : y \in N /\ Beyond(o, x, y) /\ y \in sub[x]
          /\ y # x
    BY <1>0, ChildIs
  <2>2. \A y \in sub[inner] : y \in N /\ Beyond(s, child, y)
          /\ y \in sub[child] /\ y # child
    BY <1>1, ChildIs
  <2>3. \A y \in sub[outer] : y \in N /\ Beyond(o, child, y)
          /\ y \in sub[child] /\ y # child
    BY <1>0, <1>1, ChildIs
  <2>4. \A y \in sub[far] : y \in N /\ Beyond(s, x, y) /\ y \in sub[x] /\ y # x
    BY ChildIs
  <2> QED BY <1>0, <1>1, <1>4, <2>1, <2>2, <2>3, <2>4, ChildIs DEF Shape
<1>8. /\ \A y \in N : y \in sub[x] <=> y = x \/ y \in sub[far]
           \/ y \in sub[child]
      /\ \A y \in N : y \in sub[child] <=> y = child \/ y \in sub[inner]
           \/ y \in sub[outer]
  <2>1. \A y \in N : y \in sub[x] <=> y = x
          \/ \E g \in Sides : y \in sub[t.node[x][g]]
    BY DEF Shape
  <2>2. \A y \in N : y \in sub[child] <=> y = child
          \/ \E g \in Sides : y \in sub[t.node[child][g]]
    BY <1>1 DEF Shape
  <2> QED BY <1>0, <2>1, <2>2, SidesAre
<1>9. u.node[nil] = Nil
  <2>1. t.node[nil] = Nil /\ IsNode(Nil) /\ IsNode(u.node[nil])
    BY <1>2, <1>4 DEF Shape, Nil, Fresh, IsNode, IsTree
  <2>2. u.node[nil].parent = Nil.parent /\ u.node[nil].red = Nil.red
        /\ u.node[nil].value = Nil.value
        /\ \A g \in Sides : u.node[nil][g] = t.node[nil][g]
    BY <1>1, <1>2, <1>3, <1>4, <2>1
  <2>3. u.node[nil].left = Nil.left /\ u.node[nil].right = Nil.right
    BY <2>1, <2>2 DEF Sides
  <2> QED BY <2>1, <2>2, <2>3 DEF IsNode
<1>10. /\ u.root \in D /\ u.node[u.root].parent = nil
       /\ \A y \in N : y \notin low[nil] /\ y \in low[u.root]
  <2>1. \A y \in N : y \notin low[nil]
    BY <1>1, <1>4, <1>6 DEF Shape
  <2>2. CASE up = nil
    BY <1>1, <1>3, <1>4, <1>5, <1>6, <2>1, <2>2 DEF Shape
  <2>3. CASE up # nil
    <3>1. u.root = t.root /\ t.root # x /\ t.root # child /\ t.root \in D
      BY <1>1, <1>3, <1>5, <2>3 DEF Shape
    <3>2. t.root # inner \/ inner = nil
      <4>1. inner # nil => t.node[inner].parent = child
        BY <1>1 DEF Shape
      <4>2. t.node[t.root].parent = nil
        BY DEF Shape
      <4> HIDE DEF inner, child
      <4> QED BY <1>4, <4>1, <4>2
    <3> QED BY <1>3, <1>6, <2>1, <3>1, <3>2 DEF Shape
  <2> QED BY <2>2, <2>3
<1>11. \A y \in D : low[y] \subseteq N
  <2>1. \A y \in D : sub[y] \subseteq N
    BY DEF Shape
  <2> QED BY <1>1, <1>4, <1>6, <2>1
<1>12. ASSUME NEW y \in N, y # u.root
       PROVE  u.node[y].parent \in N /\ \E g \in Sides : u.node[u.node[y].parent][g] = y
  <2>1. CASE y = x
    BY <1>0, <1>1, <1>3, <1>4, <2>1
  <2>2. CASE y = child
    <3>1. up # nil
      BY <1>3, <1>12, <2>2
    <3>2. u.node[y].parent = up
      BY <1>1, <1>3, <1>4, <2>2
    <3> QED BY <1>1, <1>3, <1>5, <2>2, <3>1, <3>2
  <2>3. CASE y = inner
    BY <1>0, <1>1, <1>3, <1>4, <2>3
  <2>4. CASE y \notin {x, child, inner}
    <3>1. u.node[y].parent = t.node[y].parent
      BY <1>3, <1>4, <2>4
    <3>2. y # t.root
      BY <1>3, <1>5, <1>12, <2>4
    <3>3. t.node[y].parent \in N
      BY <3>2 DEF Shape
    <3>4. PICK g \in Sides : t.node[t.node[y].parent][g] = y
      BY <3>2 DEF Shape
    <3>5. u.node[t.node[y].parent][g] = y
      BY <1>0, <1>3, <1>4, <1>5, <2>4, <3>3, <3>4
    <3> QED BY <3>1, <3>3, <3>5
  <2> QED BY <2>1, <2>2, <2>3, <2>4
<1>13. ASSUME NEW y \in N, y \notin {x, child}, NEW g \in Sides
       PROVE  /\ u.node[y][g] \in D
              /\ u.node[y][g] # nil => u.node[u.node[y][g]].parent = y
              /\ low[u.node[y][g]] = sub[t.node[y][g]]
  <2>1. t.node[y][g] \in D /\ (t.node[y][g] # nil => t.node[t.node[y][g]].parent = y)
        /\ y # nil /\ y \in D
    BY <1>4 DEF Shape
  <2>2. CASE up # nil /\ y = up /\ g = SideOf(t, x, up)
    <3>1. u.node[y][g] = child /\ t.node[y][g] = x
      BY <1>3, <1>5, <1>13, <2>1, <2>2
    <3> QED BY <1>1, <1>3, <1>4, <1>6, <2>2, <3>1
  <2>3. CASE ~(up # nil /\ y = up /\ g = SideOf(t, x, up))
    <3>1. u.node[y][g] = t.node[y][g]
      BY <1>3, <1>13, <2>1, <2>3
    <3>2. t.node[y][g] # x /\ t.node[y][g] # child
      BY <1>0, <1>1, <1>4, <1>5, <1>13, <2>1, <2>3, SideIs, ChildIs
    <3>3. t.node[y][g] # inner \/ inner = nil
      BY <1>1, <1>13, <2>1, ChildIs
    <3> QED BY <1>3, <1>6, <2>1, <3>1, <3>2, <3>3
  <2> QED BY <2>2, <2>3
<1>14. /\ u.node[x][o] = inner /\ u.node[x][s] = far
       /\ u.node[child][s] = x /\ u.node[child][o] = outer
       /\ inner # nil => u.node[inner].parent = x
       /\ far # nil => u.node[far].parent = x
       /\ u.node[x].parent = child
       /\ outer # nil => u.node[outer].parent = child
  <2>1. /\ far # nil => t.node[far].parent = x
        /\ outer # nil => t.node[outer].parent = child
    BY <1>0, <1>1 DEF Shape
  <2> QED BY <1>0, <1>1, <1>3, <1>4, <2>1
<1>15. /\ low[inner] = sub[inner] /\ low[far] = sub[far]
            /\ low[outer] = sub[outer]
       /\ low[x] = {x} \cup sub[far] \cup sub[inner] /\ low[child] = sub[x]
  BY <1>1, <1>4, <1>6
<1>16. \A y \in N : y \in Nat
  BY NodesNumbered
<1>17. Beyond(s, child, x) /\ \A y \in sub[far] : Beyond(s, child, y)
  <2>1. Beyond(s, child, x)
    <3>1. Beyond(o, x, child) /\ x \in Nat /\ child \in Nat
      BY <1>1, <1>7, <1>16
    <3> HIDE DEF child, o
    <3> QED BY <1>0, <3>1, BeyondIs
  <2> QED BY <1>1, <1>7, <1>16, <2>1, BeyondIs
<1>18. ASSUME NEW y \in N
       PROVE  /\ \A z \in N : z \in low[y] <=> \/ z = y
                                \/ \E g \in Sides : z \in low[u.node[y][g]]
              /\ \A g \in Sides :
                   /\ u.node[y][g] \in D
                   /\ u.node[y][g] # nil => u.node[u.node[y][g]].parent = y
                   /\ \A z \in N : z \in low[u.node[y][g]] => Beyond(g, y, z)
  <2>1. CASE y = x
    <3>1. \A z \in N : z \in low[y] <=> \/ z = y \/ z \in low[u.node[y][s]]
                                             \/ z \in low[u.node[y][o]]
      BY <1>14, <1>15, <2>1
    <3>2. /\ u.node[y][s] \in D /\ u.node[y][o] \in D
          /\ u.node[y][s] # nil => u.node[u.node[y][s]].parent = y
          /\ u.node[y][o] # nil => u.node[u.node[y][o]].parent = y
      BY <1>1, <1>14, <2>1
    <3>3. /\ \A z \in N : z \in low[u.node[y][s]] => Beyond(s, y, z)
          /\ \A z \in N : z \in low[u.node[y][o]] => Beyond(o, y, z)
      BY <1>7, <1>14, <1>15, <2>1
    <3> QED BY <1>0, <3>1, <3>2, <3>3, SidesAre
  <2>2. CASE y = child
    <3>1. \A z \in N : z \in low[y] <=> \/ z = y \/ z \in low[u.node[y][s]]
                                             \/ z \in low[u.node[y][o]]
      BY <1>7, <1>8, <1>14, <1>15, <2>2
    <3>2. /\ u.node[y][s] \in D /\ u.node[y][o] \in D
          /\ u.node[y][s] # nil => u.node[u.node[y][s]].parent = y
          /\ u.node[y][o] # nil => u.node[u.node[y][o]].parent = y
      BY <1>1, <1>4, <1>14, <2>2
    <3>3. /\ \A z \in N : z \in low[u.node[y][s]] => Beyond(s, y, z)
          /\ \A z \in N : z \in low[u.node[y][o]] => Beyond(o, y, z)
      BY <1>7, <1>14, <1>15, <1>17, <2>2
    <3> QED BY <1>0, <3>1, <3>2, <3>3, SidesAre
  <2>3. CASE y \notin {x, child}
    <3>1. low[y] = sub[y]
      BY <1>4, <1>6, <2>3
    <3>2. /\ \A z \in N : z \in sub[y] <=> \/ z = y
                                \/ \E g \in Sides : z \in sub[t.node[y][g]]
          /\ \A g \in Sides, z \in N : z \in sub[t.node[y][g]]
               => Beyond(g, y, z)
      BY DEF Shape
    <3>3. \A g \in Sides :
              /\ u.node[y][g] \in D
              /\ u.node[y][g] # nil => u.node[u.node[y][g]].parent = y
              /\ low[u.node[y][g]] = sub[t.node[y][g]]
      BY <1>13, <2>3
    <3>4. \A g \in Sides, z \in N : z \in low[u.node[y][g]]
            <=> z \in sub[t.node[y][g]]
      BY <3>3
    <3>5. \A z \in N : z \in low[y] <=> \/ z = y
                                         \/ \E g \in Sides : z \in low[u.node[y][g]]
      BY <3>1, <3>2, <3>4
    <3>6. \A g \in Sides, z \in N : z \in low[u.node[y][g]] => Beyond(g, y, z)
      BY <3>2, <3>4
    <3> QED BY <3>3, <3>5, <3>6
  <2> QED BY <2>1, <2>2, <2>3
<1>19. N \subseteq Keys
  BY DEF Shape
<1> HIDE DEF D, N
<1>20. Shape(u, low)
  <2>1. /\ IsTree(u) /\ nil \in DOMAIN u.node /\ u.node[nil] = Nil
        /\ Nodes(u) \subseteq Keys
        /\ u.root \in DOMAIN u.node /\ u.node[u.root].parent = nil
        /\ \A y \in Nodes(u) : y \notin low[nil] /\ y \in low[u.root]
        /\ \A y \in DOMAIN u.node : low[y] \subseteq Nodes(u)
    BY <1>2, <1>4, <1>9, <1>10, <1>11, <1>19
  <2>2. \A y \in Nodes(u) :
          /\ y # u.root => /\ u.node[y].parent \in Nodes(u)
                           /\ \E g \in Sides : u.node[u.node[y].parent][g] = y
          /\ \A z \in Nodes(u) : z \in low[y] <=> \/ z = y
                                \/ \E g \in Sides : z \in low[u.node[y][g]]
          /\ \A g \in Sides :
                   /\ u.node[y][g] \in DOMAIN u.node
                   /\ u.node[y][g] # nil => u.node[u.node[y][g]].parent = y
                   /\ \A z \in Nodes(u) : z \in low[u.node[y][g]]
                        => Beyond(g, y, z)
    BY <1>2, <1>12, <1>18
  <2> QED BY <2>1, <2>2 DEF Shape
<1> QED BY <1>20 DEF u, low

LEMMA LeastOf ==
  ASSUME NEW S \in SUBSET Nat, S # {}
  PROVE  \E m \in S : \A k \in S : m <= k
<1>1. IsWellFoundedOn(OpToRel(<, Nat), Nat)
  BY NatLessThanWellFounded
<1>2. \E m \in S : \A k \in S : ~(<<k, m>> \in OpToRel(<, Nat))
  BY <1>1, WFMin
<1>3. \A k, m \in Nat : k < m => <<k, m>> \in OpToRel(<, Nat)
  BY DEF OpToRel
<1>4. \E m \in S : \A k \in S : ~(k < m)
  BY <1>2, <1>3, Zenon
<1>. QED
  BY <1>4

LEMMA PaintShape ==
  ASSUME NEW t, NEW sub, Shape(t, sub), NEW blacks, NEW reds, nil \notin reds
  PROVE  Shape(Paint(t, blacks, reds), sub)
<1> DEFINE u == Paint(t, blacks, reds)
<1>1. PaintedTo(t, u, blacks, reds)
  BY Painted DEF Shape
<1> HIDE DEF u
<1>2. /\ IsTree(u) /\ DOMAIN u.node = DOMAIN t.node /\ Nodes(u) = Nodes(t)
      /\ u.root = t.root
      /\ \A x \in DOMAIN t.node :
           /\ u.node[x].parent = t.node[x].parent
           /\ u.node[x].value = t.node[x].value
           /\ \A s \in Sides : u.node[x][s] = t.node[x][s]
           /\ u.node[x].red = IF x \in blacks \cup reds THEN x \in reds
                              ELSE t.node[x].red
  BY <1>1 DEF PaintedTo, SameNodes, SameLinks, Nodes
<1>3. u.node[nil] = Nil
  <2>1. /\ t.node[nil] = Nil /\ IsNode(Nil) /\ IsNode(u.node[nil])
             /\ Nil.red = FALSE
        /\ nil \in DOMAIN t.node
    BY <1>2 DEF Shape, Nil, Fresh, IsNode, IsTree
  <2>4. u.node[nil].red = FALSE
    <3>1. CASE nil \in blacks
      <4>1. u.node[nil].red = (nil \in reds)
        BY <1>2, <2>1, <3>1, Zenon
      <4>2. (nil \in reds) = FALSE
        OBVIOUS
      <4> QED BY <4>1, <4>2, Zenon
    <3>2. CASE nil \notin blacks
      BY <1>2, <2>1, <3>2
    <3> QED BY <3>1, <3>2
  <2>2. u.node[nil].parent = Nil.parent /\ u.node[nil].red = Nil.red
        /\ u.node[nil].value = Nil.value
        /\ \A g \in Sides : u.node[nil][g] = t.node[nil][g]
    BY <1>2, <2>1, <2>4
  <2>3. u.node[nil].left = Nil.left /\ u.node[nil].right = Nil.right
    BY <2>1, <2>2 DEF Sides
  <2> QED BY <2>1, <2>2, <2>3 DEF IsNode
<1>4. \A x \in Nodes(t) : x \in DOMAIN t.node
        /\ (x # t.root => t.node[x].parent \in DOMAIN t.node)
        /\ \A s \in Sides : t.node[x][s] \in DOMAIN t.node
  BY DEF Shape, Nodes
<1>5. Shape(u, sub)
  <2>1. /\ IsTree(u) /\ nil \in DOMAIN u.node /\ u.node[nil] = Nil
        /\ Nodes(u) \subseteq Keys
        /\ u.root \in DOMAIN u.node /\ u.node[u.root].parent = nil
        /\ \A y \in Nodes(u) : y \notin sub[nil] /\ y \in sub[u.root]
        /\ \A y \in DOMAIN u.node : sub[y] \subseteq Nodes(u)
    BY <1>2, <1>3 DEF Shape
  <2>2. ASSUME NEW y \in Nodes(u)
        PROVE  /\ y # u.root => /\ u.node[y].parent \in Nodes(u)
                                /\ \E g \in Sides : u.node[u.node[y].parent][g] = y
               /\ \A z \in Nodes(u) : z \in sub[y] <=> \/ z = y
                                \/ \E g \in Sides : z \in sub[u.node[y][g]]
               /\ \A g \in Sides :
                   /\ u.node[y][g] \in DOMAIN u.node
                   /\ u.node[y][g] # nil => u.node[u.node[y][g]].parent = y
                   /\ \A z \in Nodes(u) : z \in sub[u.node[y][g]]
                        => Beyond(g, y, z)
    <3>1. y # t.root => /\ t.node[y].parent \in Nodes(t)
                        /\ \E g \in Sides : t.node[t.node[y].parent][g] = y
      BY <1>2 DEF Shape
    <3>2. /\ \A z \in Nodes(t) : z \in sub[y] <=> \/ z = y
                                \/ \E g \in Sides : z \in sub[t.node[y][g]]
          /\ \A g \in Sides :
                /\ t.node[y][g] \in DOMAIN t.node
                /\ t.node[y][g] # nil => t.node[t.node[y][g]].parent = y
                /\ \A z \in Nodes(t) : z \in sub[t.node[y][g]]
                     => Beyond(g, y, z)
      BY <1>2 DEF Shape
    <3>3. \A g \in Sides : u.node[y][g] = t.node[y][g]
      BY <1>2, <1>4
    <3>4. y # u.root => /\ u.node[y].parent \in Nodes(u)
                        /\ \E g \in Sides : u.node[u.node[y].parent][g] = y
      BY <1>2, <1>4, <3>1
    <3> QED BY <1>2, <3>2, <3>3, <3>4
  <2> QED BY <2>1, <2>2 DEF Shape
<1> QED BY <1>5 DEF u

-----------------------------------------------------------------------------
(* Loops along the links: as many turns as there are keys are enough.      *)

LEMMA Climb ==
  ASSUME NEW n \in Nat, NEW S, 0 \in S,
         \A d \in Nat : d \in S /\ d < n => d + 1 \in S
  PROVE  \A d \in 0..n : d \in S
<1> SUFFICES ASSUME NEW e \in 0..n, e \notin S PROVE FALSE
  OBVIOUS
<1> DEFINE B == {d \in 0..n : d \notin S}
<1>1. B \in SUBSET Nat /\ B # {}
  OBVIOUS
<1>2. PICK m \in B : \A d \in B : m <= d
  BY <1>1, LeastOf
<1>3. m \in Nat /\ m # 0 /\ m <= n /\ m \notin S
  OBVIOUS
<1>4. m - 1 \in Nat /\ m - 1 < n /\ m - 1 \in 0..n /\ ~(m <= m - 1)
  BY <1>3
<1>5. m - 1 \in S
  BY <1>2, <1>4
<1>6. (m - 1) + 1 = m
  BY <1>3
<1> QED BY <1>3, <1>4, <1>5, <1>6

(* A function of the number of turns.                                      *)
Turns(f, b, n, g) == [d \in 0..n |-> IF d = 0 THEN b ELSE f[g[d - 1]]]

LEMMA Iterated ==
  ASSUME NEW S, NEW f \in [S -> S], NEW b \in S, NEW n \in Nat
  PROVE  \E g : g = Turns(f, b, n, g) /\ \A d \in 0..n : g[d] \in S
<1> DEFINE Good(m) == \E g : g = Turns(f, b, m, g) /\ \A d \in 0..m : g[d] \in S
           G == {m \in Nat : Good(m)}
<1>1. 0 \in G
  <2> DEFINE g == [d \in 0..0 |-> b]
  <2>1. g = Turns(f, b, 0, g) /\ \A d \in 0..0 : g[d] \in S
    BY DEF Turns
  <2> QED BY <2>1
<1>2. ASSUME NEW m \in Nat, m \in G
      PROVE  m + 1 \in G
  <2>1. PICK g : g = Turns(f, b, m, g) /\ \A d \in 0..m : g[d] \in S
    BY <1>2
  <2> DEFINE h == [d \in 0..(m + 1) |-> IF d = m + 1 THEN f[g[m]] ELSE g[d]]
  <2>2. \A d \in 0..m : g[d] = IF d = 0 THEN b ELSE f[g[d - 1]]
    BY <2>1 DEF Turns
  <2>3. \A d \in 0..(m + 1) : h[d] \in S
    BY <2>1
  <2>4. ASSUME NEW d \in 0..(m + 1)
        PROVE  h[d] = IF d = 0 THEN b ELSE f[h[d - 1]]
    <3>1. CASE d = m + 1
      <4>1. d # 0 /\ d - 1 = m /\ m \in 0..(m + 1) /\ m # m + 1
        BY <3>1
      <4>2. h[d - 1] = g[m]
        BY <4>1
      <4> QED BY <3>1, <4>1, <4>2
    <3>2. CASE d # m + 1
      <4>1. d \in 0..m /\ h[d] = g[d]
        BY <3>2
      <4>2. d # 0 => h[d - 1] = g[d - 1]
        BY <3>2
      <4> QED BY <2>2, <4>1, <4>2
    <3> QED BY <3>1, <3>2
  <2>5. h = Turns(f, b, m + 1, h)
    BY <2>4 DEF Turns
  <2> QED BY <2>3, <2>5
<1> HIDE DEF G
<1>3. \A d \in 0..n : d \in G
  BY <1>1, <1>2, Climb
<1> QED BY <1>3 DEF G

-----------------------------------------------------------------------------
(* The subtrees get smaller.                                               *)

LEMMA SubFinite ==
  ASSUME NEW t, NEW sub, Shape(t, sub), NEW x \in DOMAIN t.node
  PROVE  /\ IsFiniteSet(sub[x]) /\ Cardinality(sub[x]) \in Nat
         /\ Cardinality(sub[x]) <= Cardinality(Keys)
         /\ Cardinality(Keys) \in Nat
         /\ Cardinality(sub[x]) = 0 <=> x = nil
<1>1. sub[x] \subseteq Keys
  BY DEF Shape
<1>2. IsFiniteSet(Keys)
  BY KeysAssumption
<1>3. /\ IsFiniteSet(sub[x]) /\ Cardinality(sub[x]) <= Cardinality(Keys)
  BY <1>1, <1>2, FS_Subset
<1>4. Cardinality(sub[x]) \in Nat /\ Cardinality(Keys) \in Nat
  BY <1>2, <1>3, FS_CardinalityType
<1>5. Cardinality(sub[x]) = 0 <=> sub[x] = {}
  BY <1>3, FS_EmptySet
<1>6. sub[x] = {} <=> x = nil
  <2>1. CASE x = nil
    BY <2>1 DEF Shape
  <2>2. CASE x # nil
    <3>1. x \in Nodes(t)
      BY <2>2 DEF Nodes
    <3> QED BY <2>2, <3>1 DEF Shape
  <2> QED BY <2>1, <2>2
<1> QED BY <1>3, <1>4, <1>5, <1>6

LEMMA SmallerThan ==
  ASSUME NEW S, IsFiniteSet(S), NEW T, T \subseteq S, NEW y \in S, y \notin T
  PROVE  Cardinality(T) \in Nat /\ Cardinality(S) \in Nat
           /\ Cardinality(T) < Cardinality(S)
<1>1. /\ IsFiniteSet(T) /\ Cardinality(T) <= Cardinality(S)
      /\ Cardinality(S) = Cardinality(T) => S = T
  BY FS_Subset
<1>2. Cardinality(T) \in Nat /\ Cardinality(S) \in Nat
  BY <1>1, FS_CardinalityType
<1> QED BY <1>1, <1>2

LEMMA Smaller ==
  ASSUME NEW t, NEW sub, Shape(t, sub), NEW x \in Nodes(t), NEW s \in Sides
  PROVE  Cardinality(sub[t.node[x][s]]) < Cardinality(sub[x])
<1>1. sub[t.node[x][s]] \subseteq sub[x] /\ x \notin sub[t.node[x][s]]
  BY ChildIs
<1>2. x \in sub[x] /\ x \in DOMAIN t.node
  BY NodesNumbered DEF Shape
<1> QED BY <1>1, <1>2, SubFinite, SmallerThan

(* What is below a node below x is below x.                                *)
LEMMA BelowBelow ==
  ASSUME NEW t, NEW sub, Shape(t, sub), NEW x \in Nodes(t), NEW z \in sub[x]
  PROVE  \A y \in sub[z] : y \in sub[x]
<1> DEFINE Bad == {y \in Nodes(t) : \E w \in sub[y] : ~(sub[w] \subseteq sub[y])}
           B == {Cardinality(sub[y]) : y \in Bad}
<1> SUFFICES ASSUME Bad # {} PROVE FALSE
  OBVIOUS
<1>1. B \in SUBSET Nat /\ B # {}
  BY SubFinite, NodesNumbered
<1>2. PICK m \in B : \A k \in B : m <= k
  BY <1>1, LeastOf
<1>3. PICK y \in Bad : m = Cardinality(sub[y])
  OBVIOUS
<1>4. PICK w \in sub[y] : ~(sub[w] \subseteq sub[y])
  OBVIOUS
<1>5. w # y /\ w \in Nodes(t)
  BY <1>4, NodesNumbered DEF Shape
<1>6. PICK s \in Sides : w \in sub[t.node[y][s]]
  BY <1>4, <1>5 DEF Shape
<1> DEFINE c == t.node[y][s]
<1>7. c \in Nodes(t) /\ c \in DOMAIN t.node
  <2>1. c # nil
    BY <1>5, <1>6 DEF Shape
  <2> QED BY <2>1, ChildIs
<1>8. sub[c] \subseteq sub[y] /\ Cardinality(sub[c]) < Cardinality(sub[y])
  BY ChildIs, Smaller
<1>9. c \in Bad
  BY <1>4, <1>6, <1>7, <1>8
<1>10. Cardinality(sub[c]) \in B /\ Cardinality(sub[c]) \in Nat /\ m \in Nat
  BY <1>1, <1>7, <1>9, SubFinite
<1> QED BY <1>2, <1>3, <1>8, <1>10

(* What is not at or below x lies on one side of all that is.              *)
LEMMA Apart ==
  ASSUME NEW t, NEW sub, Shape(t, sub), NEW x \in Nodes(t), NEW z \in Nodes(t),
         z \notin sub[x]
  PROVE  (\A y \in sub[x] : z < y) \/ (\A y \in sub[x] : y < z)
<1> DEFINE Fine(y) == (\A w \in sub[y] : z < w) \/ (\A w \in sub[y] : w < z)
           Bad == {y \in Nodes(t) : z \notin sub[y] /\ ~Fine(y)}
           n == Cardinality(Keys)
           B == {n - Cardinality(sub[y]) : y \in Bad}
<1> SUFFICES ASSUME Bad # {} PROVE FALSE
  OBVIOUS
<1>1. B \in SUBSET Nat /\ B # {}
  BY SubFinite, NodesNumbered
<1>2. PICK m \in B : \A k \in B : m <= k
  BY <1>1, LeastOf
<1>3. PICK y \in Bad : m = n - Cardinality(sub[y])
  OBVIOUS
<1>4. y # t.root
  BY DEF Shape
<1> DEFINE up == t.node[y].parent
           s == SideOf(t, y, up)
<1>5. up \in Nodes(t) /\ s \in Sides /\ t.node[up][s] = y
  BY <1>4, ParentIs, NodesNumbered
<1>6. Cardinality(sub[y]) < Cardinality(sub[up]) /\ sub[y] \subseteq sub[up]
  BY <1>5, Smaller, ChildIs
<1>7. up \notin Bad
  <2>1. CASE up \in Bad
    <3>1. n - Cardinality(sub[up]) \in B /\ n \in Nat
            /\ Cardinality(sub[up]) \in Nat /\ Cardinality(sub[y]) \in Nat
      BY <1>5, <2>1, SubFinite, NodesNumbered
    <3>2. m <= n - Cardinality(sub[up])
      BY <1>2, <3>1
    <3> HIDE DEF up, n
    <3> QED BY <1>3, <1>6, <3>1, <3>2
  <2> QED BY <2>1
<1>8. z \in sub[up]
  BY <1>3, <1>5, <1>6, <1>7
<1>9. \A w \in sub[y] : w \in Nat /\ Beyond(s, up, w)
  BY <1>5, ChildIs, NodesNumbered
<1>10. z = up \/ z \in sub[t.node[up][Opposite(s)]]
  <2>1. z = up \/ \E g \in Sides : z \in sub[t.node[up][g]]
    <3> HIDE DEF up, s
    <3> QED BY <1>5, <1>8 DEF Shape
  <2>2. z \notin sub[t.node[up][s]]
    BY <1>3, <1>5
  <2> HIDE DEF up, s
  <2> QED BY <1>5, <2>1, <2>2, SidesAre
<1>11. z = up \/ Beyond(Opposite(s), up, z)
  BY <1>5, <1>10, ChildIs, SidesAre
<1>12. z \in Nat /\ up \in Nat
  BY <1>5, NodesNumbered
<1> HIDE DEF up, s
<1>13. CASE s = "left"
  BY <1>3, <1>9, <1>11, <1>12, <1>13 DEF Beyond, Opposite
<1>14. CASE s = "right"
  BY <1>3, <1>9, <1>11, <1>12, <1>14 DEF Beyond, Opposite
<1> QED BY <1>5, <1>13, <1>14 DEF Sides

-----------------------------------------------------------------------------
(* tmap_get_node() finds the key, or where it belongs.                     *)

Toward(x, k) == IF k > x THEN "right" ELSE "left"

(* The turns of tmap_get_node(), named.                                    *)
Descending(k, at) ==
  [d \in Steps |->
     IF d = 0 THEN [node |-> tree.root, parent |-> nil]
     ELSE LET x == at[d - 1].node
          IN  IF x \in {nil, k} THEN at[d - 1]
              ELSE [node |-> Link(x, IF k > x THEN "right" ELSE "left"),
                    parent |-> x]]

LEMMA DescendingIs ==
  ASSUME NEW k
  PROVE  \E at : at = (CHOOSE g : g = Descending(k, g))
                 /\ Descent(k) = at[Cardinality(Keys)]
BY DEF Descent, Descending

LEMMA KeysCounted == Cardinality(Keys) \in Nat /\ Steps = 0..Cardinality(Keys)
BY KeysAssumption, FS_CardinalityType DEF Steps

DescendedBy(k, at) ==
  /\ Descent(k) = at[Cardinality(Keys)]
  /\ at[0].node = tree.root /\ at[0].parent = nil
  /\ \A d \in Nat : d < Cardinality(Keys) =>
       IF at[d].node \in {nil, k} THEN at[d + 1] = at[d]
       ELSE /\ at[d + 1].node = tree.node[at[d].node][Toward(at[d].node, k)]
            /\ at[d + 1].parent = at[d].node

LEMMA Descended ==
  ASSUME NEW sub, Shape(tree, sub), NEW k \in Nat
  PROVE  \E at : DescendedBy(k, at)
<1> DEFINE n == Cardinality(Keys)
           D == DOMAIN tree.node
           S == [node : D, parent : D]
           b == [node |-> tree.root, parent |-> nil]
           f == [w \in S |-> IF w.node \in {nil, k} THEN w
                   ELSE [node |-> Link(w.node, Toward(w.node, k)), parent |-> w.node]]
<1>1. n \in Nat /\ Steps = 0..n
  BY KeysCounted
<1>2. b \in S
  BY DEF Shape
<1>3. f \in [S -> S]
  <2>1. ASSUME NEW w \in S, w.node \notin {nil, k}
        PROVE  Link(w.node, Toward(w.node, k)) \in D /\ w.node \in D
    <3>1. w.node \in Nodes(tree)
      BY <2>1 DEF Nodes
    <3> QED BY <3>1, ChildIs DEF Link, Toward, Sides
  <2> QED BY <2>1
<1>4. PICK h : h = Turns(f, b, n, h) /\ \A d \in 0..n : h[d] \in S
  <2> HIDE DEF S, f, b, n
  <2> QED BY <1>1, <1>2, <1>3, Iterated
<1>5. h = Descending(k, h)
  <2>1. ASSUME NEW d \in 0..n
        PROVE  (IF d = 0 THEN b ELSE f[h[d - 1]]) =
               IF d = 0 THEN [node |-> tree.root, parent |-> nil]
               ELSE LET x == h[d - 1].node
                    IN  IF x \in {nil, k} THEN h[d - 1]
                        ELSE [node |-> Link(x, IF k > x THEN "right" ELSE "left"),
                              parent |-> x]
    <3>1. d # 0 => h[d - 1] \in S
      BY <1>1, <1>4
    <3> QED BY <3>1 DEF Toward
  <2>2. Turns(f, b, n, h) = Descending(k, h)
    BY <1>1, <2>1 DEF Turns, Descending
  <2> QED BY <1>4, <2>2
<1>6. PICK at : at = (CHOOSE g : g = Descending(k, g)) /\ Descent(k) = at[n]
  BY DescendingIs
<1>7. at = Descending(k, at)
  BY <1>5, <1>6
<1> HIDE DEF n, S, b, f
<1>8. at[0].node = tree.root /\ at[0].parent = nil
  <2>1. 0 \in Steps
    BY <1>1
  <2>2. at[0] = [node |-> tree.root, parent |-> nil]
    BY <1>7, <2>1 DEF Descending
  <2> QED BY <2>2
<1>9. ASSUME NEW d \in Nat, d < n
      PROVE  IF at[d].node \in {nil, k} THEN at[d + 1] = at[d]
             ELSE /\ at[d + 1].node = tree.node[at[d].node][Toward(at[d].node, k)]
                  /\ at[d + 1].parent = at[d].node
  <2>1. d + 1 \in Steps /\ d + 1 # 0 /\ (d + 1) - 1 = d
    BY <1>1, <1>9
  <2>2. at[d + 1] = IF at[d].node \in {nil, k} THEN at[d]
                    ELSE [node |-> Link(at[d].node, Toward(at[d].node, k)),
                          parent |-> at[d].node]
    BY <1>7, <2>1 DEF Descending, Toward
  <2> QED BY <2>2 DEF Link
<1>10. DescendedBy(k, at)
  BY <1>6, <1>8, <1>9 DEF n, DescendedBy
<1> QED BY <1>10

(* The nodes that a search for k passes.                                   *)
Passed(p, k, path) ==
  /\ path \subseteq Nodes(tree) /\ k \notin path
  /\ tree.root # nil => tree.root \in path
  /\ \A y \in path : y # tree.root =>
       /\ tree.node[y].parent \in path
       /\ y = tree.node[tree.node[y].parent][Toward(tree.node[y].parent, k)]
  /\ \A y \in path : tree.node[y][Toward(y, k)] # nil
                       => tree.node[y][Toward(y, k)] \in path
  /\ \A y \in path : tree.node[y][Toward(y, k)] = nil => y = p
  /\ p # nil => p \in path /\ tree.node[p][Toward(p, k)] = nil
  /\ p = nil => tree.root = nil

LEMMA TowardIs ==
  ASSUME NEW sub, Shape(tree, sub), NEW k \in Nat, NEW x \in Nodes(tree), k # x
  PROVE  /\ Toward(x, k) \in Sides
         /\ Beyond(Toward(x, k), x, k)
         /\ k \in Nodes(tree) => (k \in sub[x] <=> k \in sub[tree.node[x][Toward(x, k)]])
<1>1. x \in Nat
  BY NodesNumbered
<1>2. Toward(x, k) \in Sides /\ Beyond(Toward(x, k), x, k)
  BY <1>1 DEF Toward, Sides, Beyond
<1>3. ~Beyond(Opposite(Toward(x, k)), x, k)
  BY <1>1, <1>2, BeyondIs
<1>4. ASSUME k \in Nodes(tree)
      PROVE  k \in sub[x] <=> k \in sub[tree.node[x][Toward(x, k)]]
  <2>1. k \in sub[x] <=> \E s \in Sides : k \in sub[tree.node[x][s]]
    BY <1>4 DEF Shape
  <2>2. k \notin sub[tree.node[x][Opposite(Toward(x, k))]]
    BY <1>2, <1>3, <1>4, SidesAre DEF Shape
  <2> QED BY <1>2, <2>1, <2>2, SidesAre
<1> QED BY <1>2, <1>4

(* tmap_get() finds the keys there are, and only those; otherwise the      *)
(* search ends below the last node it passes.                              *)
LEMMA DescentFinds ==
  ASSUME NEW sub, Shape(tree, sub), NEW k \in Nat \ {nil}
  PROVE  /\ k \in Nodes(tree) => Descent(k).node = k
         /\ k \notin Nodes(tree) =>
              /\ Descent(k).node = nil
              /\ \E path : Passed(Descent(k).parent, k, path)
<1> DEFINE n == Cardinality(Keys)
<1>0. PICK at : DescendedBy(k, at)
  BY Descended
<1>1.   /\ Descent(k) = at[n]
        /\ at[0].node = tree.root /\ at[0].parent = nil
        /\ \A d \in Nat : d < n =>
                IF at[d].node \in {nil, k} THEN at[d + 1] = at[d]
                ELSE /\ at[d + 1].node = tree.node[at[d].node][Toward(at[d].node, k)]
                     /\ at[d + 1].parent = at[d].node
  BY <1>0 DEF DescendedBy
<1>2. n \in Nat
  BY KeysCounted
<1> DEFINE x(d) == at[d].node
           Small(d) == Cardinality(sub[x(d)]) + d <= n
<1>3. \A d \in 0..n : /\ x(d) \in DOMAIN tree.node
                      /\ k \in Nodes(tree) => k \in sub[x(d)]
                      /\ x(d) \in {nil, k} \/ Small(d)
  <2> DEFINE S == {d \in Nat : /\ x(d) \in DOMAIN tree.node
                               /\ k \in Nodes(tree) => k \in sub[x(d)]
                               /\ x(d) \in {nil, k} \/ Small(d)}
  <2>1. 0 \in S
    <3>1. tree.root \in DOMAIN tree.node
            /\ (k \in Nodes(tree) => k \in sub[tree.root])
      BY DEF Shape
    <3>2. Cardinality(sub[tree.root]) \in Nat
            /\ Cardinality(sub[tree.root]) <= n
      BY <3>1, SubFinite
    <3> QED BY <1>1, <3>1, <3>2
  <2>2. ASSUME NEW d \in Nat, d \in S, d < n
        PROVE  d + 1 \in S
    <3>1. CASE x(d) \in {nil, k}
      <4>1. at[d + 1] = at[d]
        BY <1>1, <2>2, <3>1
      <4> QED BY <2>2, <3>1, <4>1
    <3>2. CASE x(d) \notin {nil, k}
      <4>1. x(d) \in Nodes(tree)
        BY <2>2, <3>2 DEF Nodes
      <4>2. x(d + 1) = tree.node[x(d)][Toward(x(d), k)]
        BY <1>1, <2>2, <3>2
      <4>3. Toward(x(d), k) \in Sides
        BY <3>2, <4>1, TowardIs
      <4>4. x(d + 1) \in DOMAIN tree.node
        BY <4>1, <4>2, <4>3, ChildIs
      <4>5. k \in Nodes(tree) => k \in sub[x(d + 1)]
        BY <2>2, <3>2, <4>1, <4>2, TowardIs
      <4>6. Cardinality(sub[x(d + 1)]) < Cardinality(sub[x(d)])
        BY <4>1, <4>2, <4>3, Smaller
      <4>7. Cardinality(sub[x(d + 1)]) \in Nat /\ Cardinality(sub[x(d)]) \in Nat
        BY <2>2, <4>4, SubFinite
      <4>8. Small(d)
        BY <2>2, <3>2
      <4>9. Small(d + 1)
        <5> HIDE DEF x
        <5> QED BY <1>2, <4>6, <4>7, <4>8
      <4> QED BY <4>4, <4>5, <4>9
    <3> QED BY <3>1, <3>2
  <2> HIDE DEF S
  <2>3. \A d \in 0..n : d \in S
    BY <1>2, <2>1, <2>2, Climb
  <2> QED BY <2>3 DEF S
<1>4. x(n) \in {nil, k}
  <2>1. x(n) \in DOMAIN tree.node /\ (x(n) \in {nil, k} \/ Small(n))
    BY <1>2, <1>3
  <2>2. Cardinality(sub[x(n)]) \in Nat /\ (Cardinality(sub[x(n)]) = 0 <=> x(n) = nil)
    BY <2>1, SubFinite
  <2> HIDE DEF x
  <2> QED BY <1>2, <2>1, <2>2
<1>5. ASSUME k \in Nodes(tree)
      PROVE  Descent(k).node = k
  <2>1. k \in sub[x(n)]
    BY <1>2, <1>3, <1>5
  <2>2. x(n) # nil
    BY <1>5, <2>1 DEF Shape
  <2> QED BY <1>1, <1>4, <2>2
<1>6. ASSUME k \notin Nodes(tree)
      PROVE  /\ Descent(k).node = nil
             /\ \E path : Passed(Descent(k).parent, k, path)
  <2>1. \A d \in 0..n : x(d) # k
    BY <1>3, <1>6 DEF Nodes
  <2>2. Descent(k).node = nil
    BY <1>1, <1>2, <1>4, <2>1
  <2> DEFINE path == {x(d) : d \in 0..n} \ {nil}
             p == Descent(k).parent
  <2>3. ASSUME NEW d \in 0..n, x(d) # nil
        PROVE  /\ d < n /\ d + 1 \in 0..n /\ x(d) \in path
                    /\ x(d) \in Nodes(tree)
               /\ x(d + 1) = tree.node[x(d)][Toward(x(d), k)]
               /\ at[d + 1].parent = x(d)
               /\ Toward(x(d), k) \in Sides
    <3>1. d # n
      BY <1>1, <2>2, <2>3
    <3>2. d < n /\ d + 1 \in 0..n /\ d \in Nat
      BY <1>2, <3>1
    <3>3. x(d) \in Nodes(tree) /\ x(d) # k
      BY <1>3, <2>1, <2>3 DEF Nodes
    <3>4. Toward(x(d), k) \in Sides
      BY <3>3, TowardIs
    <3> QED BY <1>1, <2>1, <2>3, <3>2, <3>3, <3>4
  <2> HIDE DEF n, path
  <2>4. \A d \in 0..n : \/ x(d) = tree.root /\ at[d].parent = nil
                        \/ /\ at[d].parent \in path
                           /\ x(d) = tree.node[at[d].parent][Toward(at[d].parent, k)]
    <3> DEFINE Q(d) == \/ x(d) = tree.root /\ at[d].parent = nil
                       \/ /\ at[d].parent \in path
                          /\ x(d) = tree.node[at[d].parent][Toward(at[d].parent, k)]
               S == {d \in Nat : Q(d)}
    <3>1. 0 \in S
      BY <1>1
    <3>2. ASSUME NEW d \in Nat, d \in S, d < n
          PROVE  d + 1 \in S
      <4>1. d \in 0..n
        BY <1>2, <3>2
      <4>2. CASE x(d) = nil
        BY <1>1, <3>2, <4>2
      <4>3. CASE x(d) # nil
        BY <2>3, <4>1, <4>3
      <4> QED BY <4>2, <4>3
    <3> HIDE DEF S
    <3>3. \A d \in 0..n : d \in S
      BY <1>2, <3>1, <3>2, Climb
    <3> QED BY <3>3 DEF S
  <2>5. \A y \in path : y \in Nodes(tree) /\ y # k /\ y # nil
          /\ \E d \in 0..n : y = x(d)
    BY <2>1, <2>3 DEF path
  <2>6. tree.root # nil => tree.root \in path
    <3>1. 0 \in 0..n /\ x(0) = tree.root
      BY <1>1, <1>2
    <3> QED BY <2>3, <3>1
  <2>7. ASSUME NEW y \in path, y # tree.root
        PROVE  /\ tree.node[y].parent \in path
               /\ y = tree.node[tree.node[y].parent][Toward(tree.node[y].parent, k)]
    <3>1. PICK d \in 0..n : y = x(d)
      BY <2>5
    <3> DEFINE q == at[d].parent
    <3>2. q \in path /\ y = tree.node[q][Toward(q, k)]
      BY <2>4, <2>7, <3>1
    <3>3. q \in Nodes(tree) /\ Toward(q, k) \in Sides
      BY <2>5, <3>2, TowardIs
    <3>4. tree.node[y].parent = q
      BY <2>5, <3>2, <3>3, ChildIs
    <3> QED BY <3>2, <3>4
  <2>8. ASSUME NEW y \in path, tree.node[y][Toward(y, k)] # nil
        PROVE  tree.node[y][Toward(y, k)] \in path
    <3>1. PICK d \in 0..n : y = x(d)
      BY <2>5
    <3> QED BY <2>3, <2>5, <2>8, <3>1
  <2>9. ASSUME NEW y \in path, tree.node[y][Toward(y, k)] = nil
        PROVE  y = p
    <3>1. PICK d \in 0..n : y = x(d)
      BY <2>5
    <3>2. d < n /\ d + 1 \in 0..n /\ x(d + 1) = nil /\ at[d + 1].parent = y
      BY <2>3, <2>5, <2>9, <3>1
    <3> DEFINE S == {e \in Nat : e < d + 1 \/ at[e] = at[d + 1]}
    <3>3. 0 \in S
      BY <3>1
    <3>4. ASSUME NEW e \in Nat, e \in S, e < n
          PROVE  e + 1 \in S
      <4>1. CASE e < d
        BY <4>1, <1>2
      <4>2. CASE e = d
        BY <4>2
      <4>3. CASE d < e
        <5>1. at[e] = at[d + 1]
          BY <3>4, <4>3
        <5>2. at[e + 1] = at[e]
          BY <1>1, <3>2, <3>4, <5>1
        <5> QED BY <5>1, <5>2
      <4> QED BY <4>1, <4>2, <4>3
    <3> HIDE DEF S
    <3>5. \A e \in 0..n : e \in S
      BY <1>2, <3>3, <3>4, Climb
    <3>6. at[n] = at[d + 1]
      BY <1>2, <3>2, <3>5 DEF S
    <3> QED BY <1>1, <3>2, <3>6
  <2>10. n \in 0..n /\ x(n) = nil /\ p = at[n].parent
    BY <1>1, <1>2, <2>2
  <2>11. p # nil => p \in path /\ tree.node[p][Toward(p, k)] = nil
    BY <2>4, <2>10
  <2>12. p = nil => tree.root = nil
    BY <2>4, <2>5, <2>10
  <2>13. Passed(p, k, path)
    <3>1. path \subseteq Nodes(tree) /\ k \notin path
      BY <2>5
    <3> HIDE DEF p
    <3> QED BY <2>6, <2>7, <2>8, <2>9, <2>11, <2>12, <3>1 DEF Passed
  <2> QED BY <2>2, <2>13
<1> QED BY <1>5, <1>6

-----------------------------------------------------------------------------
(* Iterators: the outermost node, and the next.                            *)

(* The turns along the links of one side, named.                           *)
Outgoing(x, s, at) ==
  [d \in Steps |->
     IF d = 0 \/ x = nil THEN x
     ELSE IF Link(at[d - 1], s) = nil THEN at[d - 1] ELSE Link(at[d - 1], s)]

LEMMA OutermostBy ==
  ASSUME NEW x, NEW s
  PROVE  \E at : at = (CHOOSE g : g = Outgoing(x, s, g))
                 /\ Outermost(x, s) = at[Cardinality(Keys)]
BY DEF Outermost, Outgoing

FollowedBy(x, s, at) ==
  /\ Outermost(x, s) = at[Cardinality(Keys)]
  /\ at[0] = x
  /\ \A d \in Nat : d < Cardinality(Keys) =>
       at[d + 1] = IF tree.node[at[d]][s] = nil THEN at[d] ELSE tree.node[at[d]][s]

LEMMA Followed ==
  ASSUME NEW sub, Shape(tree, sub), NEW x \in DOMAIN tree.node, NEW s \in Sides
  PROVE  \E at : FollowedBy(x, s, at)
<1> DEFINE n == Cardinality(Keys)
           S == DOMAIN tree.node
           f == [w \in S |-> IF tree.node[w][s] = nil THEN w ELSE tree.node[w][s]]
<1>1. n \in Nat /\ Steps = 0..n
  BY KeysCounted
<1>2. \A g \in Sides : nil \in S /\ tree.node[nil][g] = nil
  BY DEF Shape, Nil, Fresh, Sides
<1>3. f \in [S -> S]
  <2>1. ASSUME NEW w \in S
        PROVE  tree.node[w][s] \in S
    <3>1. CASE w = nil
      BY <1>2, <3>1
    <3>2. CASE w # nil
      BY <3>2 DEF Shape, Nodes
    <3> QED BY <3>1, <3>2
  <2> QED BY <2>1
<1>4. PICK h : h = Turns(f, x, n, h) /\ \A d \in 0..n : h[d] \in S
  <2> HIDE DEF S, f, n
  <2> QED BY <1>1, <1>3, Iterated DEF S
<1>5. h = Outgoing(x, s, h)
  <2>1. ASSUME NEW d \in 0..n
        PROVE  (IF d = 0 THEN x ELSE f[h[d - 1]]) =
               IF d = 0 \/ x = nil THEN x
               ELSE IF Link(h[d - 1], s) = nil THEN h[d - 1] ELSE Link(h[d - 1], s)
    <3>1. CASE d = 0
      BY <3>1
    <3>2. CASE d # 0 /\ x # nil
      <4>1. h[d - 1] \in S
        BY <1>1, <1>4, <3>2
      <4> QED BY <3>2, <4>1 DEF Link
    <3>3. CASE d # 0 /\ x = nil
      <4> DEFINE N == {e \in Nat : h[e] = nil}
      <4> HIDE DEF S, n
      <4>1. \A e \in 0..n : h[e] = IF e = 0 THEN x ELSE f[h[e - 1]]
        BY <1>4 DEF Turns
      <4>2. 0 \in N
        <5>1. 0 \in 0..n
          BY <1>1
        <5>2. h[0] = x
          BY <4>1, <5>1
        <5> QED BY <3>3, <5>2
      <4>3. ASSUME NEW e \in Nat, e \in N, e < n
            PROVE  e + 1 \in N
        <5>1. h[e + 1] = f[nil]
          BY <1>1, <4>1, <4>3
        <5> QED BY <1>2, <5>1
      <4> HIDE DEF N
      <4>4. \A e \in 0..n : e \in N
        BY <1>1, <4>2, <4>3, Climb
      <4>5. h[d] = nil /\ h[d] = f[h[d - 1]]
        BY <3>3, <4>1, <4>4 DEF N
      <4> QED BY <3>3, <4>5
    <3> QED BY <3>1, <3>2, <3>3
  <2>2. Turns(f, x, n, h) = Outgoing(x, s, h)
    BY <1>1, <2>1 DEF Turns, Outgoing
  <2> QED BY <1>4, <2>2
<1>6. PICK at : at = (CHOOSE g : g = Outgoing(x, s, g))
             /\ Outermost(x, s) = at[n]
  BY OutermostBy
<1>7. at = Outgoing(x, s, at)
  BY <1>5, <1>6
<1> HIDE DEF n, S, f
<1>8. at[0] = x
  <2>1. 0 \in Steps
    BY <1>1
  <2> QED BY <1>7, <2>1 DEF Outgoing
<1>9. ASSUME NEW d \in Nat, d < n, x # nil
      PROVE  at[d + 1] = IF tree.node[at[d]][s] = nil THEN at[d] ELSE tree.node[at[d]][s]
  <2>1. d + 1 \in Steps /\ d + 1 # 0 /\ (d + 1) - 1 = d
    BY <1>1, <1>9
  <2> QED BY <1>7, <1>9, <2>1 DEF Outgoing, Link
<1>10. ASSUME x = nil
       PROVE  \A d \in 0..n : at[d] = nil
  BY <1>1, <1>7, <1>10 DEF Outgoing
<1>11. ASSUME NEW d \in Nat, d < n
       PROVE  at[d + 1] = IF tree.node[at[d]][s] = nil THEN at[d] ELSE tree.node[at[d]][s]
  <2>1. CASE x = nil
    <3>1. at[d] = nil /\ at[d + 1] = nil
      BY <1>1, <1>10, <1>11, <2>1
    <3> QED BY <1>2, <3>1
  <2> QED BY <1>9, <1>11, <2>1
<1>12. FollowedBy(x, s, at)
  BY <1>6, <1>8, <1>11 DEF n, FollowedBy
<1> QED BY <1>12

(* The outermost is below, and none is further out.                        *)
LEMMA OutermostIs ==
  ASSUME NEW sub, Shape(tree, sub), NEW x \in Nodes(tree), NEW s \in Sides
  PROVE  LET y == Outermost(x, s)
         IN  /\ y \in Nodes(tree) /\ y \in sub[x] /\ tree.node[y][s] = nil
             /\ \A z \in sub[x] : z = y \/ Beyond(s, z, y)
<1> DEFINE n == Cardinality(Keys)
<1>0. x \in DOMAIN tree.node
  BY NodesNumbered
<1>1. PICK at : FollowedBy(x, s, at)
  BY <1>0, Followed
<1>2. n \in Nat
  BY KeysCounted
<1> DEFINE Q(d) == /\ at[d] \in Nodes(tree) /\ at[d] \in sub[x]
                   /\ \A z \in sub[x] : z \in sub[at[d]] \/ Beyond(s, z, at[d])
                   /\ tree.node[at[d]][s] = nil
                        \/ Cardinality(sub[at[d]]) + d <= n
           S == {d \in Nat : Q(d)}
<1>3. 0 \in S
  <2>1. at[0] = x /\ x \in sub[x] /\ Cardinality(sub[x]) \in Nat
          /\ Cardinality(sub[x]) <= n
    BY <1>0, <1>1, SubFinite DEF FollowedBy, Shape
  <2> QED BY <2>1
<1>4. ASSUME NEW d \in Nat, d \in S, d < n
      PROVE  d + 1 \in S
  <2>1. at[d + 1] = IF tree.node[at[d]][s] = nil THEN at[d] ELSE tree.node[at[d]][s]
    BY <1>1, <1>4 DEF FollowedBy
  <2>2. CASE tree.node[at[d]][s] = nil
    BY <1>4, <2>1, <2>2
  <2>3. CASE tree.node[at[d]][s] # nil
    <3> DEFINE y == at[d]
               c == tree.node[y][s]
    <3>1. y \in Nodes(tree) /\ at[d + 1] = c /\ c # nil /\ y \in sub[x]
      BY <1>4, <2>1, <2>3
    <3>2. c \in Nodes(tree) /\ c \in DOMAIN tree.node /\ c \in sub[c]
      BY <3>1, ChildIs
    <3>3. c \in sub[x]
      BY <3>1, <3>2, BelowBelow, ChildIs
    <3>4. ASSUME NEW z \in sub[x]
          PROVE  z \in sub[c] \/ Beyond(s, z, c)
      <4>1. z \in Nodes(tree) /\ z \in Nat /\ y \in Nat /\ c \in Nat
        BY <1>0, <3>1, <3>2, NodesNumbered DEF Shape
      <4>2. Beyond(s, y, c)
        BY <3>1, <3>2, ChildIs
      <4>3. CASE Beyond(s, z, y)
        BY <4>1, <4>2, <4>3, BeyondIs
      <4>4. CASE z \in sub[y]
        <5>1. z = y \/ z \in sub[c] \/ z \in sub[tree.node[y][Opposite(s)]]
          BY <3>1, <4>1, <4>4, SidesAre DEF Shape
        <5>2. z \in sub[tree.node[y][Opposite(s)]] => Beyond(Opposite(s), y, z)
          BY <3>1, <4>1, SidesAre DEF Shape
        <5> QED BY <4>1, <4>2, <5>1, <5>2, BeyondIs, SidesAre
      <4> QED BY <1>4, <4>3, <4>4
    <3>5. Cardinality(sub[c]) + (d + 1) <= n
      <4>1. Cardinality(sub[c]) < Cardinality(sub[y])
              /\ Cardinality(sub[c]) \in Nat
        BY <3>1, <3>2, Smaller, SubFinite
      <4>2. Cardinality(sub[y]) \in Nat /\ Cardinality(sub[y]) + d <= n
        BY <1>4, <2>3, <3>1, SubFinite, NodesNumbered
      <4> HIDE DEF c, y, n
      <4> QED BY <1>2, <4>1, <4>2
    <3> QED BY <3>1, <3>2, <3>3, <3>4, <3>5
  <2> QED BY <2>2, <2>3
<1> HIDE DEF S
<1>5. \A d \in 0..n : d \in S
  BY <1>2, <1>3, <1>4, Climb
<1>6. Q(n)
  BY <1>2, <1>5 DEF S
<1>7. tree.node[at[n]][s] = nil
  <2>1. /\ at[n] \in Nodes(tree)
        /\ tree.node[at[n]][s] = nil \/ Cardinality(sub[at[n]]) + n <= n
    BY <1>6
  <2>2. Cardinality(sub[at[n]]) \in Nat /\ Cardinality(sub[at[n]]) # 0
    BY <2>1, SubFinite, NodesNumbered
  <2> QED BY <1>2, <2>1, <2>2
<1>8. \A z \in sub[x] : z = at[n] \/ Beyond(s, z, at[n])
  <2>1. ASSUME NEW z \in sub[x], z \in sub[at[n]], z # at[n]
        PROVE  Beyond(s, z, at[n])
    <3>1. z \in Nodes(tree) /\ z \in Nat /\ at[n] \in Nat
      BY <1>0, <1>6, NodesNumbered DEF Shape
    <3>2. z \in sub[tree.node[at[n]][s]]
            \/ z \in sub[tree.node[at[n]][Opposite(s)]]
      BY <1>6, <2>1, <3>1, SidesAre DEF Shape
    <3>3. z \notin sub[nil]
      BY <3>1 DEF Shape
    <3>4. Beyond(Opposite(s), at[n], z)
      BY <1>6, <1>7, <3>1, <3>2, <3>3, SidesAre DEF Shape
    <3> QED BY <3>1, <3>4, BeyondIs, SidesAre
  <2> QED BY <1>6, <2>1
<1>9. Outermost(x, s) = at[n]
  BY <1>1 DEF FollowedBy
<1> QED BY <1>6, <1>7, <1>8, <1>9

LEMMA OutermostOfNil ==
  ASSUME NEW s
  PROVE  Outermost(nil, s) = nil
<1> DEFINE h == [d \in Steps |-> nil]
<1>1. h = Outgoing(nil, s, h)
  BY DEF Outgoing
<1>2. PICK at : at = (CHOOSE g : g = Outgoing(nil, s, g))
                /\ Outermost(nil, s) = at[Cardinality(Keys)]
  BY OutermostBy
<1>3. at = Outgoing(nil, s, at)
  BY <1>1, <1>2
<1>4. Cardinality(Keys) \in Steps
  BY KeysCounted
<1> QED BY <1>2, <1>3, <1>4 DEF Outgoing

(* The turns upwards of an iterator, named.                                *)
Rising(x, at) ==
  [d \in Steps |->
     IF d = 0 THEN x
     ELSE IF at[d - 1] = Link(Up(at[d - 1]), "right") THEN Up(at[d - 1])
     ELSE at[d - 1]]

LEMMA RisingBy ==
  ASSUME NEW x, tree.node[x].right = nil
  PROVE  \E at : at = (CHOOSE g : g = Rising(x, g))
                 /\ successor(x) = Up(at[Cardinality(Keys)])
<1>1. ~(Link(x, "right") # nil)
  BY DEF Link
<1> QED BY <1>1 DEF successor, Rising

RisenBy(x, at) ==
  /\ successor(x) = Up(at[Cardinality(Keys)])
  /\ at[0] = x
  /\ \A d \in Nat : d < Cardinality(Keys) =>
       at[d + 1] = IF at[d] = tree.node[Up(at[d])].right THEN Up(at[d]) ELSE at[d]

LEMMA UpWithin ==
  ASSUME NEW sub, Shape(tree, sub), NEW x \in DOMAIN tree.node
  PROVE  Up(x) \in DOMAIN tree.node /\ (x = nil => Up(x) = nil)
<1>1. CASE x = nil
  BY <1>1 DEF Shape, Nil, Fresh, Up
<1>2. CASE x # nil
  <2>1. x \in Nodes(tree)
    BY <1>2 DEF Nodes
  <2> QED BY <1>2, <2>1, ParentIs DEF Up
<1> QED BY <1>1, <1>2

LEMMA Risen ==
  ASSUME NEW sub, Shape(tree, sub), NEW x \in DOMAIN tree.node,
         tree.node[x].right = nil
  PROVE  \E at : RisenBy(x, at)
<1> DEFINE n == Cardinality(Keys)
           S == DOMAIN tree.node
           f == [w \in S |-> IF w = Link(Up(w), "right") THEN Up(w) ELSE w]
<1>1. n \in Nat /\ Steps = 0..n
  BY KeysCounted
<1>3. f \in [S -> S]
  BY UpWithin
<1>4. PICK h : h = Turns(f, x, n, h) /\ \A d \in 0..n : h[d] \in S
  <2> HIDE DEF S, f, n
  <2> QED BY <1>1, <1>3, Iterated DEF S
<1>5. h = Rising(x, h)
  <2>1. ASSUME NEW d \in 0..n
        PROVE  (IF d = 0 THEN x ELSE f[h[d - 1]]) =
               IF d = 0 THEN x
               ELSE IF h[d - 1] = Link(Up(h[d - 1]), "right") THEN Up(h[d - 1])
               ELSE h[d - 1]
    <3>1. d # 0 => h[d - 1] \in S
      BY <1>1, <1>4
    <3> QED BY <3>1
  <2>2. Turns(f, x, n, h) = Rising(x, h)
    BY <1>1, <2>1 DEF Turns, Rising
  <2> QED BY <1>4, <2>2
<1>6. PICK at : at = (CHOOSE g : g = Rising(x, g)) /\ successor(x) = Up(at[n])
  BY RisingBy
<1>7. at = Rising(x, at)
  BY <1>5, <1>6
<1> HIDE DEF n, S, f
<1>8. at[0] = x
  <2>1. 0 \in Steps
    BY <1>1
  <2> QED BY <1>7, <2>1 DEF Rising
<1>9. ASSUME NEW d \in Nat, d < n
      PROVE  at[d + 1] = IF at[d] = tree.node[Up(at[d])].right THEN Up(at[d]) ELSE at[d]
  <2>1. d + 1 \in Steps /\ d + 1 # 0 /\ (d + 1) - 1 = d
    BY <1>1, <1>9
  <2> QED BY <1>7, <1>9, <2>1 DEF Rising, Link
<1>12. RisenBy(x, at)
  BY <1>6, <1>8, <1>9 DEF n, RisenBy
<1> QED BY <1>12

(* The next key, or nil behind the last.                                   *)
LEMMA SuccessorIs ==
  ASSUME NEW sub, Shape(tree, sub), NEW x \in Nodes(tree)
  PROVE  LET y == successor(x)
         IN  \/ /\ y \in Nodes(tree) /\ x < y
                /\ \A z \in Nodes(tree) : x < z => y <= z
             \/ y = nil /\ \A z \in Nodes(tree) : z <= x
<1> DEFINE n == Cardinality(Keys)
           r == tree.node[x].right
<1>0. x \in DOMAIN tree.node /\ x \in Nat /\ \A z \in Nodes(tree) : z \in Nat
  BY NodesNumbered
<1>00. "right" \in Sides /\ "left" \in Sides /\ Opposite("right") = "left"
  BY DEF Sides, Opposite
<1>1. CASE r # nil
  <2> DEFINE y == Outermost(r, "left")
  <2>1. successor(x) = y
    BY <1>1 DEF successor, Link
  <2>2. r \in Nodes(tree) /\ \A z \in sub[r] : z \in Nodes(tree) /\ x < z
    BY <1>00, <1>1, ChildIs DEF Beyond
  <2>3. y \in Nodes(tree) /\ y \in sub[r] /\ \A z \in sub[r] : z = y \/ y < z
    BY <1>00, <2>2, OutermostIs DEF Beyond
  <2>4. ASSUME NEW z \in Nodes(tree), x < z
        PROVE  y <= z
    <3>1. CASE z \in sub[r]
      BY <1>0, <2>3, <3>1
    <3>2. CASE z \notin sub[r]
      <4>1. z \notin sub[tree.node[x].left]
        <5>1. z \in sub[tree.node[x].left] => z < x
          BY <1>00, ChildIs DEF Beyond
        <5> QED BY <1>0, <2>4, <5>1
      <4>2. z \notin sub[x]
        <5>1. z \in sub[x] <=> z = x \/ \E s \in Sides : z \in sub[tree.node[x][s]]
          BY DEF Shape
        <5> QED BY <1>0, <2>4, <3>2, <4>1, <5>1 DEF Sides
      <4>3. x \in sub[x] /\ y \in sub[x]
        BY <1>00, <2>3, ChildIs DEF Shape
      <4>4. y < z
        BY <1>0, <2>3, <2>4, <4>2, <4>3, Apart
      <4> QED BY <1>0, <2>3, <4>4
    <3> QED BY <3>1, <3>2
  <2> QED BY <1>0, <2>1, <2>2, <2>3, <2>4
<1>2. CASE r = nil
  <2>1. PICK at : RisenBy(x, at)
    BY <1>0, <1>2, Risen
  <2>2. n \in Nat
    BY KeysCounted
  <2> DEFINE Top(w) == w # tree.node[Up(w)].right
             Q(d) == /\ at[d] \in Nodes(tree) /\ x \in sub[at[d]]
                     /\ \A z \in sub[at[d]] : z <= x
                     /\ Top(at[d]) \/ d + 1 <= Cardinality(sub[at[d]])
             S == {d \in Nat : Q(d)}
  <2>3. 0 \in S
    <3>1. at[0] = x /\ x \in sub[x]
      BY <2>1 DEF RisenBy, Shape
    <3>2. Cardinality(sub[x]) \in Nat /\ Cardinality(sub[x]) # 0
      BY <1>0, SubFinite, NodesNumbered
    <3>3. ASSUME NEW z \in sub[x]
          PROVE  z <= x
      <4>1. z \in Nodes(tree) /\ z \in Nat
        BY <1>0 DEF Shape
      <4>2. z = x \/ z \in sub[tree.node[x].left] \/ z \in sub[nil]
        BY <1>2, <4>1 DEF Shape, Sides
      <4>3. z \notin sub[nil] /\ (z \in sub[tree.node[x].left] => z < x)
        BY <1>00, <4>1 DEF Shape, Beyond
      <4> QED BY <1>0, <4>1, <4>2, <4>3
    <3> HIDE DEF Top
    <3> QED BY <3>1, <3>2, <3>3
  <2>4. ASSUME NEW d \in Nat, d \in S, d < n
        PROVE  d + 1 \in S
    <3>1. at[d + 1] = IF at[d] = tree.node[Up(at[d])].right THEN Up(at[d]) ELSE at[d]
      BY <2>1, <2>4 DEF RisenBy
    <3>2. CASE Top(at[d])
      BY <2>4, <3>1, <3>2
    <3>3. CASE ~Top(at[d])
      <4> DEFINE y == at[d]
                 u == Up(y)
      <4>1. y \in Nodes(tree) /\ at[d + 1] = u /\ x \in sub[y]
              /\ tree.node[u].right = y
            /\ (\A z \in sub[y] : z <= x) /\ d + 1 <= Cardinality(sub[y])
        BY <2>4, <3>1, <3>3
      <4>2. u # nil
        <5>1. tree.node[nil].right = nil /\ y # nil
          BY <4>1, NodesNumbered DEF Shape, Nil, Fresh
        <5> QED BY <4>1, <5>1
      <4>3. u \in Nodes(tree) /\ u \in DOMAIN tree.node
              /\ y \in DOMAIN tree.node
        BY <4>1, <4>2, ParentIs, NodesNumbered DEF Up
      <4>4. x \in sub[u]
        BY <1>00, <4>1, <4>3, ChildIs
      <4>5. u < x
        BY <1>00, <4>1, <4>3, ChildIs DEF Beyond
      <4>6. ASSUME NEW z \in sub[u]
            PROVE  z <= x
        <5>1. z \in Nodes(tree) /\ z \in Nat /\ u \in Nat
          BY <1>0, <4>3 DEF Shape
        <5>2. z = u \/ z \in sub[y] \/ z \in sub[tree.node[u].left]
          BY <4>1, <4>3, <5>1 DEF Shape, Sides
        <5>3. z \in sub[tree.node[u].left] => z < u
          BY <1>00, <4>3, <5>1 DEF Shape, Beyond
        <5> QED BY <1>0, <4>1, <4>5, <5>1, <5>2, <5>3
      <4>7. (d + 1) + 1 <= Cardinality(sub[u])
        <5>1. Cardinality(sub[y]) < Cardinality(sub[u])
          BY <1>00, <4>1, <4>3, Smaller
        <5>2. Cardinality(sub[y]) \in Nat /\ Cardinality(sub[u]) \in Nat
          BY <4>3, SubFinite
        <5> HIDE DEF y, u
        <5> QED BY <4>1, <5>1, <5>2
      <4> HIDE DEF u, Top
      <4> QED BY <4>1, <4>3, <4>4, <4>6, <4>7
    <3> QED BY <3>2, <3>3
  <2> HIDE DEF S
  <2>5. \A d \in 0..n : d \in S
    BY <2>2, <2>3, <2>4, Climb
  <2>6. Q(n)
    BY <2>2, <2>5 DEF S
  <2> DEFINE a == at[n]
  <2>7. a \in Nodes(tree) /\ x \in sub[a] /\ (\A z \in sub[a] : z <= x)
          /\ Top(a)
    <3>1. a \in Nodes(tree) /\ (Top(a) \/ n + 1 <= Cardinality(sub[a]))
      BY <2>6
    <3>2. Cardinality(sub[a]) \in Nat /\ Cardinality(sub[a]) <= n
      BY <3>1, SubFinite, NodesNumbered
    <3> HIDE DEF a, Top
    <3>3. Top(a)
      BY <2>2, <3>1, <3>2
    <3> QED BY <2>6, <3>1, <3>3 DEF a
  <2>8. successor(x) = Up(a)
    BY <2>1 DEF RisenBy
  <2> HIDE DEF a
  <2>9. CASE a = tree.root
    <3>1. Up(a) = nil
      BY <2>7, <2>9, ParentIs DEF Up
    <3>2. \A z \in Nodes(tree) : z <= x
      BY <2>7, <2>9 DEF Shape
    <3> QED BY <2>8, <3>1, <3>2
  <2>10. CASE a # tree.root
    <3> DEFINE p == Up(a)
    <3>1. p \in Nodes(tree) /\ tree.node[p].left = a
      BY <2>7, <2>10, ParentIs DEF Up, Sides
    <3>2. \A z \in sub[a] : z \in sub[p] /\ z < p
      BY <1>00, <3>1, ChildIs DEF Beyond
    <3>3. p \in sub[p]
      BY <3>1 DEF Shape
    <3>4. ASSUME NEW z \in Nodes(tree), x < z
          PROVE  p <= z
      <4>1. z \notin sub[a]
        BY <1>0, <2>7, <3>4
      <4>2. CASE z \in sub[p]
        <5>1. z = p \/ z \in sub[tree.node[p].right]
          BY <3>1, <4>1, <4>2 DEF Shape, Sides
        <5>2. z \in sub[tree.node[p].right] => p < z
          BY <1>00, <3>1 DEF Shape, Beyond
        <5> QED BY <1>0, <3>1, <5>1, <5>2
      <4>3. CASE z \notin sub[p]
        BY <1>0, <2>7, <3>1, <3>2, <3>3, <3>4, <4>3, Apart
      <4> QED BY <4>2, <4>3
    <3>5. x < p
      BY <2>7, <3>2
    <3> QED BY <2>8, <3>1, <3>4, <3>5
  <2> QED BY <2>9, <2>10
<1> QED BY <1>1, <1>2

-----------------------------------------------------------------------------
(* Iterators: the keys of a class.                                         *)

(* The turns towards the keys of a class, named.                           *)
Seeking(m, at) ==
  [d \in Steps |->
     IF d = 0 THEN tree.root
     ELSE LET x == at[d - 1]
          IN  IF x = nil \/ Class[x] = m THEN x
              ELSE Link(x, IF m > Class[x] THEN "right" ELSE "left")]

LEMMA SeekingBy ==
  ASSUME NEW m
  PROVE  \E at : at = (CHOOSE g : g = Seeking(m, g))
                 /\ Matching(m) = at[Cardinality(Keys)]
BY DEF Matching, Seeking

ClassToward(x, m) == IF m > Class[x] THEN "right" ELSE "left"

SoughtBy(m, at) ==
  /\ Matching(m) = at[Cardinality(Keys)]
  /\ at[0] = tree.root
  /\ \A d \in Nat : d < Cardinality(Keys) =>
       at[d + 1] = IF at[d] = nil \/ Class[at[d]] = m THEN at[d]
                   ELSE tree.node[at[d]][ClassToward(at[d], m)]

LEMMA Sought ==
  ASSUME NEW sub, Shape(tree, sub), NEW m
  PROVE  \E at : SoughtBy(m, at)
<1> DEFINE n == Cardinality(Keys)
           S == DOMAIN tree.node
           f == [w \in S |-> IF w = nil \/ Class[w] = m THEN w
                             ELSE Link(w, ClassToward(w, m))]
<1>1. n \in Nat /\ Steps = 0..n
  BY KeysCounted
<1>2. tree.root \in S
  BY DEF Shape
<1>3. f \in [S -> S]
  <2>1. ASSUME NEW w \in S, w # nil
        PROVE  Link(w, ClassToward(w, m)) \in S
    <3>1. w \in Nodes(tree)
      BY <2>1 DEF Nodes
    <3> QED BY <3>1, ChildIs DEF Link, ClassToward, Sides
  <2> QED BY <2>1
<1>4. PICK h : h = Turns(f, tree.root, n, h) /\ \A d \in 0..n : h[d] \in S
  <2> HIDE DEF S, f, n
  <2> QED BY <1>1, <1>2, <1>3, Iterated
<1>5. h = Seeking(m, h)
  <2>1. ASSUME NEW d \in 0..n
        PROVE  (IF d = 0 THEN tree.root ELSE f[h[d - 1]]) =
               IF d = 0 THEN tree.root
               ELSE LET x == h[d - 1]
                    IN  IF x = nil \/ Class[x] = m THEN x
                        ELSE Link(x, IF m > Class[x] THEN "right" ELSE "left")
    <3>1. d # 0 => h[d - 1] \in S
      BY <1>1, <1>4
    <3> QED BY <3>1 DEF ClassToward
  <2>2. Turns(f, tree.root, n, h) = Seeking(m, h)
    BY <1>1, <2>1 DEF Turns, Seeking
  <2> QED BY <1>4, <2>2
<1>6. PICK at : at = (CHOOSE g : g = Seeking(m, g)) /\ Matching(m) = at[n]
  BY SeekingBy
<1>7. at = Seeking(m, at)
  BY <1>5, <1>6
<1> HIDE DEF n, S, f
<1>8. at[0] = tree.root
  <2>1. 0 \in Steps
    BY <1>1
  <2> QED BY <1>7, <2>1 DEF Seeking
<1>9. ASSUME NEW d \in Nat, d < n
      PROVE  at[d + 1] = IF at[d] = nil \/ Class[at[d]] = m THEN at[d]
                         ELSE tree.node[at[d]][ClassToward(at[d], m)]
  <2>1. d + 1 \in Steps /\ d + 1 # 0 /\ (d + 1) - 1 = d
    BY <1>1, <1>9
  <2> QED BY <1>7, <1>9, <2>1 DEF Seeking, Link, ClassToward
<1>12. SoughtBy(m, at)
  BY <1>6, <1>8, <1>9 DEF n, SoughtBy
<1> QED BY <1>12

(* Classes are in the order of the keys.                                   *)
LEMMA ClassOrder ==
  ASSUME NEW x \in Keys, NEW y \in Keys, NEW s \in Sides, Beyond(s, x, y)
  PROVE  /\ Class[x] \in Nat /\ Class[y] \in Nat
         /\ Class[x] = Class[y] \/ Beyond(s, Class[x], Class[y])
<1>1. x \in Nat /\ y \in Nat /\ Class[x] \in Nat /\ Class[y] \in Nat
  BY KeysAssumption, ClassAssumption
<1>2. /\ x < y => Class[x] <= Class[y]
      /\ y < x => Class[y] <= Class[x]
  BY ClassAssumption
<1>3. CASE s = "left"
  BY <1>1, <1>2, <1>3 DEF Beyond
<1>4. CASE s = "right"
  BY <1>1, <1>2, <1>4 DEF Beyond
<1> QED BY <1>1, <1>3, <1>4 DEF Sides

(* It finds one of the class, if there is one, with the others below.      *)
LEMMA MatchingIs ==
  ASSUME NEW sub, Shape(tree, sub), NEW m \in Nat
  PROVE  LET x == Matching(m)
         IN  \/ x = nil /\ \A z \in Nodes(tree) : Class[z] # m
             \/ /\ x \in Nodes(tree) /\ Class[x] = m
                /\ \A z \in Nodes(tree) : Class[z] = m => z \in sub[x]
<1> DEFINE n == Cardinality(Keys)
<1>1. PICK at : SoughtBy(m, at)
  BY Sought
<1>2. n \in Nat
  BY KeysCounted
<1> DEFINE Done(x) == x = nil \/ Class[x] = m
           Q(d) == /\ at[d] \in DOMAIN tree.node
                   /\ \A z \in Nodes(tree) : Class[z] = m => z \in sub[at[d]]
                   /\ Done(at[d]) \/ Cardinality(sub[at[d]]) + d <= n
           S == {d \in Nat : Q(d)}
<1>3. 0 \in S
  <2>1. at[0] = tree.root /\ tree.root \in DOMAIN tree.node
        /\ \A z \in Nodes(tree) : z \in sub[tree.root]
    BY <1>1 DEF SoughtBy, Shape
  <2>2. Cardinality(sub[tree.root]) \in Nat /\ Cardinality(sub[tree.root]) <= n
    BY <2>1, SubFinite
  <2> QED BY <2>1, <2>2
<1>4. ASSUME NEW d \in Nat, d \in S, d < n
      PROVE  d + 1 \in S
  <2> DEFINE y == at[d]
             c == tree.node[y][ClassToward(y, m)]
  <2>1. at[d + 1] = IF Done(y) THEN y ELSE c
    BY <1>1, <1>4 DEF SoughtBy
  <2>2. CASE Done(y)
    BY <1>4, <2>1, <2>2
  <2>3. CASE ~Done(y)
    <3>1. y \in Nodes(tree) /\ y \in DOMAIN tree.node /\ Class[y] # m
            /\ at[d + 1] = c
      BY <1>4, <2>1, <2>3 DEF Nodes
    <3>2. ClassToward(y, m) \in Sides /\ y \in Keys /\ Class[y] \in Nat
      BY <3>1, NodesNumbered, ClassAssumption DEF ClassToward, Sides
    <3>3. c \in DOMAIN tree.node /\ Cardinality(sub[c]) < Cardinality(sub[y])
      BY <3>1, <3>2, ChildIs, Smaller
    <3>4. ASSUME NEW z \in Nodes(tree), Class[z] = m
          PROVE  z \in sub[c]
      <4> DEFINE g == Opposite(ClassToward(y, m))
      <4>0. g \in Sides
        BY <3>2, SidesAre
      <4>1. z \in sub[y] /\ z # y
        BY <1>4, <3>1, <3>4
      <4>2. z \in sub[c] \/ z \in sub[tree.node[y][g]]
        BY <3>1, <3>2, <4>1, SidesAre DEF Shape
      <4>3. ASSUME z \in sub[tree.node[y][g]]
            PROVE  FALSE
        <5>1. Beyond(g, y, z)
          BY <3>1, <4>0, <4>3, ChildIs
        <5>2. Beyond(g, Class[y], m)
          BY <3>1, <3>2, <3>4, <4>0, <5>1, ClassOrder, NodesNumbered
        <5>3. CASE m > Class[y]
          BY <3>2, <5>2, <5>3 DEF Beyond, ClassToward, Opposite
        <5>4. CASE m < Class[y]
          BY <3>2, <5>2, <5>4 DEF Beyond, ClassToward, Opposite
        <5> QED BY <3>1, <3>2, <5>3, <5>4
      <4> QED BY <4>2, <4>3
    <3>5. Cardinality(sub[c]) + (d + 1) <= n
      <4>1. Cardinality(sub[c]) \in Nat /\ Cardinality(sub[y]) \in Nat
        BY <3>1, <3>3, SubFinite
      <4>2. Cardinality(sub[y]) + d <= n
        BY <1>4, <2>3
      <4> HIDE DEF c, y, n
      <4> QED BY <1>2, <3>3, <4>1, <4>2
    <3> QED BY <3>1, <3>3, <3>4, <3>5
  <2> QED BY <2>2, <2>3
<1> HIDE DEF S
<1>5. \A d \in 0..n : d \in S
  BY <1>2, <1>3, <1>4, Climb
<1>6. Q(n)
  BY <1>2, <1>5 DEF S
<1>7. Done(at[n])
  <2>1. at[n] \in DOMAIN tree.node /\ (Done(at[n]) \/ Cardinality(sub[at[n]]) + n <= n)
    BY <1>6
  <2>2. Cardinality(sub[at[n]]) \in Nat
          /\ (Cardinality(sub[at[n]]) = 0 <=> at[n] = nil)
    BY <2>1, SubFinite
  <2> HIDE DEF Done
  <2>3. at[n] = nil => Done(at[n])
    BY DEF Done
  <2> QED BY <1>2, <2>1, <2>2, <2>3
<1>8. Matching(m) = at[n]
  BY <1>1 DEF SoughtBy
<1>9. CASE at[n] = nil
  BY <1>6, <1>8, <1>9 DEF Shape
<1>10. CASE at[n] # nil
  BY <1>6, <1>7, <1>8, <1>10 DEF Nodes
<1> QED BY <1>9, <1>10

-----------------------------------------------------------------------------
(* The turns towards where a class ends, named.                            *)
Ending(x, m, s, at) ==
  [d \in Steps |->
     IF d = 0 THEN [found |-> x, next |-> Link(x, s)]
     ELSE LET y == at[d - 1].next
          IN  IF y = nil THEN at[d - 1]
              ELSE IF Class[y] = m THEN [found |-> y, next |-> Link(y, s)]
              ELSE [found |-> at[d - 1].found, next |-> Link(y, Opposite(s))]]

LEMMA EndingBy ==
  ASSUME NEW x, NEW m, NEW s
  PROVE  \E at : at = (CHOOSE g : g = Ending(x, m, s, g))
                 /\ Boundary(x, m, s) = at[Cardinality(Keys)].found
BY DEF Boundary, Ending

EndedBy(x, m, s, at) ==
  /\ Boundary(x, m, s) = at[Cardinality(Keys)].found
  /\ at[0].found = x /\ at[0].next = tree.node[x][s]
  /\ \A d \in Nat : d < Cardinality(Keys) =>
       /\ at[d].next = nil => at[d + 1] = at[d]
       /\ at[d].next # nil /\ Class[at[d].next] = m =>
            /\ at[d + 1].found = at[d].next
            /\ at[d + 1].next = tree.node[at[d].next][s]
       /\ at[d].next # nil /\ Class[at[d].next] # m =>
            /\ at[d + 1].found = at[d].found
            /\ at[d + 1].next = tree.node[at[d].next][Opposite(s)]

LEMMA Ended ==
  ASSUME NEW sub, Shape(tree, sub), NEW x \in Nodes(tree), NEW m,
           NEW s \in Sides
  PROVE  \E at : EndedBy(x, m, s, at)
<1> DEFINE n == Cardinality(Keys)
           D == DOMAIN tree.node
           S == [found : D, next : D]
           b == [found |-> x, next |-> Link(x, s)]
           f == [w \in S |-> IF w.next = nil THEN w
                   ELSE IF Class[w.next] = m
                        THEN [found |-> w.next, next |-> Link(w.next, s)]
                   ELSE [found |-> w.found, next |-> Link(w.next, Opposite(s))]]
<1>1. n \in Nat /\ Steps = 0..n
  BY KeysCounted
<1>2. b \in S
  BY ChildIs, NodesNumbered DEF Link
<1>3. f \in [S -> S]
  <2>1. ASSUME NEW w \in S, w.next # nil
        PROVE  Link(w.next, s) \in D /\ Link(w.next, Opposite(s)) \in D
    <3>1. w.next \in Nodes(tree)
      BY <2>1 DEF Nodes
    <3> QED BY <3>1, ChildIs, SidesAre DEF Link
  <2> QED BY <2>1
<1>4. PICK h : h = Turns(f, b, n, h) /\ \A d \in 0..n : h[d] \in S
  <2> HIDE DEF S, f, b, n
  <2> QED BY <1>1, <1>2, <1>3, Iterated
<1>5. h = Ending(x, m, s, h)
  <2>1. ASSUME NEW d \in 0..n
        PROVE  (IF d = 0 THEN b ELSE f[h[d - 1]]) =
               IF d = 0 THEN [found |-> x, next |-> Link(x, s)]
               ELSE LET y == h[d - 1].next
                    IN  IF y = nil THEN h[d - 1]
                        ELSE IF Class[y] = m THEN [found |-> y, next |-> Link(y, s)]
                        ELSE [found |-> h[d - 1].found, next |-> Link(y, Opposite(s))]
    <3>1. d # 0 => h[d - 1] \in S
      BY <1>1, <1>4
    <3> QED BY <3>1
  <2>2. Turns(f, b, n, h) = Ending(x, m, s, h)
    BY <1>1, <2>1 DEF Turns, Ending
  <2> QED BY <1>4, <2>2
<1>6. PICK at : at = (CHOOSE g : g = Ending(x, m, s, g))
                /\ Boundary(x, m, s) = at[n].found
  BY EndingBy
<1>7. at = Ending(x, m, s, at)
  BY <1>5, <1>6
<1> HIDE DEF n, S, b, f
<1>8. at[0].found = x /\ at[0].next = tree.node[x][s]
  <2>1. 0 \in Steps
    BY <1>1
  <2>2. at[0] = [found |-> x, next |-> Link(x, s)]
    BY <1>7, <2>1 DEF Ending
  <2> QED BY <2>2 DEF Link
<1>9. ASSUME NEW d \in Nat, d < n
      PROVE  /\ at[d].next = nil => at[d + 1] = at[d]
             /\ at[d].next # nil /\ Class[at[d].next] = m =>
                  /\ at[d + 1].found = at[d].next
                  /\ at[d + 1].next = tree.node[at[d].next][s]
             /\ at[d].next # nil /\ Class[at[d].next] # m =>
                  /\ at[d + 1].found = at[d].found
                  /\ at[d + 1].next = tree.node[at[d].next][Opposite(s)]
  <2>1. d + 1 \in Steps /\ d + 1 # 0 /\ (d + 1) - 1 = d
    BY <1>1, <1>9
  <2>2. at[d + 1] = IF at[d].next = nil THEN at[d]
              ELSE IF Class[at[d].next] = m
                   THEN [found |-> at[d].next, next |-> Link(at[d].next, s)]
              ELSE [found |-> at[d].found, next |-> Link(at[d].next, Opposite(s))]
    BY <1>7, <2>1 DEF Ending
  <2> QED BY <2>2 DEF Link
<1>10. EndedBy(x, m, s, at)
  BY <1>6, <1>8, <1>9 DEF n, EndedBy
<1> QED BY <1>10

(* It is the last of the class on its side.                                *)
LEMMA BoundaryIs ==
  ASSUME NEW sub, Shape(tree, sub), NEW x \in Nodes(tree), NEW s \in Sides,
         \A z \in Nodes(tree) : Class[z] = Class[x] => z \in sub[x]
  PROVE  LET r == Boundary(x, Class[x], s)
         IN  /\ r \in Nodes(tree) /\ Class[r] = Class[x]
             /\ \A z \in Nodes(tree) :
                  Class[z] = Class[x] => z = r \/ Beyond(s, z, r)
<1> DEFINE n == Cardinality(Keys)
           m == Class[x]
           o == Opposite(s)
<1>1. PICK at : EndedBy(x, m, s, at)
  BY Ended
<1>2. n \in Nat
  BY KeysCounted
<1>0. /\ o \in Sides /\ Opposite(o) = s
      /\ \A z \in Nodes(tree) : z \in Nat /\ z \in Keys /\ Class[z] \in Nat
           /\ z \in DOMAIN tree.node
  BY SidesAre, NodesNumbered, ClassAssumption
<1> DEFINE Q(d) == /\ at[d].found \in Nodes(tree) /\ Class[at[d].found] = m
                   /\ at[d].next \in DOMAIN tree.node
                   /\ \A z \in Nodes(tree) : Class[z] = m =>
                        \/ z = at[d].found \/ Beyond(s, z, at[d].found)
                        \/ z \in sub[at[d].next]
                   /\ \A z \in sub[at[d].next] : Beyond(s, at[d].found, z)
                   /\ at[d].next = nil \/ Cardinality(sub[at[d].next]) + d <= n
           S == {d \in Nat : Q(d)}
<1>3. 0 \in S
  <2> DEFINE c == tree.node[x][s]
  <2>1. at[0].found = x /\ at[0].next = c
    BY <1>1 DEF EndedBy
  <2>2. c \in DOMAIN tree.node /\ \A z \in sub[c] : Beyond(s, x, z)
    BY ChildIs
  <2>3. Cardinality(sub[c]) \in Nat /\ Cardinality(sub[c]) <= n
    BY <2>2, SubFinite
  <2>4. ASSUME NEW z \in Nodes(tree), Class[z] = m, z # x, z \notin sub[c]
        PROVE  Beyond(s, z, x)
    <3>1. z \in sub[tree.node[x][o]]
      BY <2>4, SidesAre DEF Shape
    <3>2. Beyond(o, x, z)
      BY <1>0, <3>1, ChildIs
    <3> QED BY <1>0, <3>2, BeyondIs
  <2> HIDE DEF c, m
  <2> QED BY <2>1, <2>2, <2>3, <2>4 DEF m
<1>4. ASSUME NEW d \in Nat, d \in S, d < n
      PROVE  d + 1 \in S
  <2> DEFINE y == at[d].next
             k == at[d].found
  <2>1. /\ y = nil => at[d + 1] = at[d]
        /\ y # nil /\ Class[y] = m => at[d + 1].found = y
             /\ at[d + 1].next = tree.node[y][s]
        /\ y # nil /\ Class[y] # m => at[d + 1].found = k
             /\ at[d + 1].next = tree.node[y][o]
    BY <1>1, <1>4 DEF EndedBy
  <2>0. Q(d)
    BY <1>4
  <2>2. CASE y = nil
    BY <2>0, <2>1, <2>2
  <2>3. ASSUME y # nil, NEW g \in Sides
        PROVE  /\ y \in Nodes(tree) /\ y \in sub[y]
               /\ tree.node[y][g] \in DOMAIN tree.node
               /\ Cardinality(sub[tree.node[y][g]]) + (d + 1) <= n
               /\ \A z \in sub[tree.node[y][g]] : z \in sub[y]
                    /\ z \in Nodes(tree) /\ Beyond(g, y, z)
    <3>1. y \in Nodes(tree) /\ y \in DOMAIN tree.node
      BY <2>0, <2>3 DEF Nodes
    <3>2. /\ tree.node[y][g] \in DOMAIN tree.node
          /\ \A z \in sub[tree.node[y][g]] : z \in sub[y]
               /\ z \in Nodes(tree) /\ Beyond(g, y, z)
          /\ Cardinality(sub[tree.node[y][g]]) < Cardinality(sub[y])
      BY <2>3, <3>1, ChildIs, Smaller
    <3>3. Cardinality(sub[tree.node[y][g]]) \in Nat
            /\ Cardinality(sub[y]) \in Nat
      BY <3>1, <3>2, SubFinite
    <3>4. Cardinality(sub[y]) + d <= n
      BY <2>0, <2>3
    <3>5. Cardinality(sub[tree.node[y][g]]) + (d + 1) <= n
      <4> HIDE DEF y, n
      <4> QED BY <1>2, <3>2, <3>3, <3>4
    <3> QED BY <3>1, <3>2, <3>5 DEF Shape
  <2>4. CASE y # nil /\ Class[y] = m
    <3> DEFINE c == tree.node[y][s]
    <3>1. at[d + 1].found = y /\ at[d + 1].next = c
      BY <2>1, <2>4
    <3>2. /\ y \in Nodes(tree) /\ y \in sub[y] /\ c \in DOMAIN tree.node
          /\ Cardinality(sub[c]) + (d + 1) <= n
          /\ \A z \in sub[c] : Beyond(s, y, z)
      BY <2>3, <2>4
    <3>3. ASSUME NEW z \in Nodes(tree), Class[z] = m
          PROVE  z = y \/ Beyond(s, z, y) \/ z \in sub[c]
      <4>1. Beyond(s, k, y) /\ k \in Nodes(tree)
        BY <2>0, <3>2
      <4>2. CASE z \in sub[y]
        <5>1. z = y \/ z \in sub[c] \/ z \in sub[tree.node[y][o]]
          BY <3>2, <4>2, SidesAre DEF Shape
        <5>2. z \in sub[tree.node[y][o]] => Beyond(o, y, z)
          BY <1>0, <3>2 DEF Shape
        <5> QED BY <1>0, <3>2, <5>1, <5>2, BeyondIs
      <4>3. CASE z = k
        BY <4>1, <4>3
      <4>4. CASE Beyond(s, z, k)
        BY <1>0, <3>2, <4>1, <4>4, BeyondIs
      <4> QED BY <2>0, <3>3, <4>2, <4>3, <4>4
    <3> HIDE DEF y, c, m
    <3> QED BY <3>1, <3>2, <3>3, <2>4
  <2>5. CASE y # nil /\ Class[y] # m
    <3> DEFINE c == tree.node[y][o]
    <3>1. at[d + 1].found = k /\ at[d + 1].next = c
      BY <2>1, <2>5
    <3>2. /\ y \in Nodes(tree) /\ y \in sub[y] /\ c \in DOMAIN tree.node
          /\ Cardinality(sub[c]) + (d + 1) <= n
          /\ \A z \in sub[c] : z \in sub[y]
      BY <1>0, <2>3, <2>5
    <3>3. \A z \in sub[c] : Beyond(s, k, z)
      BY <2>0, <3>2
    <3>4. Beyond(s, k, y) /\ k \in Nodes(tree) /\ Class[k] = m
      BY <2>0, <3>2
    <3>5. Beyond(s, m, Class[y])
      BY <1>0, <2>5, <3>2, <3>4, ClassOrder
    <3>6. ASSUME NEW z \in sub[y], z \in Nodes(tree), Class[z] = m
          PROVE  z \in sub[c]
      <4>1. z \in sub[c] \/ z \in sub[tree.node[y][s]]
        BY <2>5, <3>2, <3>6, SidesAre DEF Shape
      <4>2. ASSUME z \in sub[tree.node[y][s]]
            PROVE  FALSE
        <5>1. Beyond(s, y, z)
          BY <3>2, <3>6, <4>2 DEF Shape
        <5>2. Beyond(s, Class[y], m)
          BY <1>0, <2>5, <3>2, <3>6, <5>1, ClassOrder
        <5> QED BY <1>0, <3>2, <3>4, <3>5, <5>2 DEF Beyond
      <4> QED BY <4>1, <4>2
    <3>7. ASSUME NEW z \in Nodes(tree), Class[z] = m
          PROVE  z = k \/ Beyond(s, z, k) \/ z \in sub[c]
      BY <2>0, <3>6, <3>7
    <3> HIDE DEF y, c, k, m
    <3> QED BY <3>1, <3>2, <3>3, <3>4, <3>7
  <2> QED BY <2>2, <2>4, <2>5
<1> HIDE DEF S
<1>5. \A d \in 0..n : d \in S
  BY <1>2, <1>3, <1>4, Climb
<1>6. Q(n)
  BY <1>2, <1>5 DEF S
<1>7. at[n].next = nil
  <2>1. at[n].next \in DOMAIN tree.node
          /\ (at[n].next = nil \/ Cardinality(sub[at[n].next]) + n <= n)
    BY <1>6
  <2>2. Cardinality(sub[at[n].next]) \in Nat
          /\ (Cardinality(sub[at[n].next]) = 0 <=> at[n].next = nil)
    BY <2>1, SubFinite
  <2> QED BY <1>2, <2>1, <2>2
<1>8. Boundary(x, m, s) = at[n].found
  BY <1>1 DEF EndedBy
<1>9. \A z \in Nodes(tree) : z \notin sub[nil]
  BY DEF Shape
<1> QED BY <1>6, <1>7, <1>8, <1>9

-----------------------------------------------------------------------------
(* The nodes above.                                                        *)

(* The turns up to the root, named.                                        *)
Upwards(x, at) == [d \in Steps |-> IF d = 0 THEN x ELSE Up(at[d - 1])]

LEMMA UpwardsBy ==
  ASSUME NEW x
  PROVE  \E at : at = (CHOOSE g : g = Upwards(x, g))
                 /\ Above(x) = {at[d] : d \in Steps} \ {nil}
BY DEF Above, Upwards

(* The nodes that a node is at or below.                                   *)
LEMMA AboveIs ==
  ASSUME NEW sub, Shape(tree, sub), NEW x \in Nodes(tree)
  PROVE  Above(x) = {y \in Nodes(tree) : x \in sub[y]}
<1> DEFINE n == Cardinality(Keys)
           D == DOMAIN tree.node
           f == [w \in D |-> Up(w)]
<1>1. n \in Nat /\ Steps = 0..n
  BY KeysCounted
<1>2. x \in D /\ f \in [D -> D]
  BY UpWithin, NodesNumbered
<1>3. PICK h : h = Turns(f, x, n, h) /\ \A d \in 0..n : h[d] \in D
  <2> HIDE DEF D, f, n
  <2> QED BY <1>1, <1>2, Iterated
<1>4. h = Upwards(x, h)
  <2>1. ASSUME NEW d \in 0..n
        PROVE  (IF d = 0 THEN x ELSE f[h[d - 1]]) = IF d = 0 THEN x ELSE Up(h[d - 1])
    <3>1. d # 0 => h[d - 1] \in D
      BY <1>1, <1>3
    <3> QED BY <3>1
  <2>2. Turns(f, x, n, h) = Upwards(x, h)
    BY <1>1, <2>1 DEF Turns, Upwards
  <2> QED BY <1>3, <2>2
<1>5. PICK at : at = (CHOOSE g : g = Upwards(x, g))
                /\ Above(x) = {at[d] : d \in Steps} \ {nil}
  BY UpwardsBy
<1>6. at = Upwards(x, at)
  BY <1>4, <1>5
<1> HIDE DEF n, D, f
<1>7. at[0] = x
  <2>1. 0 \in Steps
    BY <1>1
  <2> QED BY <1>6, <2>1 DEF Upwards
<1>8. ASSUME NEW d \in Nat, d < n
      PROVE  at[d + 1] = Up(at[d])
  <2>1. d + 1 \in Steps /\ d + 1 # 0 /\ (d + 1) - 1 = d
    BY <1>1, <1>8
  <2> QED BY <1>6, <2>1 DEF Upwards
<1> DEFINE Q(d) == \/ at[d] = nil
                   \/ /\ at[d] \in Nodes(tree) /\ x \in sub[at[d]]
                      /\ d + 1 <= Cardinality(sub[at[d]])
           S == {d \in Nat : Q(d)}
<1>9. 0 \in S
  <2>1. x \in sub[x]
    BY DEF Shape
  <2>2. Cardinality(sub[x]) \in Nat /\ Cardinality(sub[x]) # 0
    BY <1>2, SubFinite, NodesNumbered DEF D
  <2> QED BY <1>7, <2>1, <2>2
<1>10. ASSUME NEW d \in Nat, d \in S, d < n
       PROVE  d + 1 \in S
  <2>1. CASE at[d] = nil
    BY <1>8, <1>10, <2>1 DEF Up, Shape, Nil, Fresh
  <2>2. CASE at[d] # nil
    <3> DEFINE y == at[d]
               u == Up(y)
    <3>1. /\ y \in Nodes(tree) /\ x \in sub[y] /\ d + 1 <= Cardinality(sub[y])
          /\ at[d + 1] = u
      BY <1>8, <1>10, <2>2
    <3>2. CASE u = nil
      BY <3>1, <3>2
    <3>3. CASE u # nil
      <4>1. /\ u \in Nodes(tree) /\ u \in DOMAIN tree.node
                 /\ y \in DOMAIN tree.node
            /\ SideOf(tree, y, u) \in Sides
            /\ tree.node[u][SideOf(tree, y, u)] = y /\ x \in sub[u]
        BY <3>1, <3>3, ParentIs, NodesNumbered DEF Up
      <4>2. Cardinality(sub[y]) < Cardinality(sub[u])
        BY <4>1, Smaller
      <4>3. Cardinality(sub[y]) \in Nat /\ Cardinality(sub[u]) \in Nat
        BY <4>1, SubFinite
      <4>4. (d + 1) + 1 <= Cardinality(sub[u])
        <5> HIDE DEF y, u
        <5> QED BY <3>1, <4>2, <4>3
      <4> QED BY <3>1, <4>1, <4>4
    <3> QED BY <3>2, <3>3
  <2> QED BY <2>1, <2>2
<1> HIDE DEF S
<1>11. \A d \in 0..n : d \in S
  BY <1>1, <1>9, <1>10, Climb
<1>12. \A d \in 0..n : Q(d)
  BY <1>11 DEF S
<1>13. ASSUME NEW y \in Above(x)
       PROVE  y \in Nodes(tree) /\ x \in sub[y]
  BY <1>1, <1>5, <1>12
<1> DEFINE Bad == {y \in Nodes(tree) : x \in sub[y] /\ \A d \in 0..n : at[d] # y}
           B == {Cardinality(sub[y]) : y \in Bad}
<1>14. Bad = {}
  <2> SUFFICES ASSUME Bad # {} PROVE FALSE
    OBVIOUS
  <2>1. B \in SUBSET Nat /\ B # {}
    BY SubFinite, NodesNumbered
  <2>2. PICK m \in B : \A k \in B : m <= k
    BY <2>1, LeastOf
  <2>3. PICK y \in Bad : m = Cardinality(sub[y])
    OBVIOUS
  <2>4. y # x
    BY <1>1, <1>7
  <2>5. PICK s \in Sides : x \in sub[tree.node[y][s]]
    BY <2>3, <2>4 DEF Shape
  <2> DEFINE c == tree.node[y][s]
  <2>6. c # nil
    BY <2>5 DEF Shape
  <2>7. c \in Nodes(tree) /\ c \in DOMAIN tree.node /\ Up(c) = y
          /\ y \in DOMAIN tree.node
    BY <2>6, ChildIs, NodesNumbered DEF Up
  <2>8. Cardinality(sub[c]) < Cardinality(sub[y])
    BY <2>7, Smaller
  <2>9. Cardinality(sub[c]) \in Nat /\ Cardinality(sub[y]) \in Nat
          /\ Cardinality(sub[y]) <= n
    BY <2>7, SubFinite DEF n
  <2>10. c \notin Bad
    <3> SUFFICES ASSUME c \in Bad PROVE FALSE
      OBVIOUS
    <3>1. m <= Cardinality(sub[c])
      BY <2>2
    <3> HIDE DEF c
    <3> QED BY <2>3, <2>8, <2>9, <3>1
  <2>11. PICK d \in 0..n : at[d] = c
    BY <2>5, <2>7, <2>10
  <2>12. d + 1 <= Cardinality(sub[c])
    BY <1>12, <2>6, <2>11
  <2>13. d < n /\ d \in Nat /\ d + 1 \in 0..n
    <3> HIDE DEF c
    <3> QED BY <1>1, <2>8, <2>9, <2>12
  <2>14. at[d + 1] = y
    BY <1>8, <2>7, <2>11, <2>13
  <2> QED BY <2>3, <2>13, <2>14
<1>15. ASSUME NEW y \in Nodes(tree), x \in sub[y]
       PROVE  y \in Above(x)
  <2>1. y \notin Bad /\ y # nil
    BY <1>14, NodesNumbered
  <2>2. PICK d \in 0..n : at[d] = y
    BY <1>15, <2>1
  <2> QED BY <1>1, <1>5, <2>1, <2>2
<1> QED BY <1>13, <1>15

-----------------------------------------------------------------------------
(* A new leaf.                                                             *)

LEMMA GrownIs ==
  ASSUME NEW t, IsTree(t), NEW k, k \notin DOMAIN t.node, NEW up, NEW v
  PROVE  LET u == Grow(t, k, up, v)
         IN  /\ IsTree(u) /\ u.root = t.root
                  /\ DOMAIN u.node = DOMAIN t.node \cup {k}
             /\ u.node[k] = Fresh(up, v)
             /\ \A y \in DOMAIN t.node : u.node[y] = t.node[y]
<1> DEFINE M == [x \in DOMAIN t.node \cup {k} |-> IF x = k THEN Fresh(up, v) ELSE t.node[x]]
           u == Grow(t, k, up, v)
<1>1. u = [root |-> t.root, node |-> M]
  BY DEF IsTree, Grow
<1>2. IsNode(Fresh(up, v))
  BY DEF Fresh, IsNode
<1>3. /\ DOMAIN M = DOMAIN t.node \cup {k} /\ M[k] = Fresh(up, v)
      /\ \A y \in DOMAIN t.node : M[y] = t.node[y]
  OBVIOUS
<1>4. M = [x \in DOMAIN M |-> M[x]]
  OBVIOUS
<1> HIDE DEF M, u
<1>5. u.root = t.root /\ u.node = M
  BY <1>1
<1>6. IsTree(u)
  <2>1. \A x \in DOMAIN M : IsNode(M[x])
    BY <1>2, <1>3 DEF IsTree
  <2> QED BY <1>1, <1>4, <1>5, <2>1 DEF IsTree
<1> QED BY <1>3, <1>5, <1>6 DEF u

(* The keys below the nodes with a key more, that a search passed.         *)
GrownSub(t, sub, k, path) ==
  [y \in DOMAIN t.node \cup {k} |->
     IF y = k THEN {k} ELSE IF y \in path THEN sub[y] \cup {k} ELSE sub[y]]

(* Where the new leaf is.                                                  *)
GrownTo(t, u, k, up, v) ==
  /\ IsTree(u) /\ u.root = t.root /\ DOMAIN u.node = DOMAIN t.node \cup {k}
  /\ u.node[k] = Fresh(up, v)
  /\ \A y \in DOMAIN t.node :
       /\ u.node[y].parent = t.node[y].parent /\ u.node[y].red = t.node[y].red
       /\ u.node[y].value = t.node[y].value
       /\ \A g \in Sides :
            u.node[y][g] = IF y = up /\ g = Toward(up, k) THEN k ELSE t.node[y][g]

LEMMA Planted ==
  ASSUME NEW t, IsTree(t), NEW k, k \notin DOMAIN t.node,
           NEW up \in DOMAIN t.node, NEW v
  PROVE  GrownTo(t, SetLink(Grow(t, k, up, v), up, Toward(up, k), k), k, up, v)
<1> DEFINE g == Grow(t, k, up, v)
           s == Toward(up, k)
           u == SetLink(g, up, s, k)
<1>1. /\ IsTree(g) /\ g.root = t.root /\ DOMAIN g.node = DOMAIN t.node \cup {k}
      /\ g.node[k] = Fresh(up, v)
      /\ \A y \in DOMAIN t.node : g.node[y] = t.node[y]
  BY GrownIs
<1>2. s \in Sides
  BY DEF Toward, Sides
<1> HIDE DEF g, s
<1>3. LinkSetTo(g, u, up, s, k)
  BY <1>1, <1>2, LinkIsSet
<1> HIDE DEF u
<1>4. /\ IsTree(u) /\ u.root = t.root /\ DOMAIN u.node = DOMAIN t.node \cup {k}
  BY <1>1, <1>3 DEF LinkSetTo, SameNodes
<1>5. \A y \in DOMAIN g.node :
        /\ u.node[y].parent = g.node[y].parent /\ u.node[y].red = g.node[y].red
        /\ u.node[y].value = g.node[y].value
        /\ \A h \in Sides : u.node[y][h] = IF y = up
             /\ h = s THEN k ELSE g.node[y][h]
  BY <1>3 DEF LinkSetTo, SameNodes, SameColours
<1>6. u.node[k] = Fresh(up, v)
  <2>1. k \in DOMAIN g.node /\ k # up /\ k \in DOMAIN u.node
    BY <1>1, <1>4
  <2>2. IsNode(u.node[k]) /\ IsNode(Fresh(up, v))
    BY <1>4, <2>1 DEF IsTree, IsNode, Fresh
  <2>3. /\ u.node[k].parent = g.node[k].parent /\ u.node[k].red = g.node[k].red
        /\ u.node[k].value = g.node[k].value
        /\ u.node[k].left = g.node[k].left /\ u.node[k].right = g.node[k].right
    BY <1>5, <2>1 DEF Sides
  <2> QED BY <1>1, <2>2, <2>3 DEF IsNode
<1> QED BY <1>1, <1>4, <1>5, <1>6 DEF GrownTo, u, g, s

LEMMA PlantedShape ==
  ASSUME NEW sub, Shape(tree, sub), NEW k \in Keys, k \notin Nodes(tree),
         NEW p, p # nil, NEW path, Passed(p, k, path), NEW v,
         NEW u, GrownTo(tree, u, k, p, v)
  PROVE  Shape(u, GrownSub(tree, sub, k, path))
           /\ Nodes(u) = Nodes(tree) \cup {k}
<1> DEFINE D == DOMAIN tree.node
           N == Nodes(tree)
           low == GrownSub(tree, sub, k, path)
<1>1. k \in Nat /\ k # nil /\ k \notin D
  BY KeysAssumption DEF Nodes
<1>2. /\ p \in path /\ tree.node[p][Toward(p, k)] = nil
      /\ path \subseteq N /\ k \notin path
      /\ \A y \in path : y # tree.root =>
           /\ tree.node[y].parent \in path
           /\ y = tree.node[tree.node[y].parent][Toward(tree.node[y].parent, k)]
      /\ \A y \in path : tree.node[y][Toward(y, k)] # nil
                           => tree.node[y][Toward(y, k)] \in path
      /\ \A y \in path : tree.node[y][Toward(y, k)] = nil => y = p
      /\ tree.root # nil => tree.root \in path
  BY DEF Passed
<1>3. tree.root \in path
  <2>1. p \in sub[tree.root] /\ p \notin sub[nil]
    BY <1>2 DEF Shape
  <2> QED BY <1>2, <2>1
<1>4. \A y \in N : y \in D /\ y # nil /\ y # k /\ y \in Nat
  BY <1>1, NodesNumbered
<1>5. nil \in D /\ nil \notin N /\ N \subseteq Keys
  BY DEF Shape, Nodes
<1>6. /\ IsTree(u) /\ u.root = tree.root /\ DOMAIN u.node = D \cup {k}
      /\ u.node[k].parent = p /\ u.node[k].left = nil /\ u.node[k].right = nil
      /\ \A y \in D :
           /\ u.node[y].parent = tree.node[y].parent
                /\ u.node[y].red = tree.node[y].red
           /\ u.node[y].value = tree.node[y].value
           /\ \A g \in Sides :
                u.node[y][g] = IF y = p
                  /\ g = Toward(p, k) THEN k ELSE tree.node[y][g]
  BY DEF GrownTo, Fresh
<1>7. Nodes(u) = N \cup {k}
  BY <1>1, <1>6 DEF Nodes
<1>8. /\ low[k] = {k} /\ low[nil] = sub[nil]
      /\ \A y \in D : low[y] = IF y \in path THEN sub[y] \cup {k} ELSE sub[y]
  BY <1>1, <1>2, <1>5 DEF GrownSub
<1> HIDE DEF low
<1>9. \A y \in path : Toward(y, k) \in Sides /\ Beyond(Toward(y, k), y, k)
  BY <1>1, <1>2, TowardIs
<1>10. ASSUME NEW y \in N, NEW g \in Sides, tree.node[y][g] \in path
       PROVE  y \in path /\ g = Toward(y, k)
  <2> DEFINE c == tree.node[y][g]
  <2>1. c # nil /\ c # tree.root /\ tree.node[c].parent = y
    BY <1>2, <1>4, <1>10, ChildIs
  <2>2. y \in path /\ c = tree.node[y][Toward(y, k)]
    BY <1>2, <1>10, <2>1
  <2> QED BY <1>9, <2>1, <2>2, SideIs
<1>11. u.node[nil] = Nil
  <2>1. tree.node[nil] = Nil /\ IsNode(Nil) /\ IsNode(u.node[nil]) /\ p # nil
    BY <1>5, <1>6 DEF Shape, Nil, Fresh, IsNode, IsTree
  <2>2. u.node[nil].parent = Nil.parent /\ u.node[nil].red = Nil.red
        /\ u.node[nil].value = Nil.value
        /\ \A g \in Sides : u.node[nil][g] = tree.node[nil][g]
    BY <1>5, <1>6, <2>1
  <2>3. u.node[nil].left = Nil.left /\ u.node[nil].right = Nil.right
    BY <2>1, <2>2 DEF Sides
  <2> QED BY <2>1, <2>2, <2>3 DEF IsNode
<1>12. /\ IsTree(u) /\ nil \in DOMAIN u.node /\ Nodes(u) \subseteq Keys
       /\ u.root \in DOMAIN u.node /\ u.node[u.root].parent = nil
  BY <1>5, <1>6, <1>7 DEF Shape
<1>13. \A y \in Nodes(u) : y \notin low[nil] /\ y \in low[u.root]
  <2>1. low[u.root] = sub[tree.root] \cup {k} /\ tree.root \in D
    BY <1>3, <1>2, <1>4, <1>6, <1>8
  <2>2. \A y \in N : y \notin sub[nil] /\ y \in sub[tree.root]
    BY DEF Shape
  <2>3. k \notin sub[nil]
    BY <1>1, <1>5 DEF Shape
  <2> QED BY <1>7, <1>8, <2>1, <2>2, <2>3
<1>14. \A y \in DOMAIN u.node : low[y] \subseteq Nodes(u)
  <2>1. \A y \in D : sub[y] \subseteq N
    BY DEF Shape
  <2>2. ASSUME NEW y \in D PROVE low[y] \subseteq Nodes(u)
    BY <1>7, <1>8, <2>1
  <2>3. low[k] \subseteq Nodes(u)
    BY <1>7, <1>8
  <2> QED BY <1>6, <2>2, <2>3
<1>15. ASSUME NEW y \in Nodes(u)
       PROVE  /\ y # u.root => /\ u.node[y].parent \in Nodes(u)
                               /\ \E g \in Sides : u.node[u.node[y].parent][g] = y
              /\ \A z \in Nodes(u) : z \in low[y] <=> \/ z = y
                                \/ \E g \in Sides : z \in low[u.node[y][g]]
              /\ \A g \in Sides :
                   /\ u.node[y][g] \in DOMAIN u.node
                   /\ u.node[y][g] # nil => u.node[u.node[y][g]].parent = y
                   /\ \A z \in Nodes(u) : z \in low[u.node[y][g]]
                        => Beyond(g, y, z)
  <2>1. CASE y = k
    <3>1. u.node[y].parent = p /\ p \in N /\ u.node[p][Toward(p, k)] = k
            /\ Toward(p, k) \in Sides
      BY <1>2, <1>4, <1>6, <1>9, <2>1
    <3>2. \A g \in Sides : u.node[y][g] = nil
      BY <1>6, <2>1 DEF Sides
    <3>3. \A z \in Nodes(u) : z \notin low[nil]
      BY <1>13
    <3> QED BY <1>6, <1>5, <1>7, <1>8, <2>1, <3>1, <3>2, <3>3
  <2>2. CASE y # k
    <3>0. y \in N /\ y \in D
      BY <1>4, <1>7, <2>2
    <3>1. /\ y # tree.root => /\ tree.node[y].parent \in N
                              /\ \E g \in Sides : tree.node[tree.node[y].parent][g] = y
          /\ \A z \in N : z \in sub[y] <=> \/ z = y
                                \/ \E g \in Sides : z \in sub[tree.node[y][g]]
          /\ \A g \in Sides :
                   /\ tree.node[y][g] \in D
                   /\ tree.node[y][g] # nil
                        => tree.node[tree.node[y][g]].parent = y
                   /\ \A z \in N : z \in sub[tree.node[y][g]] => Beyond(g, y, z)
      BY <3>0 DEF Shape
    <3>2. y # u.root => /\ u.node[y].parent \in Nodes(u)
                        /\ \E g \in Sides : u.node[u.node[y].parent][g] = y
      <4> SUFFICES ASSUME y # u.root
                   PROVE  /\ u.node[y].parent \in Nodes(u)
                          /\ \E g \in Sides : u.node[u.node[y].parent][g] = y
        OBVIOUS
      <4>1. tree.node[y].parent \in N /\ u.node[y].parent = tree.node[y].parent
        BY <1>6, <3>0, <3>1
      <4>2. PICK g \in Sides : tree.node[tree.node[y].parent][g] = y
        BY <1>6, <3>1
      <4>3. u.node[tree.node[y].parent][g] = y
        BY <1>2, <1>4, <1>6, <3>0, <4>1, <4>2
      <4> QED BY <1>7, <4>1, <4>3
    <3>3. ASSUME NEW g \in Sides
          PROVE  /\ u.node[y][g] \in DOMAIN u.node
                 /\ u.node[y][g] # nil => u.node[u.node[y][g]].parent = y
                 /\ low[u.node[y][g]] =
                      IF y \in path /\ g = Toward(y, k) THEN sub[tree.node[y][g]] \cup {k}
                      ELSE sub[tree.node[y][g]]
      <4>1. CASE y = p /\ g = Toward(p, k)
        <5>1. u.node[y][g] = k /\ tree.node[y][g] = nil /\ y \in path
                /\ g = Toward(y, k)
          BY <1>2, <1>6, <3>0, <4>1
        <5>2. sub[nil] = {}
          BY <1>5 DEF Shape
        <5> QED BY <1>6, <1>8, <4>1, <5>1, <5>2
      <4>2. CASE ~(y = p /\ g = Toward(p, k))
        <5>1. u.node[y][g] = tree.node[y][g]
          BY <1>6, <3>0, <4>2
        <5>2. low[tree.node[y][g]] = IF tree.node[y][g] \in path THEN sub[tree.node[y][g]] \cup {k}
                                     ELSE sub[tree.node[y][g]]
          BY <1>8, <3>1
        <5>3. tree.node[y][g] \in path <=> y \in path /\ g = Toward(y, k)
          BY <1>2, <1>10, <3>0, <4>2
        <5>4. u.node[y][g] # nil => u.node[u.node[y][g]].parent = y
          BY <1>6, <3>1, <5>1
        <5> QED BY <1>6, <3>1, <5>1, <5>2, <5>3, <5>4
      <4> QED BY <4>1, <4>2
    <3>4. \A z \in Nodes(u) : z \in low[y] <=> \/ z = y
                                \/ \E g \in Sides : z \in low[u.node[y][g]]
      <4>1. ASSUME NEW z \in N
            PROVE  z \in low[y] <=> \/ z = y
                                         \/ \E g \in Sides : z \in low[u.node[y][g]]
        <5>1. z # k /\ (z \in low[y] <=> z \in sub[y])
          BY <1>4, <1>8, <3>0
        <5>2. \A g \in Sides : z \in low[u.node[y][g]]
                <=> z \in sub[tree.node[y][g]]
          BY <3>3, <5>1
        <5> QED BY <3>1, <5>1, <5>2
      <4>2. k \in low[y] <=> \/ k = y \/ \E g \in Sides : k \in low[u.node[y][g]]
        <5>1. \A x \in D : k \notin sub[x]
          BY DEF Shape
        <5>2. k \in low[y] <=> y \in path
          BY <1>8, <3>0, <5>1
        <5>3. \A g \in Sides : k \in low[u.node[y][g]] <=> y \in path
                /\ g = Toward(y, k)
          BY <3>1, <3>3, <5>1
        <5> QED BY <1>9, <2>2, <5>2, <5>3
      <4> QED BY <1>7, <4>1, <4>2
    <3>5. ASSUME NEW g \in Sides, NEW z \in Nodes(u), z \in low[u.node[y][g]]
          PROVE  Beyond(g, y, z)
      <4>1. CASE z = k
        <5>1. k \notin sub[tree.node[y][g]]
          BY <3>1 DEF Shape
        <5>2. y \in path /\ g = Toward(y, k)
          BY <3>3, <3>5, <4>1, <5>1
        <5> QED BY <1>9, <4>1, <5>2
      <4>2. CASE z # k
        <5>1. z \in N /\ z \in sub[tree.node[y][g]]
          <6>1. low[u.node[y][g]] \subseteq sub[tree.node[y][g]] \cup {k}
            BY <3>3
          <6> QED BY <1>7, <3>5, <4>2, <6>1
        <5> QED BY <3>1, <5>1
      <4> QED BY <4>1, <4>2
    <3> QED BY <3>2, <3>3, <3>4, <3>5
  <2> QED BY <2>1, <2>2
<1>16. Shape(u, low)
  BY <1>11, <1>12, <1>13, <1>14, <1>15 DEF Shape
<1> QED BY <1>7, <1>16 DEF low

-----------------------------------------------------------------------------
(* A node with one child, or none, goes.                                   *)

(* The tree u is t without its node z, whose only child is c.              *)
UnlinkedTo(t, u, z, c) ==
  LET up == t.node[z].parent
  IN  /\ IsTree(u) /\ DOMAIN u.node = DOMAIN t.node \ {z}
      /\ u.root = IF up = nil THEN c ELSE t.root
      /\ \A y \in DOMAIN t.node \ {z} :
           /\ u.node[y].red = t.node[y].red /\ u.node[y].value = t.node[y].value
           /\ u.node[y].parent = IF y = c
                /\ c # nil THEN up ELSE t.node[y].parent
           /\ \A g \in Sides :
                u.node[y][g] = IF up # nil /\ y = up
                  /\ g = SideOf(t, z, up) THEN c
                               ELSE t.node[y][g]

CutTo(t, u, z) ==
  /\ IsTree(u) /\ u.root = t.root /\ DOMAIN u.node = DOMAIN t.node \ {z}
  /\ \A y \in DOMAIN t.node \ {z} : u.node[y] = t.node[y]

LEMMA IsCut ==
  ASSUME NEW t, IsTree(t), NEW z
  PROVE  CutTo(t, [t EXCEPT !.node = [y \in DOMAIN @ \ {z} |-> @[y]]], z)
<1> DEFINE M == [y \in DOMAIN t.node \ {z} |-> t.node[y]]
           u == [t EXCEPT !.node = [y \in DOMAIN @ \ {z} |-> @[y]]]
<1>1. u = [root |-> t.root, node |-> M]
  BY DEF IsTree
<1>2. DOMAIN M = DOMAIN t.node \ {z} /\ \A y \in DOMAIN M : M[y] = t.node[y]
  OBVIOUS
<1>3. M = [y \in DOMAIN M |-> M[y]]
  OBVIOUS
<1> HIDE DEF M, u
<1>4. u.root = t.root /\ u.node = M
  BY <1>1
<1>5. IsTree(u)
  BY <1>1, <1>2, <1>3, <1>4 DEF IsTree
<1> QED BY <1>2, <1>4, <1>5 DEF u, CutTo

LEMMA Unlinked ==
  ASSUME NEW t, IsTree(t), NEW z \in DOMAIN t.node, NEW c \in DOMAIN t.node,
         t.node[z].parent \in DOMAIN t.node
  PROVE  UnlinkedTo(t, Unlink(t, z, c), z, c)
<1> DEFINE up == t.node[z].parent
           a == TellParent(t, c, up)
           b == Replace(a, up, z, c)
           u == [b EXCEPT !.node = [y \in DOMAIN @ \ {z} |-> @[y]]]
           D == DOMAIN t.node
<1>1. Unlink(t, z, c) = u
  BY DEF Unlink
<1>2. ParentToldTo(t, a, c, up)
  BY ParentTold
<1>3. IsTree(a) /\ DOMAIN a.node = D
  BY <1>2 DEF ParentToldTo, SameNodes
<1> HIDE DEF a
<1>4. ReplacedBy(a, b, up, z, c)
  BY <1>3, IsReplaced
<1>5. IsTree(b) /\ DOMAIN b.node = D
  BY <1>3, <1>4 DEF ReplacedBy, SameNodes
<1> HIDE DEF b
<1>6. /\ IsTree(u) /\ u.root = b.root /\ DOMAIN u.node = D \ {z}
      /\ \A y \in D \ {z} : u.node[y] = b.node[y]
  <2>1. CutTo(b, u, z)
    BY <1>5, IsCut
  <2> HIDE DEF u
  <2> QED BY <1>5, <2>1 DEF CutTo
<1> HIDE DEF u
<1>7. SideOf(a, z, up) = SideOf(t, z, up)
  <2>1. a.node[up].left = t.node[up].left
    BY <1>2 DEF ParentToldTo, Sides
  <2> QED BY <2>1 DEF SideOf
<1>8. \A y \in D :
        /\ a.node[y].red = t.node[y].red /\ a.node[y].value = t.node[y].value
        /\ a.node[y].parent = IF y = c /\ c # nil THEN up ELSE t.node[y].parent
        /\ \A g \in Sides : a.node[y][g] = t.node[y][g]
  BY <1>2 DEF ParentToldTo, SameNodes, SameColours
<1>9. \A y \in D :
        /\ b.node[y].red = a.node[y].red /\ b.node[y].value = a.node[y].value
        /\ b.node[y].parent = a.node[y].parent
        /\ \A g \in Sides :
             b.node[y][g] = IF up # nil /\ y = up /\ g = SideOf(a, z, up) THEN c
                            ELSE a.node[y][g]
  BY <1>3, <1>4 DEF ReplacedBy, SameNodes, SameColours
<1>10. a.root = t.root /\ b.root = IF up = nil THEN c ELSE a.root
  BY <1>2, <1>4 DEF ParentToldTo, ReplacedBy
<1> QED BY <1>1, <1>6, <1>7, <1>8, <1>9, <1>10 DEF UnlinkedTo

UnlinkedSub(t, sub, z) == [y \in DOMAIN t.node \ {z} |-> sub[y] \ {z}]

LEMMA UnlinkedShape ==
  ASSUME NEW t, NEW sub, Shape(t, sub), NEW z \in Nodes(t), NEW e \in Sides,
         t.node[z][e] = nil,
         NEW u, UnlinkedTo(t, u, z, t.node[z][Opposite(e)])
  PROVE  /\ Shape(u, UnlinkedSub(t, sub, z)) /\ Nodes(u) = Nodes(t) \ {z}
         /\ DOMAIN u.node = DOMAIN t.node \ {z}
<1> DEFINE D == DOMAIN t.node
           N == Nodes(t)
           o == Opposite(e)
           c == t.node[z][o]
           up == t.node[z].parent
           low == UnlinkedSub(t, sub, z)
<1>1. o \in Sides /\ o # e
  BY SidesAre
<1>2. /\ IsTree(u) /\ DOMAIN u.node = D \ {z}
      /\ u.root = IF up = nil THEN c ELSE t.root
      /\ \A y \in D \ {z} :
           /\ u.node[y].red = t.node[y].red /\ u.node[y].value = t.node[y].value
           /\ u.node[y].parent = IF y = c
                /\ c # nil THEN up ELSE t.node[y].parent
           /\ \A g \in Sides :
                u.node[y][g] = IF up # nil /\ y = up
                  /\ g = SideOf(t, z, up) THEN c
                               ELSE t.node[y][g]
  BY DEF UnlinkedTo
<1>3. Nodes(u) = N \ {z}
  BY <1>2 DEF Nodes
<1>4. /\ c \in D /\ c # z
      /\ c # nil => c \in N /\ t.node[c].parent = z /\ c # t.root
      /\ z \in D /\ z # nil /\ nil \in D /\ nil \notin N
      /\ \A y \in N : y \in D /\ y # nil
  <2>1. /\ c \in D /\ (c # nil => c \in N /\ t.node[c].parent = z /\ c # t.root /\ c # z)
    BY <1>1, ChildIs
  <2>2. /\ z \in D /\ z # nil /\ nil \in D /\ nil \notin N
        /\ \A y \in N : y \in D /\ y # nil
    BY DEF Nodes, Shape
  <2> QED BY <2>1, <2>2
<1>5. /\ up \in D /\ up # z
      /\ z = t.root <=> up = nil
      /\ up # nil =>
           /\ up \in N /\ SideOf(t, z, up) \in Sides
           /\ t.node[up][SideOf(t, z, up)] = z
  BY ParentIs
<1>6. \A y \in D \ {z} : low[y] = sub[y] \ {z}
  BY DEF UnlinkedSub
<1> HIDE DEF low
<1>7. \A y \in N : y \in sub[z] <=> y = z \/ y \in sub[c]
  <2>1. \A y \in N : y \in sub[z] <=> y = z
          \/ \E g \in Sides : y \in sub[t.node[z][g]]
    BY DEF Shape
  <2>2. \A y \in N : y \notin sub[nil]
    BY DEF Shape
  <2> QED BY <1>1, <2>1, <2>2, SidesAre
<1>8. u.node[nil] = Nil
  <2>1. t.node[nil] = Nil /\ IsNode(Nil) /\ IsNode(u.node[nil])
          /\ nil \in D \ {z}
    BY <1>2, <1>4 DEF Shape, Nil, Fresh, IsNode, IsTree
  <2>2. u.node[nil].parent = Nil.parent /\ u.node[nil].red = Nil.red
        /\ u.node[nil].value = Nil.value
        /\ \A g \in Sides : u.node[nil][g] = t.node[nil][g]
    BY <1>2, <2>1
  <2>3. u.node[nil].left = Nil.left /\ u.node[nil].right = Nil.right
    BY <2>1, <2>2 DEF Sides
  <2> QED BY <2>1, <2>2, <2>3 DEF IsNode
<1>9. /\ u.root \in D \ {z} /\ u.node[u.root].parent = nil
      /\ \A y \in N \ {z} : y \notin low[nil] /\ y \in low[u.root]
  <2>1. \A y \in N \ {z} : y \notin low[nil]
    BY <1>4, <1>6 DEF Shape
  <2>2. CASE up = nil
    <3>1. u.root = c /\ z = t.root
      BY <1>2, <1>5, <2>2
    <3>2. u.node[c].parent = nil
      BY <1>2, <1>4, <1>8, <2>2 DEF Nil, Fresh
    <3>3. \A y \in N : y \in sub[z]
      BY <3>1 DEF Shape
    <3> QED BY <1>4, <1>6, <1>7, <2>1, <3>1, <3>2, <3>3
  <2>3. CASE up # nil
    <3>1. u.root = t.root /\ t.root # z /\ t.root \in D
            /\ (c # nil => t.root # c)
      BY <1>2, <1>4, <1>5, <2>3 DEF Shape
    <3>2. \A y \in N : y \in sub[t.root]
      BY DEF Shape
    <3>3. u.node[t.root].parent = nil
      BY <1>2, <3>1 DEF Shape
    <3> QED BY <1>6, <2>1, <3>1, <3>2, <3>3
  <2> QED BY <2>2, <2>3
<1>10. /\ IsTree(u) /\ nil \in DOMAIN u.node /\ Nodes(u) \subseteq Keys
       /\ \A y \in DOMAIN u.node : low[y] \subseteq Nodes(u)
  BY <1>2, <1>3, <1>4, <1>6 DEF Shape
<1>11. ASSUME NEW y \in N, y # z, NEW g \in Sides
       PROVE  /\ u.node[y][g] \in D \ {z}
              /\ u.node[y][g] # nil => u.node[u.node[y][g]].parent = y
              /\ low[u.node[y][g]] = sub[t.node[y][g]] \ {z}
  <2>1. t.node[y][g] \in D /\ (t.node[y][g] # nil => t.node[t.node[y][g]].parent = y)
    BY DEF Shape
  <2>2. CASE up # nil /\ y = up /\ g = SideOf(t, z, up)
    <3>1. u.node[y][g] = c /\ t.node[y][g] = z
      BY <1>2, <1>4, <1>5, <1>11, <2>2
    <3>2. low[c] = sub[c] \ {z}
      BY <1>4, <1>6
    <3>3. sub[c] \subseteq N /\ sub[z] \subseteq N
      BY <1>4 DEF Shape
    <3>4. sub[c] \ {z} = sub[z] \ {z}
      BY <1>7, <3>3
    <3>5. c # nil => u.node[c].parent = up
      BY <1>2, <1>4
    <3> QED BY <1>4, <2>2, <3>1, <3>2, <3>4, <3>5
  <2>3. CASE ~(up # nil /\ y = up /\ g = SideOf(t, z, up))
    <3>1. u.node[y][g] = t.node[y][g]
      BY <1>2, <1>4, <1>11, <2>3
    <3>2. t.node[y][g] # z
      BY <1>4, <1>5, <1>11, <2>1, <2>3, SideIs
    <3>3. t.node[y][g] # c \/ c = nil
      BY <1>4, <1>11, <2>1
    <3> QED BY <1>2, <1>6, <2>1, <3>1, <3>2, <3>3
  <2> QED BY <2>2, <2>3
<1>12. ASSUME NEW y \in Nodes(u)
       PROVE  /\ y # u.root => /\ u.node[y].parent \in Nodes(u)
                               /\ \E g \in Sides : u.node[u.node[y].parent][g] = y
              /\ \A w \in Nodes(u) : w \in low[y] <=> \/ w = y
                                \/ \E g \in Sides : w \in low[u.node[y][g]]
              /\ \A g \in Sides :
                   /\ u.node[y][g] \in DOMAIN u.node
                   /\ u.node[y][g] # nil => u.node[u.node[y][g]].parent = y
                   /\ \A w \in Nodes(u) : w \in low[u.node[y][g]]
                        => Beyond(g, y, w)
  <2>0. y \in N /\ y # z /\ y \in D
    BY <1>3, <1>4
  <2>1. ASSUME y # u.root
        PROVE  u.node[y].parent \in Nodes(u)
                 /\ \E g \in Sides : u.node[u.node[y].parent][g] = y
    <3>1. CASE y = c
      <4>1. up # nil
        BY <1>2, <2>1, <3>1
      <4>2. u.node[y].parent = up /\ u.node[up][SideOf(t, z, up)] = c
        BY <1>2, <1>4, <1>5, <2>0, <3>1, <4>1
      <4> QED BY <1>3, <1>5, <3>1, <4>1, <4>2
    <3>2. CASE y # c
      <4>1. u.node[y].parent = t.node[y].parent
        BY <1>2, <2>0, <3>2
      <4>2. y # t.root
        BY <1>2, <1>5, <2>0, <2>1
      <4>3. t.node[y].parent \in N
        BY <2>0, <4>2 DEF Shape
      <4>4. PICK g \in Sides : t.node[t.node[y].parent][g] = y
        BY <2>0, <4>2 DEF Shape
      <4>5. t.node[y].parent # z
        <5>1. t.node[y].parent = z => y = c \/ y = nil
          BY <1>1, <4>4, SidesAre
        <5> QED BY <1>4, <2>0, <3>2, <5>1
      <4>6. u.node[t.node[y].parent][g] = y
        BY <1>2, <1>4, <1>5, <2>0, <4>3, <4>4, <4>5
      <4> QED BY <1>3, <4>1, <4>3, <4>5, <4>6
    <3> QED BY <3>1, <3>2
  <2>2. ASSUME NEW w \in Nodes(u)
        PROVE  w \in low[y] <=> w = y \/ \E g \in Sides : w \in low[u.node[y][g]]
    <3>1. w \in N /\ w # z
      BY <1>3
    <3>2. w \in sub[y] <=> w = y \/ \E g \in Sides : w \in sub[t.node[y][g]]
      BY <2>0, <3>1 DEF Shape
    <3>3. w \in low[y] <=> w \in sub[y]
      BY <1>6, <2>0, <3>1
    <3>4. \A g \in Sides : w \in low[u.node[y][g]] <=> w \in sub[t.node[y][g]]
      BY <1>11, <2>0, <3>1
    <3> QED BY <3>2, <3>3, <3>4
  <2>3. ASSUME NEW g \in Sides, NEW w \in Nodes(u), w \in low[u.node[y][g]]
        PROVE  Beyond(g, y, w)
    <3>1. w \in N /\ w \in sub[t.node[y][g]]
      BY <1>3, <1>11, <2>0, <2>3
    <3> QED BY <2>0, <3>1 DEF Shape
  <2> QED BY <1>2, <1>11, <2>0, <2>1, <2>2, <2>3
<1>13. Shape(u, low)
  BY <1>2, <1>3, <1>8, <1>9, <1>10, <1>12 DEF Shape
<1> QED BY <1>2, <1>3, <1>13 DEF low

-----------------------------------------------------------------------------
(* A node takes the key of another.                                        *)

(* The key that a node had before the node of k became that of p, and the  *)
(* key that it has then.                                                   *)
Former(k, p, y) == IF y = p THEN k ELSE y
Renamed(k, p, x) == IF x = k THEN p ELSE x

RenamedTo(t, u, k, p, value) ==
  /\ IsTree(u) /\ DOMAIN u.node = (DOMAIN t.node \cup {p}) \ {k}
  /\ u.root = Renamed(k, p, t.root)
  /\ \A y \in (DOMAIN t.node \cup {p}) \ {k} :
       LET n == t.node[Former(k, p, y)]
       IN  /\ u.node[y].red = n.red
           /\ u.node[y].value = IF y = p THEN value ELSE n.value
           /\ u.node[y].parent = Renamed(k, p, n.parent)
           /\ \A g \in Sides : u.node[y][g] = Renamed(k, p, n[g])

LEMMA RenameIs ==
  ASSUME NEW t, IsTree(t), NEW k \in DOMAIN t.node, NEW p,
           p \notin DOMAIN t.node,
         NEW value
  PROVE  RenamedTo(t, Rename(t, k, p, value), k, p, value)
<1> DEFINE E == (DOMAIN t.node \cup {p}) \ {k}
           new(x) == IF x = k THEN p ELSE x
           moved(n, v) == [left |-> new(n.left), right |-> new(n.right),
                           parent |-> new(n.parent), red |-> n.red, value |-> v]
           at(y) == IF y = p THEN moved(t.node[k], value)
                    ELSE moved(t.node[y], t.node[y].value)
           M == [y \in E |-> at(y)]
           u == Rename(t, k, p, value)
<1>1. u = [root |-> new(t.root), node |-> M]
  BY DEF Rename
<1>3. ASSUME NEW y \in E
      PROVE  LET n == t.node[Former(k, p, y)]
             IN  at(y) = [left |-> new(n.left), right |-> new(n.right),
                          parent |-> new(n.parent), red |-> n.red,
                          value |-> IF y = p THEN value ELSE n.value]
  BY DEF Former
<1>4. DOMAIN M = E /\ \A y \in E : M[y] = at(y)
  OBVIOUS
<1>5. M = [y \in DOMAIN M |-> M[y]]
  OBVIOUS
<1> HIDE DEF M, at, new, u
<1>6. u.root = new(t.root) /\ u.node = M
  BY <1>1
<1>7. ASSUME NEW y \in E
      PROVE  LET n == t.node[Former(k, p, y)]
             IN  /\ IsNode(u.node[y])
                 /\ u.node[y].red = n.red
                 /\ u.node[y].value = IF y = p THEN value ELSE n.value
                 /\ u.node[y].parent = new(n.parent)
                 /\ u.node[y].left = new(n.left)
                      /\ u.node[y].right = new(n.right)
  <2> DEFINE n == t.node[Former(k, p, y)]
             a == IF y = p THEN value ELSE n.value
  <2>1. u.node[y] = [left |-> new(n.left), right |-> new(n.right),
                     parent |-> new(n.parent), red |-> n.red, value |-> a]
    BY <1>3, <1>4, <1>6
  <2> HIDE DEF n, a
  <2>2. /\ IsNode(u.node[y]) /\ u.node[y].red = n.red /\ u.node[y].value = a
        /\ u.node[y].parent = new(n.parent)
        /\ u.node[y].left = new(n.left) /\ u.node[y].right = new(n.right)
    BY <2>1 DEF IsNode
  <2> QED BY <2>2 DEF n, a
<1>8. IsTree(u)
  <2>1. \A y \in DOMAIN M : IsNode(M[y])
    BY <1>4, <1>6, <1>7
  <2> QED BY <1>1, <1>5, <1>6, <2>1 DEF IsTree
<1>9. \A x : new(x) = Renamed(k, p, x)
  BY DEF new, Renamed
<1> HIDE DEF E
<1>10. \A y \in E :
       LET n == t.node[Former(k, p, y)]
       IN  /\ u.node[y].red = n.red
           /\ u.node[y].value = IF y = p THEN value ELSE n.value
           /\ u.node[y].parent = Renamed(k, p, n.parent)
           /\ \A g \in Sides : u.node[y][g] = Renamed(k, p, n[g])
  BY <1>7, <1>9 DEF Sides
<1>11. DOMAIN u.node = E /\ u.root = Renamed(k, p, t.root)
  BY <1>4, <1>6, <1>9
<1> QED BY <1>8, <1>10, <1>11 DEF RenamedTo, u, E

RenamedSub(t, sub, k, p) ==
  [y \in (DOMAIN t.node \cup {p}) \ {k} |->
     {z \in (Nodes(t) \cup {p}) \ {k} : Former(k, p, z) \in sub[Former(k, p, y)]}]

(* It stays in order when no other key lies between the two.               *)
LEMMA RenamedShape ==
  ASSUME NEW t, NEW sub, Shape(t, sub), NEW k \in Nodes(t), NEW p \in Keys,
         p \notin Nodes(t), \A y \in Nodes(t) : y # k => (y < k <=> y < p),
         NEW value, NEW u, RenamedTo(t, u, k, p, value)
  PROVE  /\ Shape(u, RenamedSub(t, sub, k, p))
         /\ Nodes(u) = (Nodes(t) \cup {p}) \ {k}
         /\ DOMAIN u.node = (DOMAIN t.node \cup {p}) \ {k}
         /\ \A y \in DOMAIN u.node : Former(k, p, y) \in DOMAIN t.node
         /\ \A y \in Nodes(u) : Former(k, p, y) \in Nodes(t)
<1> DEFINE D == DOMAIN t.node
           N == Nodes(t)
           E == (D \cup {p}) \ {k}
           F == (N \cup {p}) \ {k}
           old(y) == Former(k, p, y)
           new(x) == Renamed(k, p, x)
           low == RenamedSub(t, sub, k, p)
<1>1. p \in Nat /\ p # nil /\ p \notin D /\ k \in N /\ k \in D /\ k # nil
        /\ p # k
  BY KeysAssumption, NodesNumbered DEF Nodes
<1>2. /\ nil \in D /\ nil \notin N /\ N \subseteq Keys
      /\ \A y \in N : y \in D /\ y # nil /\ y \in Nat
  BY NodesNumbered DEF Shape, Nodes
<1>3. /\ \A y \in E : old(y) \in D /\ new(old(y)) = y
           /\ (y \in F <=> old(y) \in N)
                      /\ (y # nil => y \in F)
      /\ \A x \in D : new(x) \in E /\ old(new(x)) = x
           /\ (x \in N <=> new(x) \in F)
      /\ \A y \in F : y \in E /\ old(y) \in N
      /\ \A x \in N : new(x) \in F /\ new(x) # nil
      /\ old(nil) = nil /\ new(nil) = nil /\ nil \in E /\ nil \notin F
      /\ \A x \in D : new(x) = nil => x = nil
  BY <1>1, <1>2 DEF Former, Renamed, Nodes
<1>4. /\ IsTree(u) /\ DOMAIN u.node = E
      /\ u.root = new(t.root)
      /\ \A y \in E :
           LET n == t.node[old(y)]
           IN  /\ u.node[y].red = n.red
               /\ u.node[y].value = IF y = p THEN value ELSE n.value
               /\ u.node[y].parent = new(n.parent)
               /\ \A g \in Sides : u.node[y][g] = new(n[g])
  BY DEF RenamedTo
<1>5. Nodes(u) = F
  BY <1>1, <1>2, <1>4 DEF Nodes
<1>6. ASSUME NEW y \in E, NEW z \in F
      PROVE  z \in low[y] <=> old(z) \in sub[old(y)]
  BY DEF RenamedSub
<1>7. \A y \in E : low[y] \subseteq F
  BY DEF RenamedSub
<1>8. ASSUME NEW y \in N, NEW z \in N, NEW g \in Sides, Beyond(g, y, z)
      PROVE  Beyond(g, new(y), new(z))
  <2>1. y \in Nat /\ z \in Nat /\ k \in Nat /\ p \in Nat /\ y # z
    BY <1>1, <1>2, <1>8, BeyondIs
  <2>2. CASE y = k
    <3>1. new(y) = p /\ new(z) = z /\ (z < k <=> z < p) /\ z # p
      BY <1>1, <2>1, <2>2 DEF Renamed
    <3> QED BY <1>8, <2>1, <2>2, <3>1 DEF Beyond
  <2>3. CASE z = k
    <3>1. new(z) = p /\ new(y) = y /\ (y < k <=> y < p) /\ y # p
      BY <1>1, <2>1, <2>3 DEF Renamed
    <3> QED BY <1>8, <2>1, <2>3, <3>1 DEF Beyond
  <2>4. CASE y # k /\ z # k
    BY <1>8, <2>4 DEF Renamed
  <2> QED BY <2>2, <2>3, <2>4
<1> HIDE DEF low, old, new, E, F
<1>9. u.node[nil] = Nil
  <2>1. t.node[nil] = Nil /\ IsNode(Nil) /\ IsNode(u.node[nil])
    BY <1>3, <1>4 DEF Shape, Nil, Fresh, IsNode, IsTree
  <2>2. u.node[nil].parent = Nil.parent /\ u.node[nil].red = Nil.red
        /\ u.node[nil].value = Nil.value
        /\ \A g \in Sides : u.node[nil][g] = new(t.node[nil][g])
    <3>1. Nil.parent = nil /\ nil # p
      BY <1>1 DEF Nil, Fresh
    <3> QED BY <1>3, <1>4, <2>1, <3>1
  <2>3. u.node[nil].left = Nil.left /\ u.node[nil].right = Nil.right
    BY <1>3, <2>1, <2>2 DEF Sides, Nil, Fresh
  <2> QED BY <2>1, <2>2, <2>3 DEF IsNode
<1>10. /\ IsTree(u) /\ nil \in DOMAIN u.node
       /\ u.root \in DOMAIN u.node /\ u.node[u.root].parent = nil
  BY <1>3, <1>4 DEF Shape
<1>11. Nodes(u) \subseteq Keys
  BY <1>2, <1>5 DEF F
<1>12. ASSUME NEW y \in F
       PROVE  y \notin low[nil] /\ y \in low[u.root]
  <2>1. old(y) \in N /\ old(y) \notin sub[nil] /\ old(y) \in sub[t.root]
          /\ t.root \in D
    BY <1>3 DEF Shape
  <2>2. u.root \in E /\ old(u.root) = t.root
    BY <1>3, <1>4, <2>1
  <2> QED BY <1>3, <1>6, <2>1, <2>2
<1>13. ASSUME NEW y \in F
       PROVE  /\ y # u.root => /\ u.node[y].parent \in F
                               /\ \E g \in Sides : u.node[u.node[y].parent][g] = y
              /\ \A z \in F : z \in low[y] <=> \/ z = y
                                \/ \E g \in Sides : z \in low[u.node[y][g]]
              /\ \A g \in Sides :
                   /\ u.node[y][g] \in E
                   /\ u.node[y][g] # nil => u.node[u.node[y][g]].parent = y
                   /\ \A z \in F : z \in low[u.node[y][g]] => Beyond(g, y, z)
  <2> DEFINE x == old(y)
  <2>1. x \in N /\ x \in D /\ y \in E /\ new(x) = y
    BY <1>2, <1>3
  <2>2. /\ x # t.root => /\ t.node[x].parent \in N
                         /\ \E s \in Sides : t.node[t.node[x].parent][s] = x
        /\ \A w \in N : w \in sub[x] <=> w = x
             \/ \E s \in Sides : w \in sub[t.node[x][s]]
        /\ \A s \in Sides :
            /\ t.node[x][s] \in D
            /\ t.node[x][s] # nil => t.node[t.node[x][s]].parent = x
            /\ \A w \in N : w \in sub[t.node[x][s]] => Beyond(s, x, w)
    BY <2>1 DEF Shape
  <2>3. /\ u.node[y].parent = new(t.node[x].parent)
        /\ \A g \in Sides : u.node[y][g] = new(t.node[x][g])
    BY <1>4, <2>1
  <2> HIDE DEF x
  <2>4. ASSUME y # u.root
        PROVE  u.node[y].parent \in F /\ \E g \in Sides : u.node[u.node[y].parent][g] = y
    <3>1. x # t.root
      BY <1>4, <2>1, <2>4
    <3>2. PICK s \in Sides : t.node[t.node[x].parent][s] = x
      BY <2>2, <3>1
    <3> DEFINE up == t.node[x].parent
    <3>3. up \in N /\ up \in D /\ new(up) \in F /\ new(up) \in E
            /\ old(new(up)) = up
      BY <1>2, <1>3, <2>2, <3>1
    <3>4. u.node[new(up)][s] = new(t.node[up][s])
      BY <1>4, <3>3
    <3> QED BY <2>1, <2>3, <3>2, <3>3, <3>4
  <2>5. ASSUME NEW g \in Sides
        PROVE  /\ u.node[y][g] \in E
               /\ u.node[y][g] # nil => u.node[u.node[y][g]].parent = y
               /\ \A z \in F : z \in low[u.node[y][g]]
                    <=> old(z) \in sub[t.node[x][g]]
    <3> DEFINE c == t.node[x][g]
    <3>1. c \in D /\ new(c) \in E /\ old(new(c)) = c /\ u.node[y][g] = new(c)
      BY <1>3, <2>2, <2>3
    <3>2. \A z \in F : z \in low[new(c)] <=> old(z) \in sub[c]
      BY <1>6, <3>1
    <3>3. new(c) # nil => u.node[new(c)].parent = y
      <4>1. u.node[new(c)].parent = new(t.node[c].parent)
        BY <1>4, <3>1
      <4> QED BY <1>3, <2>1, <2>2, <4>1
    <3> QED BY <3>1, <3>2, <3>3
  <2>6. ASSUME NEW z \in F
        PROVE  z \in low[y] <=> z = y \/ \E g \in Sides : z \in low[u.node[y][g]]
    <3>1. old(z) \in N /\ (z \in low[y] <=> old(z) \in sub[x])
            /\ new(old(z)) = z
      BY <1>3, <1>6, <2>1 DEF x
    <3>2. old(z) = x <=> z = y
      BY <2>1, <3>1 DEF x
    <3>3. old(z) \in sub[x] <=> old(z) = x
            \/ \E s \in Sides : old(z) \in sub[t.node[x][s]]
      BY <2>2, <3>1
    <3> QED BY <2>5, <3>1, <3>2, <3>3
  <2>7. ASSUME NEW g \in Sides, NEW z \in F, z \in low[u.node[y][g]]
        PROVE  Beyond(g, y, z)
    <3>1. old(z) \in N /\ old(z) \in sub[t.node[x][g]] /\ new(old(z)) = z
      BY <1>3, <2>5, <2>7
    <3>2. Beyond(g, x, old(z))
      BY <2>2, <3>1
    <3>3. Beyond(g, new(x), new(old(z)))
      BY <1>8, <2>1, <3>1, <3>2
    <3> QED BY <2>1, <3>1, <3>3
  <2> QED BY <2>4, <2>5, <2>6, <2>7
<1>14. Shape(u, low)
  BY <1>4, <1>5, <1>7, <1>9, <1>10, <1>11, <1>12, <1>13 DEF Shape
<1> QED BY <1>3, <1>4, <1>5, <1>14 DEF low, old, E, F

-----------------------------------------------------------------------------
(* Black heights.                                                          *)

Black(t, x) == IF IsRed(t, x) THEN 0 ELSE 1

(* The edge that is short of a black node counts for one.                  *)
Debt(q, d, x, s) == IF x = q /\ s = d THEN 1 ELSE 0

(* h[x] is the number of black nodes on each path from x to a nil.         *)
Even(t, h, q, d, x) ==
  \A s \in Sides : h[x] = h[t.node[x][s]] + Black(t, x) + Debt(q, d, x, s)

HeightsBut(t, h, q, d, X) ==
  /\ h[nil] = 0
  /\ \A x \in DOMAIN t.node : h[x] \in Nat
  /\ \A x \in Nodes(t) \ X : Even(t, h, q, d, x)

Tree(t, sub, h, q, d) ==
  Shape(t, sub) /\ d \in Sides /\ HeightsBut(t, h, q, d, {})

(* A red node below a red one.                                             *)
Clash(t, y) == IsRed(t, y) /\ IsRed(t, t.node[y].parent)
ClashOnly(t, X) == \A y \in Nodes(t) : Clash(t, y) => y \in X

ColoursPainted(t, u, blacks, reds) ==
  \A y \in DOMAIN t.node :
    /\ y \in reds => IsRed(u, y)
    /\ y \in blacks /\ y \notin reds => ~IsRed(u, y)
    /\ y \notin blacks /\ y \notin reds => (IsRed(u, y) <=> IsRed(t, y))

LEMMA PaintColours ==
  ASSUME NEW t, IsTree(t), NEW blacks, NEW reds
  PROVE  ColoursPainted(t, Paint(t, blacks, reds), blacks, reds)
<1> DEFINE u == Paint(t, blacks, reds)
<1>1. PaintedTo(t, u, blacks, reds)
  BY Painted
<1> HIDE DEF u
<1>2. ASSUME NEW y \in DOMAIN t.node
      PROVE  u.node[y].red = IF y \in blacks \cup reds THEN y \in reds ELSE t.node[y].red
  BY <1>1, Zenon DEF PaintedTo
<1>3. ASSUME NEW y \in DOMAIN t.node
      PROVE  /\ y \in reds => u.node[y].red
             /\ y \in blacks /\ y \notin reds => ~u.node[y].red
             /\ y \notin blacks /\ y \notin reds
                  => (u.node[y].red <=> t.node[y].red)
  <2>1. CASE y \in reds
    <3>1. y \in blacks \cup reds
      BY <2>1
    <3>2. u.node[y].red = (y \in reds)
      BY <1>2, <3>1, Zenon
    <3> QED BY <2>1, <3>2, Zenon
  <2>2. CASE y \notin reds /\ y \in blacks
    <3>1. y \in blacks \cup reds
      BY <2>2
    <3>2. u.node[y].red = (y \in reds)
      BY <1>2, <3>1, Zenon
    <3> QED BY <2>2, <3>2, Zenon
  <2>3. CASE y \notin reds /\ y \notin blacks
    <3>1. y \notin blacks \cup reds
      BY <2>3
    <3>2. u.node[y].red = t.node[y].red
      BY <1>2, <3>1, Zenon
    <3> QED BY <2>3, <3>2, Zenon
  <2> QED BY <2>1, <2>2, <2>3, Zenon
<1> QED BY <1>3, Zenon DEF u, ColoursPainted, IsRed

(* What painting leaves: the links.                                        *)
LEMMA PaintLinks ==
  ASSUME NEW t, IsTree(t), NEW blacks, NEW reds
  PROVE  LET u == Paint(t, blacks, reds)
         IN  /\ DOMAIN u.node = DOMAIN t.node /\ Nodes(u) = Nodes(t)
             /\ u.root = t.root
             /\ \A y \in DOMAIN t.node :
                  /\ u.node[y].parent = t.node[y].parent
                  /\ u.node[y].value = t.node[y].value
                  /\ \A s \in Sides : u.node[y][s] = t.node[y][s]
<1> DEFINE u == Paint(t, blacks, reds)
<1>1. PaintedTo(t, u, blacks, reds)
  BY Painted
<1> HIDE DEF u
<1>2. SameNodes(t, u) /\ SameLinks(t, u)
  BY <1>1, Zenon DEF PaintedTo
<1>3. /\ DOMAIN u.node = DOMAIN t.node /\ Nodes(u) = Nodes(t)
      /\ u.root = t.root
      /\ \A y \in DOMAIN t.node :
                  /\ u.node[y].parent = t.node[y].parent
                  /\ u.node[y].value = t.node[y].value
                  /\ \A s \in Sides : u.node[y][s] = t.node[y][s]
  BY <1>2 DEF SameNodes, SameLinks, Nodes
<1> QED BY <1>3 DEF u

LEMMA PaintHeights ==
  ASSUME NEW t, IsTree(t), NEW h, NEW q, NEW d, NEW X,
           HeightsBut(t, h, q, d, X),
         NEW blacks, NEW reds, \A y \in blacks \cup reds : y \in X \/ y = nil
  PROVE  HeightsBut(Paint(t, blacks, reds), h, q, d, X)
<1> DEFINE u == Paint(t, blacks, reds)
<1>1. /\ DOMAIN u.node = DOMAIN t.node /\ Nodes(u) = Nodes(t)
      /\ \A y \in DOMAIN t.node : \A s \in Sides : u.node[y][s] = t.node[y][s]
  BY PaintLinks
<1>2. ColoursPainted(t, u, blacks, reds)
  BY PaintColours
<1> HIDE DEF u
<1>3. ASSUME NEW x \in Nodes(t) \ X
      PROVE  Even(u, h, q, d, x)
  <2>1. x \in DOMAIN t.node /\ x \notin blacks /\ x \notin reds
    BY DEF Nodes
  <2>2. Black(u, x) = Black(t, x)
    BY <1>2, <2>1 DEF ColoursPainted, Black
  <2>3. Even(t, h, q, d, x)
    BY DEF HeightsBut
  <2> QED BY <1>1, <2>1, <2>2, <2>3 DEF Even
<1>4. HeightsBut(u, h, q, d, X)
  BY <1>1, <1>3 DEF HeightsBut
<1> QED BY <1>4 DEF u

(* After a turn the child stands where x stood.                            *)
Lifted(t, h, x, child, v) ==
  [y \in DOMAIN t.node |->
     IF y = child THEN h[x] ELSE IF y = x THEN v ELSE h[y]]

(* What u is after x was turned to the side s of t, below its child, which *)
(* stands below up then; the inner node changed sides.                     *)
TurnedTo(t, u, x, s, child, inner, up) ==
  /\ DOMAIN u.node = DOMAIN t.node /\ Nodes(u) = Nodes(t)
  /\ child \in Nodes(t) /\ child # x
  /\ u.root = IF up = nil THEN child ELSE t.root
  /\ \A y \in DOMAIN t.node :
       /\ IsRed(u, y) <=> IsRed(t, y)
       /\ u.node[y].value = t.node[y].value
       /\ u.node[y].parent =
            IF y = inner /\ inner # nil THEN x
            ELSE IF y = x THEN child ELSE IF y = child THEN up
            ELSE t.node[y].parent
  /\ u.node[x][s] = t.node[x][s] /\ u.node[x][Opposite(s)] = inner
  /\ u.node[child][s] = x
  /\ u.node[child][Opposite(s)] = t.node[child][Opposite(s)]
  /\ inner \in DOMAIN t.node /\ t.node[child][Opposite(s)] \in DOMAIN t.node
  /\ t.node[x][s] \in DOMAIN t.node
  /\ inner \notin {x, child} /\ t.node[child][Opposite(s)] \notin {x, child}
  /\ t.node[x][s] \notin {x, child}
  /\ up # nil => u.node[up][SideOf(t, x, up)] = child
  /\ \A y \in Nodes(t) \ {x, child}, g \in Sides :
       u.node[y][g] = IF up # nil /\ y = up /\ g = SideOf(t, x, up) THEN child
                      ELSE t.node[y][g]

LEMMA TurnIs ==
  ASSUME NEW t, NEW sub, Shape(t, sub), NEW x \in Nodes(t), NEW s \in Sides,
         t.node[x][Opposite(s)] # nil,
         NEW child, child = t.node[x][Opposite(s)],
         NEW inner, inner = t.node[child][s], NEW up, up = t.node[x].parent
  PROVE  TurnedTo(t, Rotate(t, x, s), x, s, child, inner, up)
<1> DEFINE o == Opposite(s)
           outer == t.node[child][o]
           far == t.node[x][s]
           u == Rotate(t, x, s)
<1>0. o \in Sides /\ o # s
  BY SidesAre
<1>1. /\ Rotated(t, u, x, s)
      /\ child \in Nodes(t) /\ child # x
      /\ inner \in DOMAIN t.node /\ inner # x /\ inner # child
      /\ outer \in DOMAIN t.node /\ outer # x /\ outer # child
      /\ far \in DOMAIN t.node /\ far # x /\ far # child
      /\ up \in DOMAIN t.node /\ up # x /\ up # child
  BY RotationOf
<1> HIDE DEF u
<1>2. /\ SameNodes(t, u) /\ SameColours(t, u)
      /\ u.root = IF up = nil THEN child ELSE t.root
      /\ \A y \in DOMAIN t.node :
           /\ u.node[y].parent =
                IF y = inner /\ inner # nil THEN x
                ELSE IF y = x THEN child ELSE IF y = child THEN up
                ELSE t.node[y].parent
           /\ \A g \in Sides :
                u.node[y][g] =
                  IF y = x /\ g = o THEN inner
                  ELSE IF y = child /\ g = s THEN x
                  ELSE IF up # nil /\ y = up /\ g = SideOf(t, x, up) THEN child
                  ELSE t.node[y][g]
  <2>1. /\ SameNodes(t, u) /\ SameColours(t, u)
        /\ u.root = IF up = nil THEN child ELSE t.root
    BY <1>1 DEF Rotated
  <2>2. ASSUME NEW y \in DOMAIN t.node
        PROVE  u.node[y].parent =
                 IF y = inner /\ inner # nil THEN x
                 ELSE IF y = x THEN child ELSE IF y = child THEN up
                 ELSE t.node[y].parent
    BY <1>1 DEF Rotated
  <2>3. ASSUME NEW y \in DOMAIN t.node, NEW g \in Sides
        PROVE  u.node[y][g] =
                 IF y = x /\ g = o THEN inner
                 ELSE IF y = child /\ g = s THEN x
                 ELSE IF up # nil /\ y = up /\ g = SideOf(t, x, up) THEN child
                 ELSE t.node[y][g]
    BY <1>1 DEF Rotated
  <2> QED BY <2>1, <2>2, <2>3
<1>3. /\ DOMAIN u.node = DOMAIN t.node /\ Nodes(u) = Nodes(t)
      /\ \A y \in DOMAIN t.node : u.node[y].value = t.node[y].value
  BY <1>2 DEF SameNodes, Nodes
<1>4. ASSUME NEW y \in DOMAIN t.node PROVE IsRed(u, y) <=> IsRed(t, y)
  BY <1>2, Zenon DEF SameColours, IsRed
<1>5. x \in DOMAIN t.node /\ child \in DOMAIN t.node
        /\ \A y \in Nodes(t) : y \in DOMAIN t.node
  BY <1>1 DEF Nodes
<1>6. up # nil => SideOf(t, x, up) \in Sides
  BY DEF SideOf, Sides
<1>7. /\ u.node[x][s] = far /\ u.node[x][o] = inner
      /\ u.node[child][s] = x /\ u.node[child][o] = outer
      /\ up # nil => u.node[up][SideOf(t, x, up)] = child
      /\ \A y \in Nodes(t) \ {x, child}, g \in Sides :
           u.node[y][g] = IF up # nil /\ y = up
             /\ g = SideOf(t, x, up) THEN child
                          ELSE t.node[y][g]
  <2>1. u.node[x][s] = far /\ u.node[x][o] = inner
    BY <1>0, <1>1, <1>2, <1>5
  <2>2. u.node[child][s] = x /\ u.node[child][o] = outer
    BY <1>0, <1>1, <1>2, <1>5
  <2>3. up # nil => u.node[up][SideOf(t, x, up)] = child
    BY <1>1, <1>2, <1>6
  <2>4. \A y \in Nodes(t) \ {x, child}, g \in Sides :
          u.node[y][g] = IF up # nil /\ y = up
            /\ g = SideOf(t, x, up) THEN child
                         ELSE t.node[y][g]
    BY <1>2, <1>5
  <2> QED BY <2>1, <2>2, <2>3, <2>4
<1>8. TurnedTo(t, u, x, s, child, inner, up)
  BY <1>1, <1>2, <1>3, <1>4, <1>7 DEF TurnedTo
<1> QED BY <1>8 DEF u

LEMMA TurnHeights ==
  ASSUME NEW t, NEW sub, Shape(t, sub), NEW x \in Nodes(t), NEW s \in Sides,
         t.node[x][Opposite(s)] # nil,
         NEW h, NEW q, NEW d, NEW X, HeightsBut(t, h, q, d, X),
         x \in X, t.node[x][Opposite(s)] \in X, NEW v \in Nat
  PROVE  HeightsBut(Rotate(t, x, s), Lifted(t, h, x, t.node[x][Opposite(s)], v), q, d, X)
<1> DEFINE child == t.node[x][Opposite(s)]
           up == t.node[x].parent
           u == Rotate(t, x, s)
           l == Lifted(t, h, x, child, v)
<1>1. TurnedTo(t, u, x, s, child, t.node[child][s], up)
  BY TurnIs
<1> HIDE DEF u
<1>2. /\ DOMAIN u.node = DOMAIN t.node /\ Nodes(u) = Nodes(t)
      /\ child \in Nodes(t) /\ child # x
      /\ \A y \in Nodes(t) \ {x, child}, g \in Sides :
           u.node[y][g] = IF up # nil /\ y = up
             /\ g = SideOf(t, x, up) THEN child
                          ELSE t.node[y][g]
      /\ \A y \in DOMAIN t.node : IsRed(u, y) <=> IsRed(t, y)
  BY <1>1 DEF TurnedTo
<1>3. /\ \A y \in DOMAIN t.node : l[y] = IF y = child THEN h[x] ELSE IF y = x THEN v ELSE h[y]
  BY DEF Lifted
<1> HIDE DEF l
<1>4. /\ x \in DOMAIN t.node /\ x # nil /\ child # nil /\ nil \in DOMAIN t.node
      /\ \A y \in Nodes(t) : y \in DOMAIN t.node
  BY <1>2 DEF Shape, Nodes
<1>5. l[nil] = 0 /\ \A y \in DOMAIN t.node : l[y] \in Nat
  BY <1>3, <1>4 DEF HeightsBut
<1>6. ASSUME NEW y \in Nodes(t) \ X
      PROVE  Even(u, l, q, d, y)
  <2>1. y \in DOMAIN t.node /\ y # x /\ y # child
    BY <1>4
  <2>2. Black(u, y) = Black(t, y)
    BY <1>2, <2>1 DEF Black
  <2>3. l[y] = h[y]
    BY <1>3, <2>1
  <2>4. ASSUME NEW g \in Sides
        PROVE  l[u.node[y][g]] = h[t.node[y][g]]
    <3>1. t.node[y][g] \in DOMAIN t.node
      BY ChildIs
    <3>2. CASE up # nil /\ y = up /\ g = SideOf(t, x, up)
      <4>1. t.node[y][g] = x /\ u.node[y][g] = child
        BY <1>2, <2>1, <3>2, ParentIs
      <4> QED BY <1>2, <1>3, <1>4, <4>1
    <3>3. CASE ~(up # nil /\ y = up /\ g = SideOf(t, x, up))
      <4>1. u.node[y][g] = t.node[y][g]
        BY <1>2, <2>1, <3>3
      <4>2. t.node[y][g] # x
        <5>1. t.node[y][g] = x => up = y /\ SideOf(t, x, up) = g
          BY <1>4, SideIs, ChildIs
        <5> QED BY <1>4, <3>3, <5>1 DEF Nodes
      <4>3. t.node[y][g] # child
        BY <1>4, <2>1, SideIs, SidesAre
      <4> QED BY <1>3, <3>1, <4>1, <4>2, <4>3
    <3> QED BY <3>2, <3>3
  <2>5. Even(t, h, q, d, y)
    BY DEF HeightsBut
  <2> QED BY <2>2, <2>3, <2>4, <2>5 DEF Even
<1>7. HeightsBut(u, l, q, d, X)
  BY <1>2, <1>5, <1>6 DEF HeightsBut
<1> QED BY <1>7 DEF u, l

(* A black node has a height.                                              *)
LEMMA HeightsAre ==
  ASSUME NEW t, NEW sub, NEW h, NEW q, NEW d, Tree(t, sub, h, q, d)
  PROVE  /\ h[nil] = 0 /\ ~IsRed(t, nil) /\ nil \in DOMAIN t.node
         /\ t.node[nil].parent = nil
         /\ \A x \in DOMAIN t.node : h[x] \in Nat
         /\ \A x : Black(t, x) \in 0..1 /\ (Black(t, x) = 0 <=> IsRed(t, x))
         /\ \A x \in Nodes(t) : x \in DOMAIN t.node /\ x # nil
         /\ \A x \in Nodes(t), s \in Sides :
              h[x] = h[t.node[x][s]] + Black(t, x) + Debt(q, d, x, s)
<1>1. ~IsRed(t, nil) /\ t.node[nil].parent = nil
  BY DEF Tree, Shape, Nil, Fresh, IsRed
<1> QED BY <1>1 DEF Tree, HeightsBut, Even, Black, Shape, Nodes

(* Heights of all nodes but those of X, and of these.                      *)
LEMMA AllEven ==
  ASSUME NEW t, NEW h, NEW q, NEW d, NEW X, HeightsBut(t, h, q, d, X),
         \A x \in X : Even(t, h, q, d, x)
  PROVE  HeightsBut(t, h, q, d, {})
BY DEF HeightsBut

(* Two heights are changed, of nodes whose parents are in X.               *)
Adjusted(t, h, x, v, y, w) ==
  [z \in DOMAIN t.node |-> IF z = x THEN v ELSE IF z = y THEN w ELSE h[z]]

LEMMA ChangeHeights ==
  ASSUME NEW t, NEW sub, Shape(t, sub), NEW h, NEW q, NEW d, NEW X,
         HeightsBut(t, h, q, d, X), NEW x \in Nodes(t), NEW v \in Nat, x \in X,
         t.node[x].parent = nil \/ t.node[x].parent \in X,
         NEW y \in Nodes(t), NEW w \in Nat, y \in X,
         t.node[y].parent = nil \/ t.node[y].parent \in X
  PROVE  HeightsBut(t, Adjusted(t, h, x, v, y, w), q, d, X)
<1> DEFINE l == Adjusted(t, h, x, v, y, w)
<1>1. \A z \in DOMAIN t.node : l[z] = IF z = x THEN v ELSE IF z = y THEN w ELSE h[z]
  BY DEF Adjusted
<1> HIDE DEF l
<1>2. /\ x # nil /\ y # nil /\ nil \in DOMAIN t.node
      /\ \A z \in Nodes(t) : z \in DOMAIN t.node /\ z # nil
  BY DEF Shape, Nodes
<1>3. ASSUME NEW z \in Nodes(t) \ X PROVE Even(t, l, q, d, z)
  <2>1. z # x /\ z # y /\ z \in DOMAIN t.node /\ l[z] = h[z]
    BY <1>1, <1>2
  <2>2. ASSUME NEW s \in Sides PROVE l[t.node[z][s]] = h[t.node[z][s]]
    <3>1. t.node[z][s] \in DOMAIN t.node
      BY ChildIs
    <3>2. t.node[z][s] # x /\ t.node[z][s] # y
      BY <1>2, ChildIs
    <3> QED BY <1>1, <3>1, <3>2
  <2>3. Even(t, h, q, d, z)
    BY DEF HeightsBut
  <2> QED BY <2>1, <2>2, <2>3 DEF Even
<1>4. l[nil] = 0 /\ \A z \in DOMAIN t.node : l[z] \in Nat
  BY <1>1, <1>2 DEF HeightsBut
<1>5. HeightsBut(t, l, q, d, X)
  BY <1>3, <1>4 DEF HeightsBut
<1> QED BY <1>5 DEF l

LEMMA ButMore ==
  ASSUME NEW t, NEW h, NEW q, NEW d, HeightsBut(t, h, q, d, {}), NEW X
  PROVE  HeightsBut(t, h, q, d, X)
BY DEF HeightsBut

-----------------------------------------------------------------------------
(* tmap_put_rebalance().                                                   *)

(* A tree with a red node x that may be below a red one.                   *)
Grown(t, sub, h, x) ==
  /\ Tree(t, sub, h, nil, "left")
  /\ x \in Nodes(t) /\ IsRed(t, x)
  /\ ClashOnly(t, {x})

UncleOf(t, x) ==
  LET p == t.node[x].parent
      g == t.node[p].parent
  IN  t.node[g][Opposite(SideOf(t, p, g))]

(* Of x, p above it, g above that, p on the side s, and w on the other.    *)
Kin(t, h, x, p, g, s, w) ==
  /\ x \in Nodes(t) /\ p \in Nodes(t) /\ g \in Nodes(t)
  /\ w \in DOMAIN t.node /\ s \in Sides
  /\ t.node[g][s] = p /\ t.node[g][Opposite(s)] = w
  /\ p # x /\ p # g /\ x # g /\ w # p /\ w # g /\ w # x
  /\ w # nil => w \in Nodes(t) /\ t.node[w].parent = g
  /\ ~IsRed(t, g)
  /\ \A z \in Sides : /\ t.node[p][z] \in DOMAIN t.node
                      /\ t.node[p][z] # x => ~IsRed(t, t.node[p][z])
                      /\ h[t.node[p][z]] = h[p]
  /\ \A z \in Sides : /\ t.node[x][z] \in DOMAIN t.node
                      /\ ~IsRed(t, t.node[x][z])
                      /\ h[t.node[x][z]] = h[p]
  /\ h[x] = h[p] /\ h[w] = h[p] /\ h[g] = h[p] + 1
  /\ \E z \in Sides : t.node[p][z] = x

LEMMA KinIs ==
  ASSUME NEW t, NEW sub, NEW h, NEW x, Grown(t, sub, h, x),
         IsRed(t, t.node[x].parent), t.node[t.node[x].parent].parent # nil
  PROVE  LET p == t.node[x].parent
             g == t.node[p].parent
         IN  Kin(t, h, x, p, g, SideOf(t, p, g), UncleOf(t, x))
<1> DEFINE p == t.node[x].parent
           g == t.node[p].parent
           s == SideOf(t, p, g)
           w == UncleOf(t, x)
<1>1. Tree(t, sub, h, nil, "left") /\ x \in Nodes(t) /\ IsRed(t, x)
        /\ Shape(t, sub)
  BY DEF Grown, Tree
<1>2. /\ h[nil] = 0 /\ ~IsRed(t, nil) /\ nil \in DOMAIN t.node
      /\ t.node[nil].parent = nil
      /\ \A z \in DOMAIN t.node : h[z] \in Nat
      /\ \A z : Black(t, z) \in 0..1 /\ (Black(t, z) = 0 <=> IsRed(t, z))
      /\ \A z \in Nodes(t) : z \in DOMAIN t.node /\ z # nil
      /\ \A z \in Nodes(t), e \in Sides : h[z] = h[t.node[z][e]] + Black(t, z)
  <2>1. \A z \in Nodes(t), e \in Sides : h[z] = h[t.node[z][e]] + Black(t, z) + Debt(nil, "left", z, e)
    BY <1>1, HeightsAre
  <2>2. \A z \in Nodes(t), e \in Sides :  h[z] = h[t.node[z][e]] + Black(t, z)
    <3> SUFFICES ASSUME NEW z \in Nodes(t), NEW e \in Sides
                 PROVE  h[z] = h[t.node[z][e]] + Black(t, z)
      OBVIOUS
    <3>1. Debt(nil, "left", z, e) = 0
      BY DEF Nodes, Debt
    <3>2. h[t.node[z][e]] \in Nat /\ Black(t, z) \in 0..1
      BY <1>1, ChildIs, HeightsAre
    <3> QED BY <2>1, <3>1, <3>2
  <2> QED BY <1>1, <2>2, HeightsAre
<1>3. p \in Nodes(t) /\ p # x /\ \E z \in Sides : t.node[p][z] = x
  <2>1. p # nil
    BY <1>2
  <2> QED BY <1>1, <2>1, ParentIs
<1>4. g \in Nodes(t) /\ g # p /\ s \in Sides /\ t.node[g][s] = p /\ p \in sub[g]
  <2>1. g # nil
    OBVIOUS
  <2>2. p \in sub[p]
    BY <1>1, <1>3 DEF Shape
  <2> QED BY <1>1, <1>3, <2>1, <2>2, ParentIs
<1>5. x # g
  <2>1. x \in sub[p] /\ x \in sub[x]
    BY <1>1, <1>3, ChildIs DEF Shape
  <2>2. g \notin sub[p]
    BY <1>1, <1>3, <1>4, ParentIs
  <2> QED BY <2>1, <2>2
<1>6. w = t.node[g][Opposite(s)] /\ Opposite(s) \in Sides
  BY <1>4, SidesAre DEF UncleOf
<1>7. /\ w \in DOMAIN t.node /\ w # p
      /\ w # nil => w \in Nodes(t) /\ t.node[w].parent = g /\ w # g
  <2> DEFINE o == Opposite(s)
  <2>1. o \in Sides /\ Opposite(o) = s
    BY <1>4, SidesAre
  <2> HIDE DEF o
  <2>2. /\ t.node[g][o] \in DOMAIN t.node
        /\ t.node[g][o] # nil => /\ t.node[g][o] \in Nodes(t)
             /\ t.node[t.node[g][o]].parent = g /\ t.node[g][o] # g
             /\ t.node[g][o] # t.node[g][s]
    <3>1. t.node[g][o] \in DOMAIN t.node
      <4> HIDE DEF p, g, w, s
      <4> QED BY <1>1, <1>4, <2>1, ChildIs
    <3>2. ASSUME t.node[g][o] # nil
          PROVE  /\ t.node[g][o] \in Nodes(t) /\ t.node[t.node[g][o]].parent = g
                 /\ t.node[g][o] # g /\ t.node[g][o] # t.node[g][Opposite(o)]
      <4> HIDE DEF p, g, w, s
      <4> QED BY <1>1, <1>4, <2>1, <3>2, ChildIs
    <3> QED BY <2>1, <3>1, <3>2
  <2>3. p # nil
    BY <1>2, <1>3
  <2> QED BY <1>4, <1>6, <2>2, <2>3 DEF o
<1>8. w # g /\ w # x
  BY <1>1, <1>2, <1>3, <1>4, <1>7
<1>9. ~IsRed(t, g)
  BY <1>3, <1>4 DEF Clash, ClashOnly, Grown
<1>10. ASSUME NEW y \in Nodes(t), IsRed(t, y), NEW z \in Sides
       PROVE  /\ t.node[y][z] \in DOMAIN t.node
              /\ t.node[y][z] # x => ~IsRed(t, t.node[y][z])
              /\ h[t.node[y][z]] = h[y]
  <2>1. t.node[y][z] \in DOMAIN t.node
    BY <1>1, ChildIs
  <2>2. h[t.node[y][z]] = h[y]
    BY <1>2, <1>10, <2>1
  <2>3. ASSUME t.node[y][z] # x, IsRed(t, t.node[y][z])
        PROVE  FALSE
    <3> DEFINE c == t.node[y][z]
    <3>1. c \in Nodes(t) /\ t.node[c].parent = y
      BY <1>1, <1>2, <2>3, ChildIs
    <3> QED BY <1>10, <2>3, <3>1 DEF Clash, ClashOnly, Grown
  <2> QED BY <2>1, <2>2, <2>3
<1>11. h[x] = h[p]
  BY <1>3, <1>10
<1>12. h[g] = h[p] + 1 /\ h[w] = h[p]
  <2>1. Black(t, g) = 1
    BY <1>2, <1>9
  <2>2. h[g] = h[p] + 1 /\ h[g] = h[w] + 1
    BY <1>2, <1>4, <1>6, <2>1
  <2>3. h[p] \in Nat /\ h[w] \in Nat
    BY <1>2, <1>3, <1>7
  <2> QED BY <2>2, <2>3
<1>13. \A z \in Sides : t.node[x][z] # x
  BY <1>1, <1>2, ChildIs
<1>14. /\ \A z \in Sides : /\ t.node[p][z] \in DOMAIN t.node
                           /\ t.node[p][z] # x => ~IsRed(t, t.node[p][z])
                           /\ h[t.node[p][z]] = h[p]
       /\ \A z \in Sides : /\ t.node[x][z] \in DOMAIN t.node
                           /\ ~IsRed(t, t.node[x][z])
                           /\ h[t.node[x][z]] = h[p]
  BY <1>1, <1>3, <1>10, <1>11, <1>13
<1> HIDE DEF p, g, s, w
<1>15. /\ x \in Nodes(t) /\ p \in Nodes(t) /\ g \in Nodes(t)
       /\ w \in DOMAIN t.node /\ s \in Sides
       /\ t.node[g][s] = p /\ t.node[g][Opposite(s)] = w
       /\ p # x /\ p # g /\ x # g /\ w # p /\ w # g /\ w # x
       /\ w # nil => w \in Nodes(t) /\ t.node[w].parent = g
  BY <1>1, <1>3, <1>4, <1>5, <1>6, <1>7, <1>8
<1>16. Kin(t, h, x, p, g, s, w)
  <2>1. \E z \in Sides : t.node[p][z] = x
    BY <1>3 DEF p
  <2>2. ~IsRed(t, g) /\ h[x] = h[p] /\ h[w] = h[p] /\ h[g] = h[p] + 1
    BY <1>9, <1>11, <1>12 DEF p, g, w
  <2>3. /\ \A z \in Sides : /\ t.node[p][z] \in DOMAIN t.node
                            /\ t.node[p][z] # x => ~IsRed(t, t.node[p][z])
                            /\ h[t.node[p][z]] = h[p]
        /\ \A z \in Sides : /\ t.node[x][z] \in DOMAIN t.node
                            /\ ~IsRed(t, t.node[x][z])
                            /\ h[t.node[x][z]] = h[p]
    BY <1>14 DEF p
  <2> QED BY <1>15, <2>1, <2>2, <2>3 DEF Kin
<1> QED BY <1>16 DEF p, g, s, w

LEMMA RecolouredGrown ==
  ASSUME NEW t, NEW sub, NEW h, NEW x, Grown(t, sub, h, x),
         IsRed(t, t.node[x].parent), t.node[t.node[x].parent].parent # nil,
         IsRed(t, UncleOf(t, x))
  PROVE  \E l : Grown(Paint(t, {t.node[x].parent, UncleOf(t, x)},
                               {t.node[t.node[x].parent].parent}),
                      sub, l, t.node[t.node[x].parent].parent)
<1> DEFINE p == t.node[x].parent
           g == t.node[p].parent
           w == UncleOf(t, x)
           s == SideOf(t, p, g)
           u == Paint(t, {p, w}, {g})
           X == {p, w, g}
           l == Adjusted(t, h, p, h[p] + 1, w, h[w] + 1)
<1>1. Tree(t, sub, h, nil, "left") /\ Shape(t, sub) /\ ClashOnly(t, {x})
        /\ IsTree(t)
      /\ HeightsBut(t, h, nil, "left", {})
  BY DEF Grown, Tree, Shape
<1>2. /\ x \in Nodes(t) /\ p \in Nodes(t) /\ g \in Nodes(t)
      /\ s \in Sides /\ t.node[g][s] = p /\ t.node[g][Opposite(s)] = w
      /\ p # x /\ p # g /\ x # g /\ w # p /\ w # g /\ w # x
      /\ w # nil => w \in Nodes(t) /\ t.node[w].parent = g
      /\ ~IsRed(t, g)
      /\ \A z \in Sides : t.node[p][z] \in DOMAIN t.node
           /\ h[t.node[p][z]] = h[p]
      /\ h[w] = h[p] /\ h[g] = h[p] + 1
  <2>1. Kin(t, h, x, p, g, s, w)
    BY KinIs
  <2> HIDE DEF p, g, s, w
  <2> QED BY <2>1 DEF Kin
<1>3. /\ ~IsRed(t, nil) /\ \A z \in Nodes(t) : z \in DOMAIN t.node /\ z # nil
      /\ \A z : Black(t, z) \in 0..1 /\ (Black(t, z) = 0 <=> IsRed(t, z))
      /\ \A z \in DOMAIN t.node : h[z] \in Nat
      /\ \A z \in Nodes(t), e \in Sides :
           h[z] = h[t.node[z][e]] + Black(t, z) + Debt(nil, "left", z, e)
  BY <1>1, HeightsAre
<1>4. w \in Nodes(t) /\ t.node[w].parent = g
  BY <1>2, <1>3
<1>5. /\ DOMAIN u.node = DOMAIN t.node /\ Nodes(u) = Nodes(t)
      /\ u.root = t.root
      /\ \A y \in DOMAIN t.node :
           /\ u.node[y].parent = t.node[y].parent
           /\ \A e \in Sides : u.node[y][e] = t.node[y][e]
  <2> HIDE DEF p, g, w, s
  <2> QED BY <1>1, PaintLinks
<1>6. ColoursPainted(t, u, {p, w}, {g})
  BY <1>1, PaintColours
<1>7. Shape(u, sub)
  BY <1>1, <1>2, <1>3, PaintShape
<1> HIDE DEF u
<1>8. HeightsBut(u, h, nil, "left", X)
  <2>1. HeightsBut(t, h, nil, "left", X)
    BY <1>1, ButMore
  <2> QED BY <1>1, <2>1, PaintHeights DEF u
<1>9. p \in DOMAIN t.node /\ w \in DOMAIN t.node /\ g \in DOMAIN t.node
  BY <1>2, <1>3, <1>4
<1>10. h[p] + 1 \in Nat /\ h[w] + 1 \in Nat
  BY <1>3, <1>9
<1>11. HeightsBut(u, l, nil, "left", X)
  <2>1. l = Adjusted(u, h, p, h[p] + 1, w, h[w] + 1)
    BY <1>5 DEF Adjusted
  <2>2. p \in Nodes(u) /\ w \in Nodes(u) /\ u.node[p].parent \in X
          /\ u.node[w].parent \in X
    BY <1>2, <1>4, <1>5, <1>9
  <2> HIDE DEF l, p, w, g
  <2>3. p \in X /\ w \in X
    OBVIOUS
  <2> HIDE DEF X
  <2> QED BY <1>7, <1>8, <1>10, <2>1, <2>2, <2>3, ChangeHeights
<1>12. \A z \in DOMAIN t.node :
         l[z] = IF z = p THEN h[p] + 1 ELSE IF z = w THEN h[w] + 1 ELSE h[z]
  BY DEF Adjusted
<1> HIDE DEF l
<1>13. IsRed(u, g) /\ ~IsRed(u, p) /\ ~IsRed(u, w)
  BY <1>2, <1>6, <1>9 DEF ColoursPainted
<1>14. ASSUME NEW y \in {p, w}, NEW e \in Sides
       PROVE  l[y] = l[u.node[y][e]] + 1
  <2>1. y \in Nodes(t) /\ y \in DOMAIN t.node /\ y # g
    BY <1>2, <1>4, <1>9
  <2>2. IsRed(t, y)
    OBVIOUS
  <2> DEFINE c == t.node[y][e]
  <2>3. u.node[y][e] = c /\ c \in DOMAIN t.node
    BY <1>1, <1>5, <2>1, ChildIs
  <2>4. c # p /\ c # w
    <3>1. c # nil => t.node[c].parent = y
      BY <1>1, <2>1, ChildIs
    <3> QED BY <1>2, <1>3, <1>4, <2>1, <3>1
  <2>5. h[y] = h[c]
    <3>1. h[y] = h[c] + Black(t, y) + Debt(nil, "left", y, e)
      BY <1>3, <2>1
    <3>2. Black(t, y) = 0 /\ Debt(nil, "left", y, e) = 0
      BY <1>3, <2>1, <2>2 DEF Debt
    <3>3. h[c] \in Nat
      BY <1>3, <2>3
    <3> QED BY <3>1, <3>2, <3>3
  <2>6. l[y] = h[y] + 1 /\ l[c] = h[c]
    BY <1>12, <2>1, <2>3, <2>4
  <2> QED BY <2>3, <2>5, <2>6
<1>15. Even(u, l, nil, "left", p) /\ Even(u, l, nil, "left", w)
  <2>1. Black(u, p) = 1 /\ Black(u, w) = 1
    BY <1>13 DEF Black
  <2>2. \A e \in Sides : Debt(nil, "left", p, e) = 0
          /\ Debt(nil, "left", w, e) = 0
    BY <1>2, <1>3, <1>4 DEF Debt
  <2>3. ASSUME NEW y \in {p, w}, NEW e \in Sides
        PROVE  l[y] = l[u.node[y][e]] + Black(u, y) + Debt(nil, "left", y, e)
    <3>1. u.node[y][e] \in DOMAIN t.node
      <4>1. y \in Nodes(t) /\ y \in DOMAIN t.node
        BY <1>2, <1>4, <1>9
      <4> QED BY <1>1, <1>5, <4>1, ChildIs
    <3>2. l[u.node[y][e]] \in Nat
      BY <1>5, <1>11, <3>1 DEF HeightsBut
    <3>3. Black(u, y) = 1 /\ Debt(nil, "left", y, e) = 0
      BY <2>1, <2>2
    <3> QED BY <1>14, <3>2, <3>3
  <2> QED BY <2>3 DEF Even
<1>16. Even(u, l, nil, "left", g)
  <2>1. Black(u, g) = 0
    BY <1>13 DEF Black
  <2>2. \A e \in Sides : Debt(nil, "left", g, e) = 0
    BY <1>2, <1>3 DEF Debt
  <2>3. l[g] = h[p] + 1 /\ l[p] = h[p] + 1 /\ l[w] = h[p] + 1
    BY <1>2, <1>9, <1>12
  <2>4. \A e \in Sides : u.node[g][e] \in {p, w}
    <3> SUFFICES ASSUME NEW e \in Sides PROVE u.node[g][e] \in {p, w}
      OBVIOUS
    <3>1. u.node[g][e] = t.node[g][e]
      BY <1>5, <1>9
    <3>2. e = s \/ e = Opposite(s)
      BY <1>2, SidesAre
    <3> HIDE DEF p, g, w, s
    <3> QED BY <1>2, <3>1, <3>2
  <2>5. \A e \in Sides : l[g] = l[u.node[g][e]] + Black(u, g) + Debt(nil, "left", g, e)
    <3> HIDE DEF p, g, w
    <3>1. h[p] + 1 = (h[p] + 1) + 0 + 0
      BY <1>10
    <3> QED BY <2>1, <2>2, <2>3, <2>4, <3>1
  <2> QED BY <2>5 DEF Even
<1>17. Tree(u, sub, l, nil, "left")
  <2>1. HeightsBut(u, l, nil, "left", {})
    BY <1>11, <1>15, <1>16, AllEven
  <2> QED BY <1>7, <2>1 DEF Tree, Sides
<1>18. ASSUME NEW y \in Nodes(u), Clash(u, y) PROVE y = g
  <2>1. y \in DOMAIN t.node /\ y \in Nodes(t)
          /\ u.node[y].parent = t.node[y].parent
        /\ t.node[y].parent \in DOMAIN t.node
    BY <1>1, <1>3, <1>5, ParentIs
  <2>2. IsRed(u, y) /\ IsRed(u, t.node[y].parent)
    BY <1>18, <2>1 DEF Clash
  <2>3. CASE y # g /\ t.node[y].parent = g
    <3>1. y \in {p, w}
      <4> HIDE DEF p, g, w, s
      <4>1. SideOf(t, y, g) \in Sides /\ t.node[g][SideOf(t, y, g)] = y
        BY <1>1, <1>3, <1>2, <2>1, <2>3, ParentIs
      <4> QED BY <1>2, <4>1, SidesAre
    <3> QED BY <1>13, <2>2, <3>1
  <2>4. CASE y # g /\ t.node[y].parent # g
    <3>1. y \notin {p, w} /\ t.node[y].parent \notin {p, w}
      BY <1>13, <2>2
    <3>2. IsRed(t, y) /\ IsRed(t, t.node[y].parent)
      BY <1>6, <2>1, <2>2, <2>4, <3>1 DEF ColoursPainted
    <3>3. y = x
      BY <1>1, <2>1, <3>2 DEF Clash, ClashOnly
    <3> QED BY <3>1, <3>3
  <2> QED BY <2>3, <2>4
<1>19. Grown(u, sub, l, g)
  BY <1>2, <1>5, <1>13, <1>17, <1>18 DEF Grown, ClashOnly
<1> QED BY <1>19 DEF u

(* The outer node x is brought closer to the root.                         *)
LEMMA OuterGrown ==
  ASSUME NEW t, NEW sub, NEW h, NEW x, Grown(t, sub, h, x),
         NEW p, NEW g, NEW s, NEW w, Kin(t, h, x, p, g, s, w),
         IsRed(t, p), ~IsRed(t, w), t.node[p][s] = x
  PROVE  \E low, l : Grown(Rotate(Paint(t, {p}, {g}), g, Opposite(s)), low, l, x)
<1> DEFINE o == Opposite(s)
           a == Paint(t, {p}, {g})
           u == Rotate(a, g, o)
           X == {p, g}
           l == Lifted(a, h, g, p, h[p])
           low == RotatedSub(a, sub, g, o)
<1>1. Tree(t, sub, h, nil, "left") /\ Shape(t, sub) /\ ClashOnly(t, {x})
        /\ IsTree(t)
      /\ HeightsBut(t, h, nil, "left", {})
  BY DEF Grown, Tree, Shape
<1>3. /\ x \in Nodes(t) /\ p \in Nodes(t) /\ g \in Nodes(t)
      /\ w \in DOMAIN t.node /\ s \in Sides
      /\ t.node[g][s] = p /\ t.node[g][o] = w
      /\ p # x /\ p # g /\ x # g /\ w # p /\ w # g /\ w # x
      /\ ~IsRed(t, g)
      /\ \A z \in Sides : /\ t.node[p][z] \in DOMAIN t.node
                          /\ t.node[p][z] # x => ~IsRed(t, t.node[p][z])
                          /\ h[t.node[p][z]] = h[p]
      /\ h[x] = h[p] /\ h[w] = h[p] /\ h[g] = h[p] + 1
  BY DEF Kin
<1>4. o \in Sides /\ o # s /\ Opposite(o) = s /\ \A e \in Sides : e = s \/ e = o
  BY <1>3, SidesAre
<1>5. /\ ~IsRed(t, nil) /\ \A z \in Nodes(t) : z \in DOMAIN t.node /\ z # nil
      /\ \A z \in DOMAIN t.node : h[z] \in Nat
      /\ t.node[p].parent = g /\ t.node[x].parent = p /\ SideOf(t, p, g) = s
  <2>1. /\ ~IsRed(t, nil) /\ \A z \in Nodes(t) : z \in DOMAIN t.node /\ z # nil
        /\ \A z \in DOMAIN t.node : h[z] \in Nat
    BY <1>1, HeightsAre
  <2>2. t.node[p].parent = g /\ SideOf(t, p, g) = s
    BY <1>1, <1>3, <2>1, ChildIs, SideIs
  <2>3. t.node[x].parent = p
    BY <1>1, <1>3, <2>1, ChildIs DEF Kin
  <2> QED BY <2>1, <2>2, <2>3
<1>6. /\ DOMAIN a.node = DOMAIN t.node /\ Nodes(a) = Nodes(t)
      /\ a.root = t.root
      /\ \A y \in DOMAIN t.node :
           /\ a.node[y].parent = t.node[y].parent
           /\ \A e \in Sides : a.node[y][e] = t.node[y][e]
  BY <1>1, PaintLinks
<1>7. ColoursPainted(t, a, {p}, {g})
  BY <1>1, PaintColours
<1>8. Shape(a, sub)
  <2>1. nil \notin {g}
    BY <1>3, <1>5
  <2> QED BY <1>1, <2>1, PaintShape
<1>9. HeightsBut(a, h, nil, "left", X)
  <2>1. HeightsBut(t, h, nil, "left", X)
    BY <1>1, ButMore
  <2> QED BY <1>1, <2>1, PaintHeights
<1> HIDE DEF a, o
<1>10. /\ p \in DOMAIN t.node /\ g \in DOMAIN t.node /\ x \in DOMAIN t.node
       /\ g \in Nodes(a) /\ a.node[g][Opposite(o)] = p /\ p # nil
       /\ a.node[p][Opposite(o)] = x /\ a.node[g][o] = w
       /\ a.node[p][o] = t.node[p][o] /\ t.node[p][o] # x
  <2>1. t.node[p][o] # x
    <3>1. t.node[p][s] # nil
      BY <1>3, <1>5
    <3>2. t.node[p][s] # t.node[p][Opposite(s)]
      BY <1>1, <1>3, <3>1, ChildIs
    <3> QED BY <3>2 DEF o
  <2> QED BY <1>3, <1>4, <1>5, <1>6, <2>1
<1>11. TurnedTo(a, u, g, o, p, t.node[p][o], a.node[g].parent) /\ Shape(u, low)
  BY <1>4, <1>8, <1>10, TurnIs, RotateShape
<1>12. HeightsBut(u, l, nil, "left", X)
  <2>1. h[p] \in Nat
    BY <1>5, <1>10
  <2>2. g \in X /\ a.node[g][Opposite(o)] \in X
    BY <1>10
  <2> HIDE DEF X, u, l
  <2>3. HeightsBut(u, Lifted(a, h, g, a.node[g][Opposite(o)], h[p]), nil, "left", X)
    BY <1>4, <1>8, <1>9, <1>10, <2>1, <2>2, TurnHeights DEF u
  <2> QED BY <1>10, <2>3 DEF l
<1>13. /\ DOMAIN u.node = DOMAIN t.node /\ Nodes(u) = Nodes(t)
       /\ \A y \in DOMAIN t.node :
           /\ IsRed(u, y) <=> IsRed(a, y)
           /\ u.node[y].parent =
                IF y = t.node[p][o] /\ t.node[p][o] # nil THEN g
                ELSE IF y = g THEN p ELSE IF y = p THEN a.node[g].parent
                ELSE t.node[y].parent
       /\ u.node[g][o] = w /\ u.node[g][s] = t.node[p][o]
       /\ u.node[p][o] = g /\ u.node[p][s] = x
       /\ t.node[p][o] \notin {g, p}
  <2> HIDE DEF u
  <2> QED BY <1>4, <1>6, <1>10, <1>11 DEF TurnedTo
<1> HIDE DEF u, low
<1>14. \A y \in DOMAIN t.node :
         l[y] = IF y = p THEN h[g] ELSE IF y = g THEN h[p] ELSE h[y]
  BY <1>6 DEF Lifted
<1> HIDE DEF l
<1>15. /\ IsRed(u, g) /\ ~IsRed(u, p)
       /\ \A y \in DOMAIN t.node : y \notin {p, g}
            => (IsRed(u, y) <=> IsRed(t, y))
  BY <1>3, <1>7, <1>10, <1>13 DEF ColoursPainted
<1>16. Even(u, l, nil, "left", g)
  <2>1. Black(u, g) = 0 /\ \A e \in Sides : Debt(nil, "left", g, e) = 0
    BY <1>3, <1>5, <1>15 DEF Black, Debt
  <2>2. l[g] = h[p] /\ l[w] = h[p] /\ l[t.node[p][o]] = h[p] /\ h[p] \in Nat
    BY <1>3, <1>4, <1>5, <1>10, <1>13, <1>14
  <2>3. \A e \in Sides : l[u.node[g][e]] = h[p]
    BY <1>4, <1>13, <2>2
  <2> QED BY <2>1, <2>2, <2>3 DEF Even
<1>17. Even(u, l, nil, "left", p)
  <2>1. Black(u, p) = 1 /\ \A e \in Sides : Debt(nil, "left", p, e) = 0
    BY <1>10, <1>15 DEF Black, Debt
  <2>2. l[p] = h[p] + 1 /\ l[g] = h[p] /\ l[x] = h[p] /\ h[p] \in Nat
    BY <1>3, <1>5, <1>10, <1>14
  <2>3. \A e \in Sides : l[u.node[p][e]] = h[p]
    BY <1>4, <1>13, <2>2
  <2> QED BY <2>1, <2>2, <2>3 DEF Even
<1>18. Tree(u, low, l, nil, "left")
  <2>1. HeightsBut(u, l, nil, "left", {})
    BY <1>12, <1>16, <1>17, AllEven
  <2> QED BY <1>11, <2>1 DEF Tree, Sides, u, low
<1>19. IsRed(u, x)
  BY <1>3, <1>10, <1>15 DEF Grown
<1>20. ASSUME NEW y \in Nodes(u), Clash(u, y) PROVE FALSE
  <2>1. y \in DOMAIN t.node /\ y \in Nodes(t)
          /\ t.node[y].parent \in DOMAIN t.node
    BY <1>1, <1>5, <1>13, ParentIs
  <2>2. IsRed(u, y) /\ IsRed(u, u.node[y].parent) /\ y # p
    BY <1>15, <1>20 DEF Clash
  <2>3. CASE y = t.node[p][o] /\ t.node[p][o] # nil
    BY <1>3, <1>4, <1>10, <1>13, <1>15, <2>2, <2>3
  <2>4. CASE y = g
    BY <1>10, <1>13, <1>15, <2>2, <2>4
  <2>5. CASE y # g /\ ~(y = t.node[p][o] /\ t.node[p][o] # nil)
    <3>1. u.node[y].parent = t.node[y].parent
      BY <1>13, <2>1, <2>2, <2>5
    <3>2. IsRed(t, y)
      BY <1>15, <2>1, <2>2, <2>5
    <3>3. t.node[y].parent # p
      BY <1>15, <2>2, <3>1
    <3>4. CASE t.node[y].parent = g
      <4>1. SideOf(t, y, g) \in Sides /\ t.node[g][SideOf(t, y, g)] = y
        BY <1>1, <1>3, <1>5, <2>1, <3>4, ParentIs
      <4>2. y = w
        BY <1>3, <1>4, <2>2, <4>1
      <4> QED BY <3>2, <4>2
    <3>5. CASE t.node[y].parent # g
      <4>1. IsRed(t, t.node[y].parent)
        BY <1>15, <2>1, <2>2, <3>1, <3>3, <3>5
      <4>2. y = x
        BY <1>1, <2>1, <3>2, <4>1 DEF Clash, ClashOnly
      <4> QED BY <1>5, <3>3, <4>2
    <3> QED BY <3>4, <3>5
  <2> QED BY <2>3, <2>4, <2>5
<1>21. Grown(u, low, l, x)
  BY <1>3, <1>13, <1>18, <1>19, <1>20 DEF Grown, ClashOnly
<1> QED BY <1>21 DEF u, a, o

(* An inner node x becomes an outer one, with its parent below it.         *)
LEMMA StraightenedGrown ==
  ASSUME NEW t, NEW sub, NEW h, NEW x, Grown(t, sub, h, x),
         NEW p, NEW g, NEW s, NEW w, Kin(t, h, x, p, g, s, w),
         IsRed(t, p), ~IsRed(t, w), t.node[p][Opposite(s)] = x
  PROVE  LET u == Rotate(t, p, s)
         IN  /\ \E low, l : Grown(u, low, l, p)
             /\ u.node[p].parent = x /\ u.node[x].parent = g
             /\ SideOf(u, x, g) = s /\ u.node[x][s] = p
             /\ IsRed(u, x) /\ ~IsRed(u, UncleOf(u, p))
<1> DEFINE o == Opposite(s)
           u == Rotate(t, p, s)
           X == {p, x}
           l == Lifted(t, h, p, x, h[p])
           low == RotatedSub(t, sub, p, s)
<1>1. Tree(t, sub, h, nil, "left") /\ Shape(t, sub) /\ ClashOnly(t, {x})
        /\ IsTree(t)
      /\ HeightsBut(t, h, nil, "left", {}) /\ IsRed(t, x)
  BY DEF Grown, Tree, Shape
<1>3. /\ x \in Nodes(t) /\ p \in Nodes(t) /\ g \in Nodes(t)
      /\ w \in DOMAIN t.node /\ s \in Sides
      /\ t.node[g][s] = p /\ t.node[g][o] = w
      /\ p # x /\ p # g /\ x # g /\ w # p /\ w # g /\ w # x
      /\ ~IsRed(t, g)
      /\ \A z \in Sides : /\ t.node[p][z] \in DOMAIN t.node
                          /\ t.node[p][z] # x => ~IsRed(t, t.node[p][z])
                          /\ h[t.node[p][z]] = h[p]
      /\ \A z \in Sides : /\ t.node[x][z] \in DOMAIN t.node
                          /\ ~IsRed(t, t.node[x][z])
                          /\ h[t.node[x][z]] = h[p]
      /\ h[x] = h[p]
  BY DEF Kin
<1>4. o \in Sides /\ o # s /\ Opposite(o) = s /\ \A e \in Sides : e = s \/ e = o
  BY <1>3, SidesAre
<1>5. /\ ~IsRed(t, nil) /\ \A z \in Nodes(t) : z \in DOMAIN t.node /\ z # nil
      /\ \A z \in DOMAIN t.node : h[z] \in Nat
      /\ t.node[p].parent = g /\ t.node[x].parent = p /\ SideOf(t, p, g) = s
  <2>1. /\ ~IsRed(t, nil) /\ \A z \in Nodes(t) : z \in DOMAIN t.node /\ z # nil
        /\ \A z \in DOMAIN t.node : h[z] \in Nat
    BY <1>1, HeightsAre
  <2>2. t.node[p].parent = g /\ SideOf(t, p, g) = s
    BY <1>1, <1>3, <2>1, ChildIs, SideIs
  <2>3. t.node[x].parent = p
    BY <1>1, <1>3, <2>1, ChildIs DEF Kin
  <2> QED BY <2>1, <2>2, <2>3
<1>6. t.node[p][o] = x /\ x # nil /\ p # nil /\ p \in DOMAIN t.node
        /\ x \in DOMAIN t.node
      /\ g \in DOMAIN t.node
  BY <1>3, <1>5
<1>7. TurnedTo(t, u, p, s, x, t.node[x][s], g) /\ Shape(u, low)
  BY <1>1, <1>3, <1>5, <1>6, TurnIs, RotateShape
<1> HIDE DEF u, low
<1>8. HeightsBut(u, l, nil, "left", X)
  <2>1. h[p] \in Nat
    BY <1>5, <1>6
  <2>2. HeightsBut(t, h, nil, "left", X)
    BY <1>1, ButMore
  <2>3. p \in X /\ t.node[p][Opposite(s)] \in X /\ t.node[p][Opposite(s)] # nil
    BY <1>6
  <2> HIDE DEF X, l
  <2>4. HeightsBut(u, Lifted(t, h, p, t.node[p][Opposite(s)], h[p]), nil, "left", X)
    BY <1>1, <1>3, <2>1, <2>2, <2>3, TurnHeights DEF u
  <2> QED BY <1>6, <2>4 DEF l
<1>9. /\ DOMAIN u.node = DOMAIN t.node /\ Nodes(u) = Nodes(t)
      /\ \A y \in DOMAIN t.node :
           /\ IsRed(u, y) <=> IsRed(t, y)
           /\ u.node[y].parent =
                IF y = t.node[x][s] /\ t.node[x][s] # nil THEN p
                ELSE IF y = p THEN x ELSE IF y = x THEN g
                ELSE t.node[y].parent
      /\ u.node[p][s] = t.node[p][s] /\ u.node[p][o] = t.node[x][s]
      /\ u.node[x][s] = p /\ u.node[x][o] = t.node[x][o]
      /\ t.node[x][s] \notin {p, x} /\ t.node[x][o] \notin {p, x}
      /\ t.node[p][s] \notin {p, x}
      /\ \A y \in Nodes(t) \ {p, x}, e \in Sides :
           u.node[y][e] = IF g # nil /\ y = g /\ e = s THEN x ELSE t.node[y][e]
  BY <1>5, <1>7 DEF TurnedTo
<1>10. \A y \in DOMAIN t.node : l[y] = h[y]
  BY <1>3, <1>6 DEF Lifted
<1> HIDE DEF l
<1>11. IsRed(u, p) /\ IsRed(u, x) /\ h[p] \in Nat
  BY <1>1, <1>5, <1>6, <1>9
<1>12. Even(u, l, nil, "left", p) /\ Even(u, l, nil, "left", x)
  <2>1. /\ Black(u, p) = 0 /\ Black(u, x) = 0
        /\ \A e \in Sides : Debt(nil, "left", p, e) = 0
             /\ Debt(nil, "left", x, e) = 0
    BY <1>6, <1>11 DEF Black, Debt
  <2>2. l[p] = h[p] /\ l[x] = h[p]
    BY <1>3, <1>6, <1>10
  <2>3. \A e \in Sides : l[u.node[p][e]] = h[p]
    <3>1. l[u.node[p][s]] = h[p] /\ l[u.node[p][o]] = h[p]
      BY <1>3, <1>9, <1>10
    <3> QED BY <1>4, <3>1
  <2>4. \A e \in Sides : l[u.node[x][e]] = h[p]
    <3>1. l[u.node[x][s]] = h[p] /\ l[u.node[x][o]] = h[p]
      BY <1>3, <1>4, <1>6, <1>9, <1>10
    <3> QED BY <1>4, <3>1
  <2> QED BY <1>11, <2>1, <2>2, <2>3, <2>4 DEF Even
<1>13. Tree(u, low, l, nil, "left")
  <2>1. HeightsBut(u, l, nil, "left", {})
    BY <1>8, <1>12, AllEven
  <2> QED BY <1>7, <2>1 DEF Tree, Sides
<1>14. ASSUME NEW y \in Nodes(u), Clash(u, y) PROVE y = p
  <2>1. y \in DOMAIN t.node /\ y \in Nodes(t)
          /\ t.node[y].parent \in DOMAIN t.node
    BY <1>1, <1>5, <1>9, ParentIs
  <2>2. IsRed(t, y) /\ IsRed(u, u.node[y].parent)
    BY <1>9, <1>14, <2>1 DEF Clash
  <2>3. CASE y = t.node[x][s] /\ t.node[x][s] # nil
    BY <1>3, <2>2, <2>3
  <2>4. CASE y = x
    <3>1. u.node[y].parent = g
      BY <1>3, <1>9, <2>1, <2>4
    <3> QED BY <1>3, <1>6, <1>9, <2>2, <3>1
  <2>5. CASE y # x /\ y # p /\ ~(y = t.node[x][s] /\ t.node[x][s] # nil)
    <3>1. u.node[y].parent = t.node[y].parent
      BY <1>9, <2>1, <2>5
    <3>2. IsRed(t, t.node[y].parent)
      BY <1>9, <2>1, <2>2, <3>1
    <3> QED BY <1>1, <2>1, <2>2, <2>5, <3>2 DEF Clash, ClashOnly
  <2> QED BY <2>3, <2>4, <2>5
<1>15. Grown(u, low, l, p)
  BY <1>3, <1>9, <1>11, <1>13, <1>14 DEF Grown, ClashOnly
<1>16. u.node[p].parent = x /\ u.node[x].parent = g
  BY <1>3, <1>6, <1>9
<1>17. u.node[g][s] = x /\ u.node[g][o] = w /\ SideOf(u, x, g) = s
  <2>1. u.node[g][s] = x /\ u.node[g][o] = w
    BY <1>3, <1>4, <1>5, <1>9
  <2>2. g \in Nodes(u)
    BY <1>3, <1>9
  <2>3. SideOf(u, u.node[g][s], g) = s
    BY <1>3, <1>6, <1>7, <2>1, <2>2, SideIs
  <2> QED BY <2>1, <2>3
<1>18. ~IsRed(u, UncleOf(u, p))
  <2>1. UncleOf(u, p) = w
    BY <1>16, <1>17 DEF UncleOf
  <2> QED BY <1>3, <1>9, <2>1
<1> QED BY <1>9, <1>11, <1>15, <1>16, <1>17, <1>18 DEF u

(* Turning and painting keep the nodes and their values.                   *)
LEMMA PaintKeeps ==
  ASSUME NEW t, IsTree(t), NEW blacks, NEW reds
  PROVE  SameNodes(t, Paint(t, blacks, reds))
BY Painted DEF PaintedTo

LEMMA RotateKeeps ==
  ASSUME NEW t, NEW sub, Shape(t, sub), NEW x \in Nodes(t), NEW s \in Sides,
         t.node[x][Opposite(s)] # nil
  PROVE  SameNodes(t, Rotate(t, x, s))
BY RotationOf DEF Rotated

LEMMA KeepsTrans ==
  ASSUME NEW t, NEW u, NEW v, SameNodes(t, u), SameNodes(u, v)
  PROVE  SameNodes(t, v)
BY DEF SameNodes

LEMMA KeepsSelf ==
  ASSUME NEW t, IsTree(t)
  PROVE  SameNodes(t, t)
BY DEF SameNodes

(* One turn of the loop of tmap_put_rebalance() with a black uncle.        *)
InsertTurned(t, x) ==
  LET p == t.node[x].parent
      g == t.node[p].parent
      s == SideOf(t, p, g)
      inner == x = t.node[p][Opposite(s)]
      v == IF inner THEN Rotate(t, p, s) ELSE t
      y == IF inner THEN p ELSE x
      top == v.node[y].parent
  IN  [tree |-> Rotate(Paint(v, {top}, {g}), g, Opposite(s)), node |-> y]

LEMMA TurnedGrown ==
  ASSUME NEW t, NEW sub, NEW h, NEW x, Grown(t, sub, h, x),
         IsRed(t, t.node[x].parent), t.node[t.node[x].parent].parent # nil,
         ~IsRed(t, UncleOf(t, x))
  PROVE  LET r == InsertTurned(t, x)
         IN  SameNodes(t, r.tree) /\ \E low, l : Grown(r.tree, low, l, r.node)
<1> DEFINE p == t.node[x].parent
           g == t.node[p].parent
           s == SideOf(t, p, g)
           w == UncleOf(t, x)
           o == Opposite(s)
           inner == x = t.node[p][o]
           v == IF inner THEN Rotate(t, p, s) ELSE t
           y == IF inner THEN p ELSE x
           top == v.node[y].parent
           z == Rotate(Paint(v, {top}, {g}), g, o)
<1>1. Kin(t, h, x, p, g, s, w) /\ Shape(t, sub) /\ IsTree(t)
  BY KinIs DEF Grown, Tree, Shape
<1>2. IsRed(t, p) /\ ~IsRed(t, w) /\ g # nil
  OBVIOUS
<1>3. /\ InsertTurned(t, x).tree = z
      /\ InsertTurned(t, x).node = y
  BY DEF InsertTurned
<1> HIDE DEF p, g, s, w
<1>4. /\ s \in Sides /\ o \in Sides /\ Opposite(o) = s
      /\ \A e \in Sides : e = s \/ e = o
  BY <1>1, SidesAre DEF Kin
<1>5. s \in Sides /\ p \in Nodes(t) /\ x \in Nodes(t) /\ g \in Nodes(t)
  BY <1>1 DEF Kin
<1>6. p # nil /\ x # nil
  BY <1>5 DEF Nodes
(* The last rotation and painting.                                         *)
<1>7. ASSUME NEW a, NEW low, Shape(a, low), NEW b, a.node[g][s] = b, b # nil,
               g \in Nodes(a)
      PROVE  SameNodes(a, Rotate(Paint(a, {b}, {g}), g, o))
  <2> DEFINE c == Paint(a, {b}, {g})
  <2>1. IsTree(a) /\ g # nil
    BY <1>7 DEF Shape, Nodes
  <2>2. Shape(c, low) /\ SameNodes(a, c)
    BY <1>7, <2>1, PaintShape, PaintKeeps
  <2>3. g \in Nodes(c) /\ c.node[g][s] = b
    BY <1>4, <1>7, <2>1, PaintLinks DEF Nodes
  <2> HIDE DEF c
  <2>4. SameNodes(c, Rotate(c, g, o))
    BY <1>4, <1>7, <2>2, <2>3, RotateKeeps
  <2> QED BY <2>2, <2>4, KeepsTrans DEF c
<1>8. CASE ~inner
  <2>1. v = t /\ y = x /\ top = p
    BY <1>8 DEF p
  <2>2. t.node[p][s] = x
    BY <1>1, <1>4, <1>8 DEF Kin
  <2>3. \E low, l : Grown(Rotate(Paint(t, {p}, {g}), g, o), low, l, x)
    BY <1>1, <1>2, <2>2, OuterGrown
  <2>4. t.node[g][s] = p
    BY <1>1 DEF Kin
  <2>5. SameNodes(t, Rotate(Paint(t, {p}, {g}), g, o))
    BY <1>1, <1>5, <1>6, <1>7, <2>4
  <2> QED BY <1>3, <2>1, <2>3, <2>5
<1>9. CASE inner
  <2> DEFINE u == Rotate(t, p, s)
  <2>1. v = u /\ y = p
    BY <1>9
  <2>2. t.node[p][o] = x
    BY <1>9
  <2>3. /\ \E low, l : Grown(u, low, l, p)
        /\ u.node[p].parent = x /\ u.node[x].parent = g
        /\ SideOf(u, x, g) = s /\ u.node[x][s] = p
        /\ IsRed(u, x) /\ ~IsRed(u, UncleOf(u, p))
    BY <1>1, <1>2, <2>2, StraightenedGrown
  <2>4. SameNodes(t, u)
    BY <1>1, <1>5, <1>6, <2>2, RotateKeeps
  <2> HIDE DEF u
  <2>5. PICK low, l : Grown(u, low, l, p)
    BY <2>3
  <2>6. Kin(u, l, p, x, g, s, UncleOf(u, p))
    BY <1>2, <2>3, <2>5, KinIs
  <2>7. \E lo, m : Grown(Rotate(Paint(u, {x}, {g}), g, o), lo, m, p)
    BY <2>3, <2>5, <2>6, OuterGrown
  <2>8. top = x
    BY <2>1, <2>3
  <2>9. Shape(u, low) /\ u.node[g][s] = x /\ g \in Nodes(u)
    BY <2>5, <2>6 DEF Grown, Tree, Kin
  <2>10. SameNodes(u, Rotate(Paint(u, {x}, {g}), g, o))
    BY <1>6, <1>7, <2>9
  <2>11. SameNodes(t, Rotate(Paint(u, {x}, {g}), g, o))
    BY <2>4, <2>10, KeepsTrans
  <2> QED BY <1>3, <2>1, <2>7, <2>8, <2>11
<1> QED BY <1>8, <1>9

(* A root that is painted black counts on each path.                       *)
LEMMA RootBlackened ==
  ASSUME NEW t, NEW sub, NEW h, Tree(t, sub, h, nil, "left"), t.root # nil
  PROVE  LET u == Paint(t, {t.root}, {})
         IN  /\ \E l : Tree(u, sub, l, nil, "left")
             /\ SameNodes(t, u) /\ u.root = t.root /\ ~IsRed(u, t.root)
             /\ \A y \in Nodes(t) :
                  /\ IsRed(u, y) <=> y # t.root /\ IsRed(t, y)
                  /\ u.node[y].parent = t.node[y].parent
             /\ ~IsRed(u, nil)
<1> DEFINE r == t.root
           u == Paint(t, {r}, {})
           X == {r}
           l == Adjusted(t, h, r, h[t.node[r].left] + 1, r, h[t.node[r].left] + 1)
<1>1. Shape(t, sub) /\ IsTree(t) /\ HeightsBut(t, h, nil, "left", {})
  BY DEF Tree, Shape
<1>2. /\ ~IsRed(t, nil) /\ nil \in DOMAIN t.node
      /\ \A z \in Nodes(t) : z \in DOMAIN t.node /\ z # nil
      /\ \A z : Black(t, z) \in 0..1
      /\ \A z \in DOMAIN t.node : h[z] \in Nat
      /\ \A z \in Nodes(t), e \in Sides :
           h[z] = h[t.node[z][e]] + Black(t, z) + Debt(nil, "left", z, e)
  BY <1>1, HeightsAre
<1>3. r \in Nodes(t) /\ r \in DOMAIN t.node /\ t.node[r].parent = nil
  BY <1>1 DEF Shape, Nodes
<1>4. /\ DOMAIN u.node = DOMAIN t.node /\ Nodes(u) = Nodes(t) /\ u.root = t.root
      /\ \A y \in DOMAIN t.node :
           /\ u.node[y].parent = t.node[y].parent
           /\ \A e \in Sides : u.node[y][e] = t.node[y][e]
  BY <1>1, PaintLinks
<1>5. ColoursPainted(t, u, {r}, {}) /\ SameNodes(t, u) /\ Shape(u, sub)
  BY <1>1, PaintColours, PaintKeeps, PaintShape
<1>6. ~IsRed(u, r) /\ ~IsRed(u, nil) /\ \A y \in DOMAIN t.node : y # r
        => (IsRed(u, y) <=> IsRed(t, y))
  BY <1>2, <1>3, <1>5 DEF ColoursPainted
<1>7. \A e \in Sides : /\ t.node[r][e] \in DOMAIN t.node /\ t.node[r][e] # r
                       /\ h[t.node[r][e]] = h[t.node[r].left]
  <2>1. \A e \in Sides : t.node[r][e] \in DOMAIN t.node /\ t.node[r][e] # r
    <3> HIDE DEF r
    <3> QED BY <1>1, <1>2, <1>3, ChildIs
  <2>2. \A e \in Sides : Debt(nil, "left", r, e) = 0
    BY DEF Debt
  <2>3. ASSUME NEW e \in Sides PROVE h[r] = h[t.node[r][e]] + Black(t, r)
                 /\ h[t.node[r][e]] \in Nat
    <3>1. h[r] = h[t.node[r][e]] + Black(t, r) + 0
      BY <1>2, <1>3, <2>2
    <3> HIDE DEF r
    <3> QED BY <1>2, <2>1, <3>1
  <2>4. "left" \in Sides /\ Black(t, r) \in 0..1
    BY <1>2 DEF Sides
  <2>5. ASSUME NEW e \in Sides PROVE h[t.node[r][e]] = h[t.node[r].left]
    <3> HIDE DEF r
    <3>1. h[r] = h[t.node[r]["left"]] + Black(t, r)
            /\ h[t.node[r]["left"]] \in Nat
      BY <2>3, <2>4
    <3> QED BY <2>3, <2>4, <3>1
  <2> QED BY <2>1, <2>5
<1> DEFINE n == h[t.node[r].left]
<1>8. n \in Nat
  BY <1>2, <1>7 DEF Sides
<1> HIDE DEF u
<1>9. HeightsBut(u, h, nil, "left", X)
  <2>1. HeightsBut(t, h, nil, "left", X)
    BY <1>1, ButMore
  <2> QED BY <1>1, <2>1, PaintHeights DEF u
<1>10. HeightsBut(u, l, nil, "left", X)
  <2>1. l = Adjusted(u, h, r, n + 1, r, n + 1)
    BY <1>4 DEF Adjusted
  <2>2. r \in Nodes(u) /\ u.node[r].parent = nil /\ n + 1 \in Nat /\ r \in X
    BY <1>3, <1>4, <1>8
  <2> HIDE DEF l, n, r, X
  <2> QED BY <1>5, <1>9, <2>1, <2>2, ChangeHeights
<1>11. \A z \in DOMAIN t.node : l[z] = IF z = r THEN n + 1 ELSE h[z]
  BY DEF Adjusted
<1> HIDE DEF l
<1>12. Even(u, l, nil, "left", r)
  <2>1. Black(u, r) = 1 /\ \A e \in Sides : Debt(nil, "left", r, e) = 0
    BY <1>3, <1>6 DEF Black, Debt
  <2>2. \A e \in Sides : l[u.node[r][e]] = n
    BY <1>3, <1>4, <1>7, <1>11
  <2>3. l[r] = n + 1
    BY <1>3, <1>11
  <2> HIDE DEF n, r
  <2> QED BY <1>8, <2>1, <2>2, <2>3 DEF Even
<1>13. Tree(u, sub, l, nil, "left")
  <2>1. HeightsBut(u, l, nil, "left", {})
    BY <1>10, <1>12, AllEven
  <2> QED BY <1>5, <2>1 DEF Tree, Sides
<1>14. \A y \in Nodes(t) : /\ IsRed(u, y) <=> y # r /\ IsRed(t, y)
                           /\ u.node[y].parent = t.node[y].parent
  BY <1>2, <1>4, <1>6
<1> QED BY <1>4, <1>5, <1>6, <1>13, <1>14 DEF u

(* The end of the loop of tmap_put_rebalance().                            *)
LEMMA SettledGrown ==
  ASSUME NEW t, NEW sub, NEW h, NEW x, Grown(t, sub, h, x),
         ~(IsRed(t, t.node[x].parent) /\ t.node[t.node[x].parent].parent # nil)
  PROVE  LET u == Paint(t, {t.root}, {})
         IN  /\ \E l : Tree(u, sub, l, nil, "left")
             /\ SameNodes(t, u) /\ u.root = t.root /\ ~IsRed(u, u.root)
             /\ ClashOnly(u, {})
<1> DEFINE u == Paint(t, {t.root}, {})
<1>1. Tree(t, sub, h, nil, "left") /\ Shape(t, sub) /\ x \in Nodes(t)
        /\ ClashOnly(t, {x})
  BY DEF Grown, Tree
<1>2. t.root # nil
  BY <1>1, ParentIs DEF Shape, Nodes
<1>3. /\ \E l : Tree(u, sub, l, nil, "left")
      /\ SameNodes(t, u) /\ u.root = t.root /\ ~IsRed(u, t.root)
      /\ \A y \in Nodes(t) :
           /\ IsRed(u, y) <=> y # t.root /\ IsRed(t, y)
           /\ u.node[y].parent = t.node[y].parent
      /\ ~IsRed(u, nil)
  BY <1>1, <1>2, RootBlackened
<1> HIDE DEF u
<1>4. ASSUME NEW y \in Nodes(u), Clash(u, y) PROVE FALSE
  <2>1. y \in Nodes(t) /\ IsRed(t, y) /\ y # t.root
    BY <1>3, <1>4 DEF SameNodes, Nodes, Clash
  <2>2. t.node[y].parent \in Nodes(t)
    BY <1>1, <2>1, ParentIs
  <2>3. t.node[y].parent # t.root /\ IsRed(t, t.node[y].parent)
    BY <1>3, <1>4, <2>1, <2>2 DEF Clash
  <2>4. y = x
    BY <1>1, <2>1, <2>3 DEF Clash, ClashOnly
  <2>5. t.node[t.node[y].parent].parent = nil
    BY <2>3, <2>4
  <2> QED BY <1>1, <2>2, <2>3, <2>5, ParentIs
<1> QED BY <1>3, <1>4 DEF u, ClashOnly

(* A tree between calls.                                                   *)
Settled(t, sub, h) ==
  /\ Tree(t, sub, h, nil, "left")
  /\ ClashOnly(t, {})
  /\ IsRed(t, t.root) => Nodes(t) = {t.root}

(* The nodes with an entry more.                                           *)
PutTo(t, u, k, v) ==
  /\ DOMAIN u.node = DOMAIN t.node \cup {k}
  /\ \A y \in DOMAIN t.node \cup {k} :
       u.node[y].value = IF y = k THEN v ELSE t.node[y].value

(* The first node becomes a black root.                                    *)
LEMMA FirstSettled ==
  ASSUME NEW t, NEW sub, NEW h, Tree(t, sub, h, nil, "left"), t.root = nil,
         NEW k \in Keys, k # nil, k \notin Nodes(t), NEW v
  PROVE  LET u == Paint([Grow(t, k, nil, v) EXCEPT !.root = k], {k}, {})
         IN  PutTo(t, u, k, v) /\ \E low, l : Settled(u, low, l)
           /\ ~IsRed(u, u.root)
<1> DEFINE a == Grow(t, k, nil, v)
           b == [a EXCEPT !.root = k]
           u == Paint(b, {k}, {})
           low == [y \in {nil, k} |-> IF y = k THEN {k} ELSE {}]
           l == [y \in {nil, k} |-> IF y = k THEN 1 ELSE 0]
<1>1. Shape(t, sub) /\ IsTree(t)
  BY DEF Tree, Shape
<1>2. DOMAIN t.node = {nil} /\ t.node[nil] = Nil
  <2>1. nil \in DOMAIN t.node /\ t.node[nil] = Nil
    BY <1>1 DEF Shape
  <2>2. \A y \in DOMAIN t.node : y = nil
    BY <1>1 DEF Shape, Nodes
  <2> QED BY <2>1, <2>2
<1>3. /\ IsTree(a) /\ a.root = t.root /\ DOMAIN a.node = {nil, k}
      /\ a.node[k] = Fresh(nil, v) /\ a.node[nil] = Nil
  <2>1. k \notin DOMAIN t.node
    BY <1>2
  <2>2. /\ IsTree(a) /\ a.root = t.root
             /\ DOMAIN a.node = DOMAIN t.node \cup {k}
        /\ a.node[k] = Fresh(nil, v)
        /\ \A y \in DOMAIN t.node : a.node[y] = t.node[y]
    BY <1>1, <2>1, GrownIs
  <2> HIDE DEF a
  <2>3. DOMAIN t.node \cup {k} = {nil, k}
    BY <1>2
  <2>4. a.node[nil] = Nil
    BY <1>2, <2>2
  <2> QED BY <2>2, <2>3, <2>4
<1> HIDE DEF a
<1>4. IsTree(b) /\ b.root = k /\ b.node = a.node
  BY <1>3, RootIsSet DEF RootSetTo, SameNodes
<1> HIDE DEF b
<1>5. PaintedTo(b, u, {k}, {})
  BY <1>4, Painted
<1> HIDE DEF u
<1>6. /\ IsTree(u) /\ DOMAIN u.node = {nil, k} /\ u.root = k /\ Nodes(u) = {k}
      /\ u.node[k].value = v /\ u.node[nil].value = NULL
      /\ u.node[k].parent = nil /\ u.node[nil].parent = nil
      /\ \A s \in Sides : u.node[k][s] = nil /\ u.node[nil][s] = nil
  BY <1>3, <1>4, <1>5 DEF PaintedTo, SameNodes, SameLinks, Nodes, Fresh, Nil,
     Sides
<1>7. ~u.node[k].red
  <2>1. u.node[k].red = IF k \in {k} \cup {} THEN k \in {} ELSE b.node[k].red
    BY <1>3, <1>4, <1>5, Zenon DEF PaintedTo
  <2> QED BY <2>1, Zenon
<1>8. u.node[nil].red = FALSE
  <2>1. nil \in DOMAIN b.node /\ nil \notin {k} \cup {}
    BY <1>3, <1>4
  <2>2. u.node[nil].red = b.node[nil].red
    BY <1>5, <2>1, Zenon DEF PaintedTo
  <2>3. b.node[nil].red = FALSE
    BY <1>3, <1>4 DEF Nil, Fresh
  <2> QED BY <2>2, <2>3
<1>9. u.node[nil] = Nil
  <2>1. IsNode(u.node[nil])
    BY <1>6 DEF IsTree
  <2>2. u.node[nil].left = nil /\ u.node[nil].right = nil
    BY <1>6 DEF Sides
  <2>3. Nil = [left |-> nil, right |-> nil, parent |-> nil, red |-> FALSE, value |-> NULL]
    <3>1. IsNode(Nil)
      BY <1>1, <1>2 DEF IsTree
    <3>2. Nil = [left |-> Nil.left, right |-> Nil.right, parent |-> Nil.parent,
                 red |-> Nil.red, value |-> Nil.value]
      BY <3>1 DEF IsNode
    <3>3. Nil.left = nil /\ Nil.right = nil /\ Nil.parent = nil
            /\ Nil.value = NULL
      BY DEF Nil, Fresh
    <3>4. Nil.red = FALSE
      BY DEF Nil, Fresh
    <3> QED BY <3>2, <3>3, <3>4
  <2>4. u.node[nil] = [left |-> u.node[nil].left, right |-> u.node[nil].right,
                       parent |-> u.node[nil].parent, red |-> u.node[nil].red,
                       value |-> u.node[nil].value]
    BY <2>1 DEF IsNode
  <2> QED BY <1>6, <1>8, <2>2, <2>3, <2>4
<1>10. Shape(u, low)
  BY <1>6, <1>9 DEF Shape, Nodes
<1>11. HeightsBut(u, l, nil, "left", {})
  <2>1. Black(u, k) = 1 /\ \A s \in Sides : Debt(nil, "left", k, s) = 0
    BY <1>7 DEF Black, IsRed, Debt
  <2>2. Even(u, l, nil, "left", k)
    BY <1>6, <2>1 DEF Even
  <2> QED BY <1>6, <2>2 DEF HeightsBut
<1>12. Settled(u, low, l) /\ ~IsRed(u, u.root)
  BY <1>6, <1>7, <1>10, <1>11 DEF Settled, Tree, ClashOnly, Clash, IsRed, Sides
<1>13. PutTo(t, u, k, v)
  BY <1>2, <1>6 DEF PutTo, Nil, Fresh
<1> QED BY <1>12, <1>13 DEF u, b, a

(* Any other is a red leaf.                                                *)
LEMMA PlantedGrown ==
  ASSUME NEW sub, NEW h, Settled(tree, sub, h), NEW k \in Keys,
           k \notin Nodes(tree),
         NEW p, p # nil, NEW path, Passed(p, k, path), NEW v,
         NEW u, GrownTo(tree, u, k, p, v)
  PROVE  PutTo(tree, u, k, v) /\ \E low, l : Grown(u, low, l, k)
<1> DEFINE low == GrownSub(tree, sub, k, path)
           l == [y \in DOMAIN u.node |-> IF y = k THEN 0 ELSE h[y]]
           s == Toward(p, k)
<1>1. Shape(tree, sub) /\ HeightsBut(tree, h, nil, "left", {})
        /\ ClashOnly(tree, {})
  BY DEF Settled, Tree
<1>2. Shape(u, low) /\ Nodes(u) = Nodes(tree) \cup {k}
  BY <1>1, PlantedShape
<1>3. /\ DOMAIN u.node = DOMAIN tree.node \cup {k} /\ k \notin DOMAIN tree.node
      /\ nil \in DOMAIN tree.node /\ p \in Nodes(tree) /\ p \in DOMAIN tree.node
      /\ k # nil /\ k # p /\ tree.node[p][s] = nil
      /\ \A y \in Nodes(tree) : y \in DOMAIN tree.node /\ y # nil
  <2>1. k # nil
    BY KeysAssumption DEF nil
  <2>2. k \notin DOMAIN tree.node
    BY <2>1 DEF Nodes
  <2>3. p \in Nodes(tree) /\ tree.node[p][s] = nil
    BY DEF Passed
  <2>4. nil \in DOMAIN tree.node
    BY <1>1 DEF Shape
  <2> QED BY <2>1, <2>2, <2>3, <2>4 DEF GrownTo, Nodes
<1>4. /\ u.node[k] = Fresh(p, v)
      /\ \A y \in DOMAIN tree.node :
           /\ u.node[y].parent = tree.node[y].parent
                /\ u.node[y].red = tree.node[y].red
           /\ u.node[y].value = tree.node[y].value
           /\ \A g \in Sides :
                u.node[y][g] = IF y = p /\ g = s THEN k ELSE tree.node[y][g]
  BY DEF GrownTo
<1> HIDE DEF s, low
<1>5. \A y \in DOMAIN tree.node : l[y] = h[y]
  BY <1>3
<1>6. l[k] = 0 /\ l[nil] = 0 /\ \A y \in DOMAIN u.node : l[y] \in Nat
  BY <1>1, <1>3 DEF HeightsBut
<1> HIDE DEF l
<1>7. ASSUME NEW y \in DOMAIN tree.node PROVE IsRed(u, y) <=> IsRed(tree, y)
  BY <1>4, Zenon DEF IsRed
<1>8. IsRed(u, k) /\ u.node[k].parent = p /\ u.node[k].value = v
      /\ \A g \in Sides : u.node[k][g] = nil
  BY <1>4 DEF IsRed, Fresh, Sides
<1>9. ASSUME NEW y \in Nodes(tree) PROVE Even(u, l, nil, "left", y)
  <2>1. y \in DOMAIN tree.node
    BY <1>3
  <2>2. Black(u, y) = Black(tree, y)
    BY <1>7, <2>1 DEF Black
  <2>3. ASSUME NEW g \in Sides PROVE l[u.node[y][g]] = h[tree.node[y][g]]
    <3>1. tree.node[y][g] \in DOMAIN tree.node
      BY <1>1, ChildIs
    <3>2. CASE y = p /\ g = s
      <4>1. u.node[y][g] = k /\ tree.node[y][g] = nil
        BY <1>3, <1>4, <2>1, <3>2
      <4> QED BY <1>1, <1>6, <4>1 DEF HeightsBut
    <3>3. CASE ~(y = p /\ g = s)
      <4>1. u.node[y][g] = tree.node[y][g]
        BY <1>4, <2>1, <3>3
      <4> QED BY <1>5, <3>1, <4>1
    <3> QED BY <3>2, <3>3
  <2>4. Even(tree, h, nil, "left", y)
    BY <1>1 DEF HeightsBut
  <2> QED BY <1>5, <2>1, <2>2, <2>3, <2>4 DEF Even
<1>10. Even(u, l, nil, "left", k)
  <2>1. Black(u, k) = 0 /\ \A g \in Sides : Debt(nil, "left", k, g) = 0
    BY <1>3, <1>8 DEF Black, Debt
  <2> QED BY <1>6, <1>8, <2>1 DEF Even
<1>11. Tree(u, low, l, nil, "left")
  <2>1. HeightsBut(u, l, nil, "left", {})
    BY <1>2, <1>6, <1>9, <1>10 DEF HeightsBut
  <2> QED BY <1>2, <2>1 DEF Tree, Sides, low
<1>12. ASSUME NEW y \in Nodes(u), Clash(u, y) PROVE y = k
  <2> SUFFICES ASSUME y # k PROVE FALSE
    OBVIOUS
  <2>1. y \in Nodes(tree) /\ y \in DOMAIN tree.node
    BY <1>2, <1>3
  <2>2. tree.node[y].parent \in DOMAIN tree.node
    BY <1>1, <2>1, ParentIs
  <2>3. Clash(tree, y)
    BY <1>4, <1>7, <1>12, <2>1, <2>2 DEF Clash
  <2> QED BY <1>1, <2>1, <2>3 DEF ClashOnly
<1>13. Grown(u, low, l, k)
  BY <1>2, <1>8, <1>11, <1>12 DEF Grown, ClashOnly
<1>14. PutTo(tree, u, k, v)
  BY <1>3, <1>4, <1>8 DEF PutTo
<1> QED BY <1>13, <1>14

(* Another value.                                                          *)
LEMMA ValueSettled ==
  ASSUME NEW t, NEW sub, NEW h, Settled(t, sub, h), NEW k \in Nodes(t), NEW v
  PROVE  LET u == [t EXCEPT !.node[k].value = v]
         IN  PutTo(t, u, k, v) /\ Settled(u, sub, h)
<1> DEFINE n == [t.node[k] EXCEPT !.value = v]
           u == [t EXCEPT !.node[k].value = v]
<1>1. /\ Shape(t, sub) /\ IsTree(t) /\ HeightsBut(t, h, nil, "left", {})
           /\ ClashOnly(t, {})
      /\ k \in DOMAIN t.node /\ k # nil /\ nil \in DOMAIN t.node
  BY DEF Settled, Tree, Shape, Nodes
<1>2. /\ IsNode(n) /\ n.left = t.node[k].left /\ n.right = t.node[k].right
      /\ n.parent = t.node[k].parent /\ n.red = t.node[k].red /\ n.value = v
  <2>1. IsNode(t.node[k])
    BY <1>1 DEF IsTree
  <2>2. t.node[k] = [left |-> t.node[k].left, right |-> t.node[k].right,
                     parent |-> t.node[k].parent, red |-> t.node[k].red,
                     value |-> t.node[k].value]
    BY <2>1 DEF IsNode
  <2>3. n = [left |-> t.node[k].left, right |-> t.node[k].right,
             parent |-> t.node[k].parent, red |-> t.node[k].red, value |-> v]
    BY <2>2
  <2> QED BY <2>3 DEF IsNode
<1>3. u = [t EXCEPT !.node[k] = n]
  BY <1>1 DEF IsTree
<1> HIDE DEF n, u
<1>4. /\ IsTree(u) /\ u.root = t.root /\ DOMAIN u.node = DOMAIN t.node
      /\ u.node[k] = n
      /\ \A y \in DOMAIN t.node : y # k => u.node[y] = t.node[y]
  BY <1>1, <1>2, <1>3, NodeSet
<1>5. /\ Nodes(u) = Nodes(t) /\ u.node[nil] = t.node[nil]
      /\ \A y \in DOMAIN t.node :
           /\ u.node[y].parent = t.node[y].parent
           /\ \A e \in Sides : u.node[y][e] = t.node[y][e]
  BY <1>1, <1>2, <1>4 DEF Nodes, Sides
<1>6. ASSUME NEW y \in DOMAIN t.node PROVE IsRed(u, y) <=> IsRed(t, y)
  <2>1. u.node[y].red = t.node[y].red
    <3>1. CASE y = k
      <4>1. u.node[y].red = n.red
        BY <1>4, <3>1
      <4> QED BY <1>2, <3>1, <4>1
    <3>2. CASE y # k
      BY <1>4, <3>2
    <3> QED BY <3>1, <3>2
  <2> QED BY <2>1, Zenon DEF IsRed
<1>7. Shape(u, sub)
  <2>1. /\ t.root \in DOMAIN t.node /\ t.node[t.root].parent = nil
        /\ \A x \in Nodes(t) : x \in DOMAIN t.node
             /\ t.node[x].parent \in DOMAIN t.node
                               /\ \A s \in Sides : t.node[x][s] \in DOMAIN t.node
    BY <1>1, ParentIs, ChildIs DEF Shape, Nodes
  <2>2. ASSUME NEW x \in Nodes(t)
        PROVE  /\ x # u.root => /\ u.node[x].parent \in Nodes(t)
                                /\ \E s \in Sides : u.node[u.node[x].parent][s] = x
               /\ \A y \in Nodes(t) :
                    y \in sub[x] <=> \/ y = x
                                     \/ \E s \in Sides : y \in sub[u.node[x][s]]
               /\ \A s \in Sides :
                    /\ u.node[x][s] \in DOMAIN t.node
                    /\ u.node[x][s] # nil => u.node[u.node[x][s]].parent = x
                    /\ \A y \in Nodes(t) : y \in sub[u.node[x][s]]
                         => Beyond(s, x, y)
    <3>1. u.node[x].parent = t.node[x].parent
            /\ \A s \in Sides : u.node[x][s] = t.node[x][s]
      BY <1>5, <2>1
    <3>2. x # u.root => /\ u.node[x].parent \in Nodes(t)
                        /\ \E s \in Sides : u.node[u.node[x].parent][s] = x
      <4>1. x # t.root => /\ t.node[x].parent \in Nodes(t)
                          /\ \E s \in Sides : t.node[t.node[x].parent][s] = x
        BY <1>1 DEF Shape
      <4> QED BY <1>4, <1>5, <2>1, <3>1, <4>1
    <3>3. \A y \in Nodes(t) :
            y \in sub[x] <=> \/ y = x
                             \/ \E s \in Sides : y \in sub[u.node[x][s]]
      <4>1. \A y \in Nodes(t) :
            y \in sub[x] <=> \/ y = x
                             \/ \E s \in Sides : y \in sub[t.node[x][s]]
        BY <1>1 DEF Shape
      <4> QED BY <3>1, <4>1
    <3>4. ASSUME NEW s \in Sides
          PROVE  /\ u.node[x][s] \in DOMAIN t.node
                 /\ u.node[x][s] # nil => u.node[u.node[x][s]].parent = x
                 /\ \A y \in Nodes(t) : y \in sub[u.node[x][s]]
                      => Beyond(s, x, y)
      <4>1. /\ t.node[x][s] \in DOMAIN t.node
            /\ t.node[x][s] # nil => t.node[t.node[x][s]].parent = x
            /\ \A y \in Nodes(t) : y \in sub[t.node[x][s]] => Beyond(s, x, y)
        BY <1>1 DEF Shape
      <4> QED BY <1>5, <3>1, <4>1
    <3> QED BY <3>2, <3>3, <3>4
  <2> QED BY <1>1, <1>4, <1>5, <2>1, <2>2 DEF Shape
<1>8. HeightsBut(u, h, nil, "left", {})
  <2>1. ASSUME NEW y \in Nodes(t) PROVE Even(u, h, nil, "left", y)
    <3>1. y \in DOMAIN t.node /\ Black(u, y) = Black(t, y)
      BY <1>6 DEF Black, Nodes
    <3>2. Even(t, h, nil, "left", y)
      BY <1>1 DEF HeightsBut
    <3> QED BY <1>5, <3>1, <3>2 DEF Even
  <2> QED BY <1>1, <1>4, <1>5, <2>1 DEF HeightsBut
<1>9. ClashOnly(u, {})
  <2>1. ASSUME NEW y \in Nodes(t) PROVE ~Clash(u, y)
    <3>1. y \in DOMAIN t.node /\ t.node[y].parent \in DOMAIN t.node
      BY <1>1, ParentIs DEF Nodes
    <3>2. ~Clash(t, y)
      BY <1>1 DEF ClashOnly
    <3> QED BY <1>5, <1>6, <3>1, <3>2 DEF Clash
  <2> QED BY <1>5, <2>1 DEF ClashOnly
<1>10. IsRed(u, u.root) => Nodes(u) = {u.root}
  BY <1>1, <1>4, <1>5, <1>6 DEF Settled, Shape
<1>11. Settled(u, sub, h)
  BY <1>7, <1>8, <1>9, <1>10 DEF Settled, Tree, Sides
<1>12. PutTo(t, u, k, v)
  BY <1>1, <1>2, <1>4 DEF PutTo
<1> QED BY <1>11, <1>12 DEF u

-----------------------------------------------------------------------------
(* tmap_delete_rebalance().                                                *)

(* A tree in which the paths through n, on the side d of q, are one black  *)
(* node short, unless n is the root.                                       *)
Removing(t, sub, h, n, q, d) ==
  /\ Tree(t, sub, h, q, d)
  /\ t.root # nil /\ ~IsRed(t, t.root)
  /\ n \in DOMAIN t.node
  /\ n = t.root => q = nil
  /\ n # t.root => q \in Nodes(t) /\ t.node[q][d] = n
  /\ \A y \in Nodes(t) : Clash(t, y) => y = n \/ t.node[y].parent = n

(* Of n, q above it, w beside it, and the children of w.                   *)
Around(t, h, n, q, d, w, in, out) ==
  LET o == Opposite(d)
  IN  /\ n \in DOMAIN t.node /\ q \in Nodes(t) /\ d \in Sides
      /\ t.node[q][d] = n /\ SideOf(t, n, q) = d
      /\ n # q /\ w # n /\ w # q /\ w # t.root
      /\ w \in Nodes(t) /\ t.node[q][o] = w /\ t.node[w].parent = q
      /\ SideOf(t, w, q) = o
      /\ in \in DOMAIN t.node /\ t.node[w][d] = in /\ in \notin {q, w}
      /\ out \in DOMAIN t.node /\ t.node[w][o] = out /\ out \notin {q, w}
      /\ in # nil => in \in Nodes(t) /\ t.node[in].parent = w /\ in # n
           /\ in # out
      /\ out # nil => out \in Nodes(t) /\ t.node[out].parent = w /\ out # n
      /\ n # nil => n \in Nodes(t) /\ t.node[n].parent = q
      /\ h[n] \in Nat /\ h[w] = h[n] + 1 /\ h[q] = h[n] + 1 + Black(t, q)
      /\ h[in] \in Nat /\ h[in] = h[out] /\ h[w] = h[in] + Black(t, w)
      /\ ~IsRed(t, n) /\ ClashOnly(t, {})

LEMMA AroundIs ==
  ASSUME NEW t, NEW sub, NEW h, NEW n, NEW q, NEW d,
           Removing(t, sub, h, n, q, d),
         n # t.root, ~IsRed(t, n)
  PROVE  LET w == t.node[q][Opposite(d)]
         IN  Around(t, h, n, q, d, w, t.node[w][d], t.node[w][Opposite(d)])
<1> DEFINE o == Opposite(d)
           w == t.node[q][o]
           in == t.node[w][d]
           out == t.node[w][o]
<1>1. /\ Tree(t, sub, h, q, d) /\ Shape(t, sub) /\ d \in Sides
      /\ n \in DOMAIN t.node /\ q \in Nodes(t) /\ t.node[q][d] = n
  BY DEF Removing, Tree
<1>2. o \in Sides /\ o # d /\ Opposite(o) = d
  BY <1>1, SidesAre
<1>3. /\ h[nil] = 0 /\ ~IsRed(t, nil) /\ nil \in DOMAIN t.node
      /\ \A x \in DOMAIN t.node : h[x] \in Nat
      /\ \A x : Black(t, x) \in 0..1 /\ (Black(t, x) = 0 <=> IsRed(t, x))
      /\ \A x \in Nodes(t) : x \in DOMAIN t.node /\ x # nil
      /\ \A x \in Nodes(t), s \in Sides :
           h[x] = h[t.node[x][s]] + Black(t, x) + Debt(q, d, x, s)
  BY <1>1, HeightsAre
<1> HIDE DEF o
<1>4. w \in DOMAIN t.node /\ h[w] = h[n] + 1 /\ h[q] = h[n] + 1 + Black(t, q)
        /\ h[n] \in Nat
  <2>1. w \in DOMAIN t.node
    BY <1>1, <1>2, ChildIs
  <2>2. Debt(q, d, q, d) = 1 /\ Debt(q, d, q, o) = 0
    BY <1>2 DEF Debt
  <2>3. h[q] = h[n] + Black(t, q) + 1 /\ h[q] = h[w] + Black(t, q) + 0
    BY <1>1, <1>2, <1>3, <2>2
  <2>4. h[n] \in Nat /\ h[w] \in Nat /\ Black(t, q) \in 0..1
    BY <1>1, <1>3, <2>1
  <2> HIDE DEF w
  <2> QED BY <2>1, <2>3, <2>4
<1>5. w # nil
  BY <1>3, <1>4
<1>6. /\ w \in Nodes(t) /\ w # q /\ w # t.root /\ w # n /\ t.node[w].parent = q
  BY <1>1, <1>2, <1>5, ChildIs DEF o
<1>7. SideOf(t, w, q) = o /\ SideOf(t, n, q) = d
  <2>1. SideOf(t, w, q) = o
    BY <1>1, <1>2, <1>5, SideIs
  <2>2. n # w /\ t.node[q][d] = n /\ t.node[q][o] = w /\ o \in Sides
          /\ d \in Sides /\ o # d
    BY <1>1, <1>2, <1>6
  <2>3. SideOf(t, n, q) = d
    <3> HIDE DEF w
    <3> QED BY <2>2 DEF SideOf, Sides
  <2> QED BY <2>1, <2>3
<1>8. n # nil => n \in Nodes(t) /\ t.node[n].parent = q /\ n # q
  BY <1>1, ChildIs
<1>9. n # q
  BY <1>1, <1>3, <1>8
<1> HIDE DEF w
<1>10. /\ in \in DOMAIN t.node /\ out \in DOMAIN t.node
       /\ in # nil => in \in Nodes(t) /\ t.node[in].parent = w /\ in # w
       /\ out # nil => out \in Nodes(t) /\ t.node[out].parent = w /\ out # w
  BY <1>1, <1>2, <1>6, ChildIs
<1>11. in # nil => in # out
  BY <1>1, <1>2, <1>6, ChildIs DEF o
<1>12. q # in /\ q # out
  <2>1. t.node[w].parent # nil /\ SideOf(t, w, q) \in Sides
    BY <1>1, <1>2, <1>3, <1>6, <1>7
  <2>2. q \notin sub[w]
    BY <1>1, <1>6, <2>1, ParentIs
  <2>3. in # nil => in \in sub[w]
    BY <1>1, <1>2, <1>6, ChildIs
  <2>4. out # nil => out \in sub[w]
    BY <1>1, <1>2, <1>6, ChildIs
  <2> QED BY <1>1, <1>3, <2>2, <2>3, <2>4
<1>13. h[in] \in Nat /\ h[in] = h[out] /\ h[w] = h[in] + Black(t, w)
  <2>1. \A s \in Sides : Debt(q, d, w, s) = 0
    BY <1>6 DEF Debt
  <2>2. h[w] = h[in] + Black(t, w) + 0 /\ h[w] = h[out] + Black(t, w) + 0
    BY <1>1, <1>2, <1>3, <1>6, <2>1
  <2>3. h[in] \in Nat /\ h[out] \in Nat /\ Black(t, w) \in 0..1
    BY <1>3, <1>10
  <2> HIDE DEF in, out
  <2> QED BY <2>2, <2>3
<1>14. ClashOnly(t, {})
  BY DEF Removing, Clash, ClashOnly
<1>15. (in # nil => in # n) /\ (out # nil => out # n)
  BY <1>6, <1>8, <1>9, <1>10, <1>3
<1>16. in \notin {q, w} /\ out \notin {q, w}
  BY <1>3, <1>6, <1>10, <1>12
<1> HIDE DEF in, out
<1>17. Around(t, h, n, q, d, w, in, out)
  <2>1. t.node[q][o] = w /\ t.node[w][d] = in /\ t.node[w][o] = out
    BY DEF w, in, out
  <2> QED BY <1>1, <1>4, <1>6, <1>7, <1>8, <1>9, <1>10, <1>11, <1>13, <1>14,
             <1>15, <1>16, <2>1 DEF Around, o
<1> QED BY <1>17 DEF in, out, w, o

(* A debt of a node that is left out may be another.                       *)
LEMMA ButDebt ==
  ASSUME NEW t, NEW h, NEW q, NEW d, NEW X, HeightsBut(t, h, q, d, X),
         q \in X, NEW p, NEW e, p \in X \/ p = nil
  PROVE  HeightsBut(t, h, p, e, X)
<1>1. ASSUME NEW x \in Nodes(t) \ X PROVE Even(t, h, p, e, x)
  <2>1. \A s \in Sides : Debt(q, d, x, s) = 0 /\ Debt(p, e, x, s) = 0
    BY DEF Debt, Nodes
  <2>2. Even(t, h, q, d, x)
    BY DEF HeightsBut
  <2> QED BY <2>1, <2>2 DEF Even
<1> QED BY <1>1 DEF HeightsBut

(* A red sibling is turned away.                                           *)
LEMMA RedSiblingRemoving ==
  ASSUME NEW t, NEW sub, NEW h, NEW n, NEW q, NEW d,
           Removing(t, sub, h, n, q, d),
         NEW w, NEW in, NEW out, Around(t, h, n, q, d, w, in, out), IsRed(t, w)
  PROVE  LET u == Rotate(Paint(t, {w}, {q}), q, d)
         IN  SameNodes(t, u) /\ n # u.root
           /\ \E low, l : Removing(u, low, l, n, q, d)
<1> DEFINE o == Opposite(d)
           a == Paint(t, {w}, {q})
           u == Rotate(a, q, d)
           X == {q, w}
           l == Lifted(a, h, q, w, h[w])
           low == RotatedSub(a, sub, q, d)
<1>1. Tree(t, sub, h, q, d) /\ Shape(t, sub) /\ IsTree(t)
        /\ HeightsBut(t, h, q, d, {})
      /\ ~IsRed(t, t.root) /\ t.root # nil
  BY DEF Removing, Tree, Shape
<1>2. /\ n \in DOMAIN t.node /\ q \in Nodes(t) /\ d \in Sides
      /\ t.node[q][d] = n
      /\ n # q /\ w # n /\ w # q /\ w # t.root
      /\ w \in Nodes(t) /\ t.node[q][o] = w /\ t.node[w].parent = q
      /\ in \in DOMAIN t.node /\ t.node[w][d] = in /\ in \notin {q, w}
      /\ out \in DOMAIN t.node /\ t.node[w][o] = out /\ out \notin {q, w}
      /\ in # nil => in \in Nodes(t) /\ t.node[in].parent = w
      /\ n # nil => t.node[n].parent = q
      /\ ~IsRed(t, n) /\ ClashOnly(t, {})
  BY DEF Around
<1>3. /\ h[n] \in Nat /\ h[w] = h[n] + 1 /\ h[q] = h[n] + 1 + Black(t, q)
      /\ h[in] \in Nat /\ h[in] = h[out] /\ h[w] = h[in] + Black(t, w)
  BY DEF Around
<1>4. o \in Sides /\ o # d /\ Opposite(o) = d /\ \A e \in Sides : e = d \/ e = o
  BY <1>2, SidesAre
<1>5. ~IsRed(t, nil) /\ \A z \in Nodes(t) : z \in DOMAIN t.node /\ z # nil
  BY <1>1, HeightsAre
<1>6. ~IsRed(t, q)
  <2>1. Clash(t, w) <=> IsRed(t, q)
    BY <1>2 DEF Clash
  <2> QED BY <1>2, <2>1 DEF ClashOnly
<1>7. h[q] = h[n] + 2 /\ h[in] = h[n] + 1 /\ h[out] = h[n] + 1
  <2>1. Black(t, q) = 1 /\ Black(t, w) = 0
    BY <1>6 DEF Black
  <2> QED BY <1>3, <2>1
<1>8. ~IsRed(t, in)
  <2>1. in # nil => (Clash(t, in) <=> IsRed(t, in))
    BY <1>2 DEF Clash
  <2> QED BY <1>2, <1>5, <2>1 DEF ClashOnly
<1>9. /\ DOMAIN a.node = DOMAIN t.node /\ Nodes(a) = Nodes(t)
      /\ a.root = t.root
      /\ \A y \in DOMAIN t.node :
           /\ a.node[y].parent = t.node[y].parent
           /\ \A e \in Sides : a.node[y][e] = t.node[y][e]
  BY <1>1, PaintLinks
<1>10. ColoursPainted(t, a, {w}, {q}) /\ SameNodes(t, a)
  BY <1>1, PaintColours, PaintKeeps
<1>11. Shape(a, sub)
  <2>1. nil \notin {q}
    BY <1>2, <1>5
  <2> QED BY <1>1, <2>1, PaintShape
<1>12. HeightsBut(a, h, q, d, X)
  <2>1. HeightsBut(t, h, q, d, X)
    BY <1>1, ButMore
  <2> QED BY <1>1, <2>1, PaintHeights
<1> HIDE DEF a, o
<1>13. /\ q \in DOMAIN t.node /\ w \in DOMAIN t.node /\ q # nil /\ w # nil
       /\ q \in Nodes(a) /\ a.node[q][Opposite(d)] = w /\ a.node[w][d] = in
       /\ a.node[w][o] = out /\ a.node[q][d] = n
  BY <1>2, <1>4, <1>5, <1>9 DEF o
<1>14. TurnedTo(a, u, q, d, w, in, a.node[q].parent) /\ Shape(u, low)
         /\ SameNodes(a, u)
  BY <1>2, <1>11, <1>13, TurnIs, RotateShape, RotateKeeps
<1>15. HeightsBut(u, l, q, d, X)
  <2>1. h[w] \in Nat
    BY <1>3
  <2>2. q \in X /\ a.node[q][Opposite(d)] \in X
    BY <1>13
  <2> HIDE DEF X, u, l
  <2>3. HeightsBut(u, Lifted(a, h, q, a.node[q][Opposite(d)], h[w]), q, d, X)
    BY <1>2, <1>11, <1>12, <1>13, <2>1, <2>2, TurnHeights DEF u
  <2> QED BY <1>13, <2>3 DEF l
<1> HIDE DEF u, low
<1>16. /\ DOMAIN u.node = DOMAIN t.node /\ Nodes(u) = Nodes(t)
       /\ u.root = IF a.node[q].parent = nil THEN w ELSE t.root
       /\ \A y \in DOMAIN t.node :
           /\ IsRed(u, y) <=> IsRed(a, y)
           /\ u.node[y].parent =
                IF y = in /\ in # nil THEN q
                ELSE IF y = q THEN w ELSE IF y = w THEN t.node[q].parent
                ELSE t.node[y].parent
       /\ u.node[q][d] = n /\ u.node[q][o] = in
       /\ u.node[w][d] = q /\ u.node[w][o] = out
  BY <1>9, <1>13, <1>14 DEF TurnedTo, o
<1>17. \A y \in DOMAIN t.node :
         l[y] = IF y = w THEN h[q] ELSE IF y = q THEN h[w] ELSE h[y]
  BY <1>9 DEF Lifted
<1> HIDE DEF l
<1>18. /\ IsRed(u, q) /\ ~IsRed(u, w)
       /\ \A y \in DOMAIN t.node : y \notin {q, w}
            => (IsRed(u, y) <=> IsRed(t, y))
  BY <1>2, <1>10, <1>13, <1>16 DEF ColoursPainted
<1>19. l[q] = h[n] + 1 /\ l[w] = h[n] + 2 /\ l[n] = h[n] /\ l[in] = h[n] + 1
         /\ l[out] = h[n] + 1
  BY <1>2, <1>3, <1>7, <1>13, <1>17
<1>20. Even(u, l, q, d, q)
  <2>1. Black(u, q) = 0 /\ Debt(q, d, q, d) = 1 /\ Debt(q, d, q, o) = 0
    BY <1>4, <1>18 DEF Black, Debt
  <2>2. /\ l[q] = l[u.node[q][d]] + Black(u, q) + Debt(q, d, q, d)
        /\ l[q] = l[u.node[q][o]] + Black(u, q) + Debt(q, d, q, o)
    BY <1>3, <1>16, <1>19, <2>1
  <2> QED BY <1>4, <2>2 DEF Even
<1>21. Even(u, l, q, d, w)
  <2>1. Black(u, w) = 1 /\ \A e \in Sides : Debt(q, d, w, e) = 0
    BY <1>2, <1>18 DEF Black, Debt
  <2>2. \A e \in Sides : l[u.node[w][e]] = h[n] + 1
    BY <1>4, <1>16, <1>19
  <2> QED BY <1>3, <1>19, <2>1, <2>2 DEF Even
<1>22. Tree(u, low, l, q, d)
  <2>1. HeightsBut(u, l, q, d, {})
    BY <1>15, <1>20, <1>21, AllEven
  <2> QED BY <1>2, <1>14, <2>1 DEF Tree, u, low
<1>23. u.root # nil /\ ~IsRed(u, u.root) /\ u.root # n
  <2>1. CASE a.node[q].parent = nil
    BY <1>2, <1>13, <1>16, <1>18, <2>1
  <2>2. CASE a.node[q].parent # nil
    <3>1. t.root # q
      BY <1>1, <1>9, <1>13, <2>2 DEF Shape
    <3>2. t.root \in DOMAIN t.node
      BY <1>1 DEF Shape
    <3>3. t.root # n
      <4>1. n # nil => n # t.root
        BY <1>1, <1>2, ChildIs
      <4> QED BY <1>1, <4>1
    <3> QED BY <1>1, <1>2, <1>16, <1>18, <2>2, <3>1, <3>2, <3>3
  <2> QED BY <2>1, <2>2
<1>24. ASSUME NEW y \in Nodes(u), Clash(u, y) PROVE FALSE
  <2>1. y \in DOMAIN t.node /\ y \in Nodes(t)
          /\ t.node[y].parent \in DOMAIN t.node
    BY <1>1, <1>5, <1>16, ParentIs
  <2>2. IsRed(u, y) /\ IsRed(u, u.node[y].parent) /\ y # w
    BY <1>18, <1>24 DEF Clash
  <2>3. CASE y = in /\ in # nil
    BY <1>2, <1>8, <1>18, <2>2, <2>3
  <2>4. CASE y = q
    BY <1>2, <1>13, <1>16, <1>18, <2>2, <2>4
  <2>5. CASE y # q /\ ~(y = in /\ in # nil)
    <3>1. u.node[y].parent = t.node[y].parent
      BY <1>16, <2>1, <2>2, <2>5
    <3>2. IsRed(t, y)
      BY <1>18, <2>1, <2>2, <2>5
    <3>3. t.node[y].parent # w
      BY <1>18, <2>2, <3>1
    <3>4. t.node[y].parent # q
      <4> SUFFICES ASSUME t.node[y].parent = q PROVE FALSE
        OBVIOUS
      <4>1. t.node[q][SideOf(t, y, q)] = y /\ SideOf(t, y, q) \in Sides
        BY <1>1, <1>13, <2>1, ParentIs
      <4>2. y = n \/ y = w
        BY <1>2, <1>4, <4>1
      <4> QED BY <1>2, <2>2, <3>2, <4>2
    <3>5. Clash(t, y)
      BY <1>18, <2>1, <2>2, <3>1, <3>2, <3>3, <3>4 DEF Clash
    <3> QED BY <1>2, <2>1, <3>5 DEF ClashOnly
  <2> QED BY <2>3, <2>4, <2>5
<1>25. Removing(u, low, l, n, q, d)
  BY <1>2, <1>16, <1>22, <1>23, <1>24 DEF Removing
<1>26. SameNodes(t, u)
  BY <1>10, <1>14, KeepsTrans DEF u
<1> QED BY <1>23, <1>25, <1>26 DEF u, a

(* A black sibling with black children gives up its black node.            *)
LEMMA RecolourRemoving ==
  ASSUME NEW t, NEW sub, NEW h, NEW n, NEW q, NEW d,
           Removing(t, sub, h, n, q, d),
         NEW w, NEW in, NEW out, Around(t, h, n, q, d, w, in, out),
         ~IsRed(t, w), ~IsRed(t, in), ~IsRed(t, out),
         NEW up, up = t.node[q].parent
  PROVE  LET u == Paint(t, {}, {w})
         IN  SameNodes(t, u) /\ \E l, p, e : /\ Removing(u, sub, l, q, p, e)
                                             /\ q # u.root => p = up
<1> DEFINE o == Opposite(d)
           u == Paint(t, {}, {w})
           X == {w, q, up}
           l == Adjusted(t, h, w, h[n], q, h[n] + Black(t, q))
           p == IF up = nil THEN nil ELSE up
           e == IF up = nil THEN "left" ELSE SideOf(t, q, up)
<1>1. Tree(t, sub, h, q, d) /\ Shape(t, sub) /\ IsTree(t)
        /\ HeightsBut(t, h, q, d, {})
      /\ ~IsRed(t, t.root) /\ t.root # nil
  BY DEF Removing, Tree, Shape
<1>2. /\ n \in DOMAIN t.node /\ q \in Nodes(t) /\ d \in Sides
      /\ t.node[q][d] = n
      /\ n # q /\ w # n /\ w # q /\ w # t.root
      /\ w \in Nodes(t) /\ t.node[q][o] = w /\ t.node[w].parent = q
      /\ in \in DOMAIN t.node /\ t.node[w][d] = in /\ in \notin {q, w}
      /\ out \in DOMAIN t.node /\ t.node[w][o] = out /\ out \notin {q, w}
      /\ in # nil => in \in Nodes(t) /\ t.node[in].parent = w
      /\ out # nil => out \in Nodes(t) /\ t.node[out].parent = w
      /\ n # nil => t.node[n].parent = q
      /\ ~IsRed(t, n) /\ ClashOnly(t, {})
  BY DEF Around
<1>3. /\ h[n] \in Nat /\ h[w] = h[n] + 1 /\ h[q] = h[n] + 1 + Black(t, q)
      /\ h[in] \in Nat /\ h[in] = h[out] /\ h[w] = h[in] + Black(t, w)
  BY DEF Around
<1>4. o \in Sides /\ o # d /\ Opposite(o) = d /\ \A z \in Sides : z = d \/ z = o
  BY <1>2, SidesAre
<1>5. /\ ~IsRed(t, nil) /\ \A z \in Nodes(t) : z \in DOMAIN t.node /\ z # nil
      /\ \A z : Black(t, z) \in 0..1
      /\ \A x \in Nodes(t), s \in Sides :
           h[x] = h[t.node[x][s]] + Black(t, x) + Debt(q, d, x, s)
      /\ \A x \in DOMAIN t.node : h[x] \in Nat
      /\ nil \in DOMAIN t.node /\ t.node[nil].parent = nil
  BY <1>1, HeightsAre
<1>6. h[in] = h[n] /\ h[out] = h[n]
  <2>1. Black(t, w) = 1
    BY DEF Black
  <2> QED BY <1>3, <2>1
<1>7. /\ DOMAIN u.node = DOMAIN t.node /\ Nodes(u) = Nodes(t)
      /\ u.root = t.root
      /\ \A y \in DOMAIN t.node :
           /\ u.node[y].parent = t.node[y].parent
           /\ \A z \in Sides : u.node[y][z] = t.node[y][z]
  BY <1>1, PaintLinks
<1>8. ColoursPainted(t, u, {}, {w}) /\ SameNodes(t, u)
  BY <1>1, PaintColours, PaintKeeps
<1>9. Shape(u, sub)
  <2>1. nil \notin {w}
    BY <1>2, <1>5
  <2> QED BY <1>1, <2>1, PaintShape
<1>10. /\ q \in DOMAIN t.node /\ w \in DOMAIN t.node /\ q # nil /\ w # nil
  BY <1>2, <1>5
<1>11. /\ up \in DOMAIN t.node /\ up # q /\ (q = t.root <=> up = nil)
       /\ up # nil => /\ up \in Nodes(t) /\ e \in Sides /\ t.node[up][e] = q
                      /\ t.node[up][Opposite(e)] # q
  BY <1>1, <1>2, ParentIs
<1>12. up # w
  <2>1. up # nil => q \in sub[up] /\ up \notin sub[q]
    <3>1. q \in sub[q]
      BY <1>1, <1>2 DEF Shape
    <3> QED BY <1>1, <1>2, <3>1, ParentIs
  <2>2. w \in sub[q]
    BY <1>1, <1>2, <1>4, <1>10, ChildIs
  <2> QED BY <1>10, <2>1, <2>2
<1> DEFINE v == h[n] + Black(t, q)
<1>13. v \in Nat /\ h[n] \in Nat /\ h[q] = v + 1 /\ Black(t, q) \in 0..1
  BY <1>3, <1>5
<1> HIDE DEF u, o, v
<1>14. HeightsBut(u, h, q, d, X)
  <2>1. HeightsBut(t, h, q, d, X)
    BY <1>1, ButMore
  <2> QED BY <1>1, <2>1, PaintHeights DEF u
<1>15. HeightsBut(u, l, q, d, X)
  <2>1. l = Adjusted(u, h, w, h[n], q, v)
    BY <1>7 DEF Adjusted, v
  <2>2. /\ w \in Nodes(u) /\ q \in Nodes(u) /\ u.node[w].parent = q
        /\ u.node[q].parent = up /\ q \in X /\ w \in X /\ up \in X
    BY <1>2, <1>7, <1>10
  <2> HIDE DEF l, X
  <2> QED BY <1>9, <1>13, <1>14, <2>1, <2>2, ChangeHeights
<1>16. \A y \in DOMAIN t.node :
         l[y] = IF y = w THEN h[n] ELSE IF y = q THEN v ELSE h[y]
  BY DEF Adjusted, v
<1> HIDE DEF l
<1>17. /\ IsRed(u, w)
       /\ \A y \in DOMAIN t.node : y # w => (IsRed(u, y) <=> IsRed(t, y))
  BY <1>8, <1>10 DEF ColoursPainted
<1>18. l[w] = h[n] /\ l[q] = v /\ l[n] = h[n] /\ l[in] = h[n] /\ l[out] = h[n]
  BY <1>2, <1>6, <1>10, <1>16
<1> DEFINE b == IF up = nil THEN nil ELSE up
           f == IF up = nil THEN "left" ELSE SideOf(t, q, up)
<1>19. b = up
  OBVIOUS
<1> HIDE DEF b, f
<1>20. Even(u, l, up, f, q)
  <2>1. Black(u, q) = Black(t, q) /\ \A z \in Sides : Debt(up, f, q, z) = 0
    BY <1>2, <1>10, <1>11, <1>17 DEF Black, Debt
  <2>2. \A z \in Sides : l[u.node[q][z]] = h[n]
    BY <1>2, <1>4, <1>7, <1>10, <1>18
  <2>3. v = h[n] + Black(t, q)
    BY DEF v
  <2> QED BY <1>13, <1>18, <2>1, <2>2, <2>3 DEF Even
<1>21. Even(u, l, up, f, w)
  <2>1. Black(u, w) = 0 /\ \A z \in Sides : Debt(up, f, w, z) = 0
    BY <1>12, <1>17 DEF Black, Debt
  <2>2. \A z \in Sides : l[u.node[w][z]] = h[n]
    BY <1>2, <1>4, <1>7, <1>10, <1>18
  <2> QED BY <1>13, <1>18, <2>1, <2>2 DEF Even
<1>22. ASSUME up # nil PROVE Even(u, l, up, f, up)
  <2>1. f = SideOf(t, q, up) /\ f \in Sides /\ t.node[up][f] = q
          /\ t.node[up][Opposite(f)] # q
        /\ up \in Nodes(t)
    BY <1>11, <1>22 DEF f
  <2> DEFINE g == Opposite(f)
             c == t.node[up][g]
  <2>2. g \in Sides /\ g # f /\ \A z \in Sides : z = f \/ z = g
    BY <2>1, SidesAre
  <2>3. Black(u, up) = Black(t, up) /\ Debt(up, f, up, f) = 1
          /\ Debt(up, f, up, g) = 0
    BY <1>11, <1>12, <1>17, <2>2 DEF Black, Debt
  <2>4. \A z \in Sides : Debt(q, d, up, z) = 0
    BY <1>11 DEF Debt
  <2> HIDE DEF g
  <2>5. h[up] = h[q] + Black(t, up) + 0 /\ h[up] = h[c] + Black(t, up) + 0
    BY <1>5, <2>1, <2>2, <2>4
  <2>6. c \in DOMAIN t.node
    BY <1>1, <2>1, <2>2, ChildIs
  <2>7. c # w
    <3>1. c # nil => t.node[c].parent = up
      BY <1>1, <2>1, <2>2, ChildIs
    <3> QED BY <1>2, <1>10, <1>11, <3>1
  <2>8. l[c] = h[c] /\ l[up] = h[up] /\ h[c] \in Nat /\ Black(t, up) \in 0..1
    BY <1>5, <1>11, <1>12, <1>16, <2>1, <2>6, <2>7 DEF g
  <2>9. u.node[up][f] = q /\ u.node[up][g] = c
    BY <1>7, <1>11, <2>1, <2>2
  <2> HIDE DEF c
  <2>10. l[up] = l[u.node[up][f]] + Black(u, up) + 1
           /\ l[up] = l[u.node[up][g]] + Black(u, up) + 0
    BY <1>13, <1>18, <2>3, <2>5, <2>8, <2>9
  <2> QED BY <2>2, <2>3, <2>10 DEF Even
<1>23. HeightsBut(u, l, up, f, {})
  <2>1. HeightsBut(u, l, up, f, X)
    <3>1. q \in X /\ up \in X
      OBVIOUS
    <3> QED BY <1>15, <3>1, ButDebt
  <2>2. CASE up # nil
    <3>1. \A x \in X : Even(u, l, up, f, x)
      BY <1>20, <1>21, <1>22, <2>2
    <3> QED BY <2>1, <3>1, AllEven
  <2>3. CASE up = nil
    <3>1. \A x \in Nodes(u) : x \in X => Even(u, l, up, f, x)
      BY <1>20, <1>21, <2>3 DEF Nodes
    <3>2. \A x \in Nodes(u) \ {} : Even(u, l, up, f, x)
      <4> HIDE DEF X
      <4> QED BY <2>1, <3>1 DEF HeightsBut
    <3> HIDE DEF X
    <3> QED BY <2>1, <3>2 DEF HeightsBut
  <2> QED BY <2>2, <2>3
<1>24. f \in Sides
  BY <1>11 DEF f, Sides
<1>25. ~IsRed(u, t.root)
  BY <1>1, <1>2, <1>17 DEF Shape
<1>26. ASSUME NEW y \in Nodes(u), Clash(u, y) PROVE u.node[y].parent = q
  <2>1. y \in DOMAIN t.node /\ y \in Nodes(t)
          /\ t.node[y].parent \in DOMAIN t.node
        /\ u.node[y].parent = t.node[y].parent
    BY <1>1, <1>5, <1>7, ParentIs
  <2>2. CASE y = w
    BY <1>2, <2>1, <2>2
  <2>3. CASE y # w /\ t.node[y].parent = w
    <3>1. t.node[w][SideOf(t, y, w)] = y /\ SideOf(t, y, w) \in Sides
      BY <1>1, <1>10, <2>1, <2>3, ParentIs
    <3>2. y = in \/ y = out
      BY <1>2, <1>4, <3>1
    <3>3. IsRed(t, y)
      BY <1>17, <1>26, <2>1, <2>3 DEF Clash
    <3> QED BY <3>2, <3>3
  <2>4. CASE y # w /\ t.node[y].parent # w
    <3>1. Clash(t, y)
      BY <1>17, <1>26, <2>1, <2>4 DEF Clash
    <3> QED BY <1>2, <2>1, <3>1 DEF ClashOnly
  <2> QED BY <2>2, <2>3, <2>4
<1>27. Removing(u, sub, l, q, up, f)
  <2>1. Tree(u, sub, l, up, f)
    BY <1>9, <1>23, <1>24 DEF Tree
  <2>2. q # u.root => up \in Nodes(u) /\ u.node[up][f] = q
    BY <1>7, <1>11 DEF f
  <2>3. q = u.root => up = nil
    BY <1>7, <1>11
  <2> QED BY <1>1, <1>7, <1>10, <1>25, <1>26, <2>1, <2>2, <2>3 DEF Removing
<1> QED BY <1>8, <1>27 DEF u

(* What is short no longer is, when it is red and turns black.             *)
LEMMA SettledRemoving ==
  ASSUME NEW t, NEW sub, NEW h, NEW n, NEW q, NEW d,
           Removing(t, sub, h, n, q, d),
         n = t.root \/ IsRed(t, n)
  PROVE  LET u == Paint(t, {n}, {})
         IN  SameNodes(t, u) /\ \E l : Settled(u, sub, l)
<1> DEFINE u == Paint(t, {n}, {})
<1>1. Tree(t, sub, h, q, d) /\ Shape(t, sub) /\ IsTree(t)
        /\ HeightsBut(t, h, q, d, {})
      /\ ~IsRed(t, t.root) /\ t.root # nil /\ n \in DOMAIN t.node /\ d \in Sides
  BY DEF Removing, Tree, Shape
<1>2. /\ ~IsRed(t, nil) /\ \A z \in Nodes(t) : z \in DOMAIN t.node /\ z # nil
      /\ \A z : Black(t, z) \in 0..1
      /\ \A x \in Nodes(t), s \in Sides :
           h[x] = h[t.node[x][s]] + Black(t, x) + Debt(q, d, x, s)
      /\ \A x \in DOMAIN t.node : h[x] \in Nat
  BY <1>1, HeightsAre
<1>3. n \in Nodes(t) /\ n # nil
  BY <1>1, <1>2 DEF Nodes
<1>4. /\ DOMAIN u.node = DOMAIN t.node /\ Nodes(u) = Nodes(t)
      /\ u.root = t.root
      /\ \A y \in DOMAIN t.node :
           /\ u.node[y].parent = t.node[y].parent
           /\ \A z \in Sides : u.node[y][z] = t.node[y][z]
  BY <1>1, PaintLinks
<1>5. ColoursPainted(t, u, {n}, {}) /\ SameNodes(t, u)
  BY <1>1, PaintColours, PaintKeeps
<1>6. Shape(u, sub)
  BY <1>1, PaintShape
<1>7. ~IsRed(u, n) /\ \A y \in DOMAIN t.node : y # n
        => (IsRed(u, y) <=> IsRed(t, y))
  BY <1>1, <1>5 DEF ColoursPainted
<1>8. t.root \in DOMAIN t.node /\ ~IsRed(u, u.root)
  <2>1. t.root \in DOMAIN t.node
    BY <1>1 DEF Shape
  <2> HIDE DEF u
  <2> QED BY <1>1, <1>4, <1>7, <2>1
<1> HIDE DEF u
<1>9. ASSUME NEW y \in Nodes(u), Clash(u, y) PROVE FALSE
  <2>1. y \in DOMAIN t.node /\ y \in Nodes(t)
          /\ t.node[y].parent \in DOMAIN t.node
    BY <1>1, <1>2, <1>4, ParentIs
  <2>2. y # n /\ t.node[y].parent # n
    BY <1>4, <1>7, <1>9, <2>1 DEF Clash
  <2>3. Clash(t, y)
    BY <1>4, <1>7, <1>9, <2>1, <2>2 DEF Clash
  <2> QED BY <2>1, <2>2, <2>3 DEF Removing
<1>10. \E l : Tree(u, sub, l, nil, "left")
  <2>1. CASE n = t.root
    <3>1. Tree(t, sub, h, nil, "left")
      <4>1. q = nil
        BY <2>1 DEF Removing
      <4>2. HeightsBut(t, h, nil, "left", {})
        <5>1. ASSUME NEW x \in Nodes(t) PROVE Even(t, h, nil, "left", x)
          <6>1. \A s \in Sides : Debt(q, d, x, s) = 0
                  /\ Debt(nil, "left", x, s) = 0
            BY <1>2, <4>1 DEF Debt
          <6>2. Even(t, h, q, d, x)
            BY <1>1 DEF HeightsBut
          <6> QED BY <6>1, <6>2 DEF Even
        <5> QED BY <1>1, <5>1 DEF HeightsBut
      <4> QED BY <1>1, <4>2 DEF Tree, Sides
    <3> QED BY <1>1, <2>1, <3>1, RootBlackened DEF u
  <2>2. CASE n # t.root
    <3> DEFINE X == {n, q}
               l == Adjusted(t, h, n, h[n] + 1, n, h[n] + 1)
               o == Opposite(d)
    <3>1. q \in Nodes(t) /\ t.node[q][d] = n /\ IsRed(t, n)
      BY <2>2 DEF Removing
    <3>2. o \in Sides /\ o # d /\ \A z \in Sides : z = d \/ z = o
      BY <1>1, SidesAre
    <3> HIDE DEF o
    <3>3. t.node[n].parent = q /\ n # q
      BY <1>1, <1>3, <3>1, ChildIs
    <3>4. h[n] \in Nat /\ h[n] + 1 \in Nat /\ q # nil /\ q \in DOMAIN t.node
      BY <1>1, <1>2, <3>1
    <3>5. HeightsBut(u, l, q, d, X)
      <4>1. HeightsBut(t, h, q, d, X)
        BY <1>1, ButMore
      <4>2. HeightsBut(u, h, q, d, X)
        BY <1>1, <4>1, PaintHeights DEF u
      <4>3. l = Adjusted(u, h, n, h[n] + 1, n, h[n] + 1)
        BY <1>4 DEF Adjusted
      <4>4. n \in Nodes(u) /\ u.node[n].parent = q /\ q \in X /\ n \in X
        BY <1>1, <1>3, <1>4, <3>3
      <4> HIDE DEF l, X
      <4> QED BY <1>6, <3>4, <4>2, <4>3, <4>4, ChangeHeights
    <3>6. \A y \in DOMAIN t.node : l[y] = IF y = n THEN h[n] + 1 ELSE h[y]
      BY DEF Adjusted
    <3> HIDE DEF l
    <3>7. HeightsBut(u, l, nil, "left", X)
      BY <3>5, ButDebt
    <3>8. Even(u, l, nil, "left", n)
      <4>1. /\ Black(u, n) = 1 /\ Black(t, n) = 0
            /\ \A z \in Sides : Debt(nil, "left", n, z) = 0
                 /\ Debt(q, d, n, z) = 0
        BY <1>3, <1>7, <3>1, <3>3 DEF Black, Debt
      <4>2. ASSUME NEW z \in Sides PROVE l[u.node[n][z]] = h[n]
        <5>1. t.node[n][z] \in DOMAIN t.node /\ t.node[n][z] # n
          BY <1>1, <1>3, ChildIs
        <5>2. u.node[n][z] = t.node[n][z]
          BY <1>1, <1>4
        <5>3. h[n] = h[t.node[n][z]] + 0 + 0 /\ h[t.node[n][z]] \in Nat
          BY <1>2, <1>3, <4>1, <5>1
        <5> QED BY <3>6, <5>1, <5>2, <5>3
      <4>3. l[n] = h[n] + 1
        BY <1>1, <3>6
      <4> QED BY <3>4, <4>1, <4>2, <4>3 DEF Even
    <3>9. Even(u, l, nil, "left", q)
      <4>1. /\ Black(u, q) = Black(t, q) /\ Debt(q, d, q, d) = 1
                 /\ Debt(q, d, q, o) = 0
            /\ \A z \in Sides : Debt(nil, "left", q, z) = 0
        BY <1>7, <3>2, <3>3, <3>4 DEF Black, Debt
      <4> DEFINE w == t.node[q][o]
      <4>2. h[q] = h[n] + Black(t, q) + 1 /\ h[q] = h[w] + Black(t, q) + 0
        BY <1>2, <3>1, <3>2, <4>1, <1>1
      <4>3. w \in DOMAIN t.node /\ w # n
        BY <1>1, <1>3, <3>1, <3>2, ChildIs DEF o
      <4>4. l[q] = h[q] /\ l[n] = h[n] + 1 /\ l[w] = h[w] /\ h[w] \in Nat
            /\ u.node[q][d] = n /\ u.node[q][o] = w /\ Black(t, q) \in 0..1
        BY <1>1, <1>2, <1>4, <3>1, <3>2, <3>3, <3>4, <3>6, <4>3
      <4> HIDE DEF w
      <4>5. /\ l[q] = l[u.node[q][d]] + Black(u, q) + 0
            /\ l[q] = l[u.node[q][o]] + Black(u, q) + 0
        BY <3>4, <4>1, <4>2, <4>4
      <4> QED BY <3>2, <4>1, <4>5 DEF Even
    <3>10. HeightsBut(u, l, nil, "left", {})
      BY <3>7, <3>8, <3>9, AllEven
    <3> QED BY <1>6, <3>10 DEF Tree, Sides
  <2> QED BY <2>1, <2>2
<1>11. \E l : Settled(u, sub, l)
  BY <1>8, <1>9, <1>10 DEF Settled, ClashOnly
<1> QED BY <1>5, <1>11 DEF u

(* A red inner nephew is turned outwards.                                  *)
LEMMA TurnedRemoving ==
  ASSUME NEW t, NEW sub, NEW h, NEW n, NEW q, NEW d,
           Removing(t, sub, h, n, q, d),
         NEW w, NEW in, NEW out, Around(t, h, n, q, d, w, in, out),
         ~IsRed(t, w), IsRed(t, in), ~IsRed(t, out), n # t.root
  PROVE  LET u == Rotate(Paint(t, {in}, {w}), w, Opposite(d))
         IN  SameNodes(t, u) /\ n # u.root
           /\ \E low, l : Removing(u, low, l, n, q, d)
<1> DEFINE o == Opposite(d)
           a == Paint(t, {in}, {w})
           u == Rotate(a, w, o)
           X == {w, in}
           l == Lifted(a, h, w, in, h[in])
           low == RotatedSub(a, sub, w, o)
           ii == t.node[in][d]
           io == t.node[in][o]
<1>1. Tree(t, sub, h, q, d) /\ Shape(t, sub) /\ IsTree(t)
        /\ HeightsBut(t, h, q, d, {})
      /\ ~IsRed(t, t.root) /\ t.root # nil
  BY DEF Removing, Tree, Shape
<1>2. /\ n \in DOMAIN t.node /\ q \in Nodes(t) /\ d \in Sides
      /\ t.node[q][d] = n
      /\ n # q /\ w # n /\ w # q /\ w # t.root
      /\ w \in Nodes(t) /\ t.node[q][o] = w /\ t.node[w].parent = q
      /\ SideOf(t, w, q) = o
      /\ in \in DOMAIN t.node /\ t.node[w][d] = in /\ in \notin {q, w}
      /\ out \in DOMAIN t.node /\ t.node[w][o] = out /\ out \notin {q, w}
      /\ in # nil => in \in Nodes(t) /\ t.node[in].parent = w /\ in # out
      /\ ~IsRed(t, n) /\ ClashOnly(t, {})
  BY DEF Around
<1>3. /\ h[n] \in Nat /\ h[w] = h[n] + 1
      /\ h[in] \in Nat /\ h[in] = h[out] /\ h[w] = h[in] + Black(t, w)
  BY DEF Around
<1>4. o \in Sides /\ o # d /\ Opposite(o) = d /\ \A e \in Sides : e = d \/ e = o
  BY <1>2, SidesAre
<1>5. /\ ~IsRed(t, nil) /\ \A z \in Nodes(t) : z \in DOMAIN t.node /\ z # nil
      /\ \A x \in Nodes(t), s \in Sides :
           h[x] = h[t.node[x][s]] + Black(t, x) + Debt(q, d, x, s)
      /\ \A x \in DOMAIN t.node : h[x] \in Nat
  BY <1>1, HeightsAre
<1>6. in \in Nodes(t) /\ in # nil /\ in # out /\ t.node[in].parent = w
        /\ w # nil /\ q # nil
      /\ in # t.root /\ in # q
  <2>1. in # nil
    BY <1>5
  <2>2. in # t.root
    BY <1>1
  <2> QED BY <1>2, <1>5, <2>1, <2>2
<1>7. h[w] = h[in] + 1
  <2>1. Black(t, w) = 1
    BY DEF Black
  <2> QED BY <1>3, <2>1
<1>8. /\ ii \in DOMAIN t.node /\ io \in DOMAIN t.node /\ ii \notin {in, w}
           /\ io \notin {in, w}
      /\ h[ii] = h[in] /\ h[io] = h[in] /\ ~IsRed(t, ii) /\ ~IsRed(t, io)
  <2>1. ASSUME NEW s \in Sides
        PROVE  /\ t.node[in][s] \in DOMAIN t.node /\ t.node[in][s] # in
               /\ t.node[in][s] # w /\ h[t.node[in][s]] = h[in]
               /\ ~IsRed(t, t.node[in][s])
    <3> DEFINE c == t.node[in][s]
    <3>1. c \in DOMAIN t.node /\ c # in
            /\ (c # nil => c \in Nodes(t) /\ t.node[c].parent = in)
      BY <1>1, <1>6, ChildIs
    <3>2. c # w
      BY <1>2, <1>6, <3>1
    <3>3. Black(t, in) = 0 /\ Debt(q, d, in, s) = 0
      BY <1>6 DEF Black, Debt
    <3>4. h[in] = h[c] + 0 + 0
      BY <1>5, <1>6, <3>3
    <3>5. h[c] \in Nat
      BY <1>5, <3>1
    <3>6. ~IsRed(t, c)
      <4>1. c # nil => (Clash(t, c) <=> IsRed(t, c))
        BY <3>1 DEF Clash
      <4> QED BY <1>2, <1>5, <3>1, <4>1 DEF ClashOnly
    <3> HIDE DEF c
    <3>7. h[c] = h[in]
      BY <1>3, <3>4, <3>5
    <3> QED BY <3>1, <3>2, <3>6, <3>7 DEF c
  <2> QED BY <1>2, <1>4, <2>1
<1>9. /\ DOMAIN a.node = DOMAIN t.node /\ Nodes(a) = Nodes(t)
      /\ a.root = t.root
      /\ \A y \in DOMAIN t.node :
           /\ a.node[y].parent = t.node[y].parent
           /\ \A e \in Sides : a.node[y][e] = t.node[y][e]
  BY <1>1, PaintLinks
<1>10. ColoursPainted(t, a, {in}, {w}) /\ SameNodes(t, a)
  BY <1>1, PaintColours, PaintKeeps
<1>11. Shape(a, sub)
  <2>1. nil \notin {w}
    BY <1>6
  <2> QED BY <1>1, <2>1, PaintShape
<1>12. HeightsBut(a, h, q, d, X)
  <2>1. HeightsBut(t, h, q, d, X)
    BY <1>1, ButMore
  <2> QED BY <1>1, <2>1, PaintHeights
<1> HIDE DEF a, o, ii, io
<1>13. /\ q \in DOMAIN t.node /\ w \in DOMAIN t.node
       /\ w \in Nodes(a) /\ a.node[w][Opposite(o)] = in /\ a.node[in][o] = io
       /\ a.node[in][d] = ii /\ a.node[w][o] = out /\ a.node[w].parent = q
       /\ SideOf(a, w, q) = o
  <2>1. q \in DOMAIN t.node /\ w \in DOMAIN t.node /\ w \in Nodes(a)
    BY <1>2, <1>5, <1>9
  <2>2. a.node[w][Opposite(o)] = in /\ a.node[w][o] = out
          /\ a.node[w].parent = q
    BY <1>2, <1>4, <1>9, <2>1
  <2>3. a.node[in][o] = io /\ a.node[in][d] = ii
    BY <1>2, <1>4, <1>9 DEF io, ii
  <2>4. SideOf(a, w, q) = o
    <3>1. a.node[q][o] = w
      BY <1>2, <1>4, <1>9, <2>1 DEF o
    <3> QED BY <1>2, <1>4, <1>6, <1>9, <1>11, <3>1, SideIs
  <2> QED BY <2>1, <2>2, <2>3, <2>4
<1>14. TurnedTo(a, u, w, o, in, io, q) /\ Shape(u, low) /\ SameNodes(a, u)
  BY <1>4, <1>6, <1>11, <1>13, TurnIs, RotateShape, RotateKeeps
<1>15. HeightsBut(u, l, q, d, X)
  <2>1. w \in X /\ a.node[w][Opposite(o)] \in X
    BY <1>13
  <2> HIDE DEF X, u, l
  <2>2. HeightsBut(u, Lifted(a, h, w, a.node[w][Opposite(o)], h[in]), q, d, X)
    BY <1>3, <1>4, <1>6, <1>11, <1>12, <1>13, <2>1, TurnHeights DEF u
  <2> QED BY <1>13, <2>2 DEF l
<1> HIDE DEF u, low
<1>16. /\ DOMAIN u.node = DOMAIN t.node /\ Nodes(u) = Nodes(t)
       /\ u.root = t.root
       /\ \A y \in DOMAIN t.node :
           /\ IsRed(u, y) <=> IsRed(a, y)
           /\ u.node[y].parent =
                IF y = io /\ io # nil THEN w
                ELSE IF y = w THEN in ELSE IF y = in THEN q
                ELSE t.node[y].parent
       /\ u.node[w][o] = out /\ u.node[w][d] = io
       /\ u.node[in][o] = w /\ u.node[in][d] = ii
       /\ u.node[q][d] = n
  <2>1. u.node[q][d] = n
    <3>1. u.node[q][d] = a.node[q][d]
      <4> HIDE DEF l, X
      <4> QED BY <1>2, <1>4, <1>6, <1>9, <1>13, <1>14 DEF TurnedTo
    <3> QED BY <1>2, <1>9, <1>13, <3>1
  <2> QED BY <1>4, <1>6, <1>9, <1>13, <1>14, <2>1 DEF TurnedTo
<1>17. \A y \in DOMAIN t.node :
         l[y] = IF y = in THEN h[w] ELSE IF y = w THEN h[in] ELSE h[y]
  BY <1>9 DEF Lifted
<1> HIDE DEF l
<1>18. /\ IsRed(u, w) /\ ~IsRed(u, in)
       /\ \A y \in DOMAIN t.node : y \notin {w, in}
            => (IsRed(u, y) <=> IsRed(t, y))
  BY <1>2, <1>10, <1>13, <1>16 DEF ColoursPainted
<1>19. l[in] = h[in] + 1 /\ l[w] = h[in] /\ l[out] = h[in] /\ l[ii] = h[in]
         /\ l[io] = h[in]
  BY <1>2, <1>3, <1>6, <1>7, <1>8, <1>13, <1>17
<1>20. Even(u, l, q, d, w)
  <2>1. Black(u, w) = 0 /\ \A e \in Sides : Debt(q, d, w, e) = 0
    BY <1>2, <1>18 DEF Black, Debt
  <2>2. \A e \in Sides : l[u.node[w][e]] = h[in]
    BY <1>4, <1>16, <1>19
  <2> QED BY <1>3, <1>19, <2>1, <2>2 DEF Even
<1>21. Even(u, l, q, d, in)
  <2>1. Black(u, in) = 1 /\ \A e \in Sides : Debt(q, d, in, e) = 0
    BY <1>2, <1>18 DEF Black, Debt
  <2>2. \A e \in Sides : l[u.node[in][e]] = h[in]
    BY <1>4, <1>16, <1>19
  <2> QED BY <1>3, <1>19, <2>1, <2>2 DEF Even
<1>22. Tree(u, low, l, q, d)
  <2>1. HeightsBut(u, l, q, d, {})
    BY <1>15, <1>20, <1>21, AllEven
  <2> QED BY <1>2, <1>14, <2>1 DEF Tree, u, low
<1>23. ~IsRed(u, u.root)
  BY <1>1, <1>2, <1>6, <1>16, <1>18 DEF Shape
<1>24. ASSUME NEW y \in Nodes(u), Clash(u, y) PROVE FALSE
  <2>1. y \in DOMAIN t.node /\ y \in Nodes(t)
          /\ t.node[y].parent \in DOMAIN t.node
    BY <1>1, <1>5, <1>16, ParentIs
  <2>2. IsRed(u, y) /\ IsRed(u, u.node[y].parent) /\ y # in
    BY <1>18, <1>24 DEF Clash
  <2>3. CASE y = io /\ io # nil
    BY <1>8, <1>18, <2>1, <2>2, <2>3
  <2>4. CASE y = w
    BY <1>8, <1>13, <1>16, <1>18, <2>2, <2>4
  <2>5. CASE y # w /\ ~(y = io /\ io # nil)
    <3>1. u.node[y].parent = t.node[y].parent
      BY <1>16, <2>1, <2>2, <2>5
    <3>2. IsRed(t, y)
      BY <1>18, <2>1, <2>2, <2>5
    <3>3. t.node[y].parent # in
      BY <1>18, <2>2, <3>1
    <3>4. t.node[y].parent # w
      <4> SUFFICES ASSUME t.node[y].parent = w PROVE FALSE
        OBVIOUS
      <4>1. t.node[w][SideOf(t, y, w)] = y /\ SideOf(t, y, w) \in Sides
        BY <1>1, <1>6, <2>1, ParentIs
      <4>2. y = in \/ y = out
        BY <1>2, <1>4, <4>1
      <4> QED BY <2>2, <3>2, <4>2
    <3>5. Clash(t, y)
      BY <1>18, <2>1, <2>2, <3>1, <3>2, <3>3, <3>4 DEF Clash
    <3> QED BY <1>2, <2>1, <3>5 DEF ClashOnly
  <2> QED BY <2>3, <2>4, <2>5
<1>25. Removing(u, low, l, n, q, d)
  BY <1>1, <1>2, <1>16, <1>22, <1>23, <1>24 DEF Removing
<1>26. SameNodes(t, u) /\ n # u.root
  BY <1>10, <1>14, <1>16, KeepsTrans DEF u
<1> QED BY <1>25, <1>26 DEF u, a, o

(* A red outer nephew turns black in the place of the node that went.      *)
LEMMA RotatedRemoving ==
  ASSUME NEW t, NEW sub, NEW h, NEW n, NEW q, NEW d,
           Removing(t, sub, h, n, q, d),
         NEW w, NEW in, NEW out, Around(t, h, n, q, d, w, in, out),
         ~IsRed(t, w), IsRed(t, out),
         NEW reds, reds = IF IsRed(t, q) THEN {w} ELSE {}
  PROVE  LET u == Rotate(Paint(t, {q, w, out} \ reds, reds), q, d)
         IN  SameNodes(t, u) /\ \E low, l : Removing(u, low, l, u.root, nil, "left")
<1> DEFINE o == Opposite(d)
           blacks == {q, w, out} \ reds
           a == Paint(t, blacks, reds)
           u == Rotate(a, q, d)
           X == {q, w, out}
           m == Lifted(a, h, q, w, h[n] + 1)
           l == Adjusted(t, m, out, h[n] + 1, out, h[n] + 1)
           low == RotatedSub(a, sub, q, d)
           up == t.node[q].parent
<1>1. Tree(t, sub, h, q, d) /\ Shape(t, sub) /\ IsTree(t)
        /\ HeightsBut(t, h, q, d, {})
      /\ ~IsRed(t, t.root) /\ t.root # nil
  BY DEF Removing, Tree, Shape
<1>2. /\ n \in DOMAIN t.node /\ q \in Nodes(t) /\ d \in Sides
      /\ t.node[q][d] = n
      /\ n # q /\ w # n /\ w # q /\ w # t.root
      /\ w \in Nodes(t) /\ t.node[q][o] = w /\ t.node[w].parent = q
      /\ in \in DOMAIN t.node /\ t.node[w][d] = in /\ in \notin {q, w}
      /\ out \in DOMAIN t.node /\ t.node[w][o] = out /\ out \notin {q, w}
      /\ in # nil => in \in Nodes(t) /\ t.node[in].parent = w /\ in # out
      /\ out # nil => out \in Nodes(t) /\ t.node[out].parent = w /\ out # n
      /\ ~IsRed(t, n) /\ ClashOnly(t, {})
  BY DEF Around
<1>3. /\ h[n] \in Nat /\ h[w] = h[n] + 1 /\ h[q] = h[n] + 1 + Black(t, q)
      /\ h[in] \in Nat /\ h[in] = h[out] /\ h[w] = h[in] + Black(t, w)
  BY DEF Around
<1>4. o \in Sides /\ o # d /\ Opposite(o) = d /\ \A e \in Sides : e = d \/ e = o
  BY <1>2, SidesAre
<1>5. /\ ~IsRed(t, nil) /\ \A z \in Nodes(t) : z \in DOMAIN t.node /\ z # nil
      /\ \A z : Black(t, z) \in 0..1
      /\ \A x \in Nodes(t), s \in Sides :
           h[x] = h[t.node[x][s]] + Black(t, x) + Debt(q, d, x, s)
      /\ \A x \in DOMAIN t.node : h[x] \in Nat
  BY <1>1, HeightsAre
<1>6. /\ out \in Nodes(t) /\ out # nil /\ out # in /\ t.node[out].parent = w
           /\ w # nil /\ q # nil
      /\ out # q /\ out # w /\ out # n /\ out # t.root
  <2>1. out # nil
    BY <1>5
  <2>2. out # t.root
    BY <1>1
  <2> QED BY <1>2, <1>5, <2>1, <2>2
<1>7. h[in] = h[n] /\ h[out] = h[n]
  <2>1. Black(t, w) = 1
    BY DEF Black
  <2> QED BY <1>3, <2>1
<1>8. \A s \in Sides : /\ t.node[out][s] \in DOMAIN t.node
                            /\ t.node[out][s] \notin {out, w, q}
                       /\ h[t.node[out][s]] = h[n]
                       /\ ~IsRed(t, t.node[out][s])
  <2> SUFFICES ASSUME NEW s \in Sides
        PROVE  /\ t.node[out][s] \in DOMAIN t.node
                    /\ t.node[out][s] \notin {out, w, q}
               /\ h[t.node[out][s]] = h[n]
               /\ ~IsRed(t, t.node[out][s])
    OBVIOUS
  <2> DEFINE c == t.node[out][s]
  <2>1. c \in DOMAIN t.node /\ c # out /\ (c # nil => c \in Nodes(t) /\ t.node[c].parent = out)
    BY <1>1, <1>6, ChildIs
  <2>2. c # w
    BY <1>2, <1>6, <2>1
  <2>3. c # q
    <3>1. out \in sub[w] /\ w \in sub[q] /\ q \notin sub[w]
      <4>1. out \in sub[out] /\ \A y \in sub[out] : y \in sub[w]
        BY <1>1, <1>2, <1>4, <1>6, ChildIs
      <4>2. w \in sub[w] /\ \A y \in sub[w] : y \in sub[q] /\ y # q
        BY <1>1, <1>2, <1>4, <1>6, ChildIs
      <4> QED BY <4>1, <4>2
    <3>2. c # nil => c \in sub[out]
      BY <1>1, <1>6, ChildIs
    <3>3. \A y \in sub[out] : y \in sub[w]
      BY <1>1, <1>2, <3>1, BelowBelow
    <3> QED BY <1>6, <3>1, <3>2, <3>3
  <2>4. Black(t, out) = 0 /\ Debt(q, d, out, s) = 0
    BY <1>6 DEF Black, Debt
  <2>5. h[out] = h[c] + 0 + 0
    BY <1>5, <1>6, <2>4
  <2>6. h[c] \in Nat
    BY <1>5, <2>1
  <2>7. ~IsRed(t, c)
    <3>1. c # nil => (Clash(t, c) <=> IsRed(t, c))
      BY <2>1 DEF Clash
    <3> QED BY <1>2, <1>5, <2>1, <3>1 DEF ClashOnly
  <2> HIDE DEF c
  <2>8. h[c] = h[n]
    BY <1>3, <1>7, <2>5, <2>6
  <2> QED BY <2>1, <2>2, <2>3, <2>7, <2>8 DEF c
<1>9. /\ DOMAIN a.node = DOMAIN t.node /\ Nodes(a) = Nodes(t)
      /\ a.root = t.root
      /\ \A y \in DOMAIN t.node :
           /\ a.node[y].parent = t.node[y].parent
           /\ \A e \in Sides : a.node[y][e] = t.node[y][e]
  BY <1>1, PaintLinks
<1>10. ColoursPainted(t, a, blacks, reds) /\ SameNodes(t, a)
  BY <1>1, PaintColours, PaintKeeps
<1>11. \A y : y \in blacks \cup reds => y \in X
  BY <1>2
<1>12. Shape(a, sub)
  <2>1. nil \notin reds
    BY <1>6
  <2> QED BY <1>1, <2>1, PaintShape
<1>13. HeightsBut(a, h, q, d, X)
  <2>1. HeightsBut(t, h, q, d, X)
    BY <1>1, ButMore
  <2> HIDE DEF X, blacks
  <2> QED BY <1>1, <1>11, <2>1, PaintHeights
<1> HIDE DEF a, o, up
<1>14. /\ q \in DOMAIN t.node /\ w \in DOMAIN t.node
       /\ q \in Nodes(a) /\ a.node[q][Opposite(d)] = w /\ a.node[w][d] = in
       /\ a.node[w][o] = out /\ a.node[q][d] = n /\ a.node[q].parent = up
       /\ \A s \in Sides : a.node[out][s] = t.node[out][s]
  BY <1>2, <1>4, <1>5, <1>9 DEF o, up
<1>15. TurnedTo(a, u, q, d, w, in, up) /\ Shape(u, low) /\ SameNodes(a, u)
  BY <1>2, <1>6, <1>12, <1>14, TurnIs, RotateShape, RotateKeeps
<1>16. HeightsBut(u, m, q, d, X)
  <2>1. h[n] + 1 \in Nat
    BY <1>3
  <2>2. q \in X /\ a.node[q][Opposite(d)] \in X
    BY <1>14
  <2> HIDE DEF X, u, m
  <2>3. HeightsBut(u, Lifted(a, h, q, a.node[q][Opposite(d)], h[n] + 1), q, d, X)
    BY <1>2, <1>6, <1>12, <1>13, <1>14, <2>1, <2>2, TurnHeights DEF u
  <2> QED BY <1>14, <2>3 DEF m
<1> HIDE DEF u, low
<1>17. /\ DOMAIN u.node = DOMAIN t.node /\ Nodes(u) = Nodes(t)
       /\ u.root = IF up = nil THEN w ELSE t.root
       /\ \A y \in DOMAIN t.node :
           /\ IsRed(u, y) <=> IsRed(a, y)
           /\ u.node[y].parent =
                IF y = in /\ in # nil THEN q
                ELSE IF y = q THEN w ELSE IF y = w THEN up
                ELSE t.node[y].parent
       /\ u.node[q][d] = n /\ u.node[q][o] = in
       /\ u.node[w][d] = q /\ u.node[w][o] = out
  BY <1>9, <1>14, <1>15 DEF TurnedTo, o
<1>18. \A s \in Sides : u.node[out][s] = t.node[out][s]
  <2> SUFFICES ASSUME NEW s \in Sides PROVE u.node[out][s] = t.node[out][s]
    OBVIOUS
  <2>1. out # up
    <3>1. up # nil => w \in sub[q] /\ out \in sub[w] /\ up \notin sub[q]
      <4>1. w \in sub[q] /\ out \in sub[w]
        BY <1>1, <1>2, <1>4, <1>6, ChildIs
      <4> QED BY <1>1, <1>2, <4>1, ParentIs DEF up
    <3>2. up # nil => out \in sub[q]
      BY <1>1, <1>2, <3>1, BelowBelow
    <3> QED BY <1>6, <3>1, <3>2
  <2>2. out \in Nodes(a) \ {q, w}
    BY <1>6, <1>9
  <2>3. u.node[out][s] = a.node[out][s]
    <3> HIDE DEF m, l, X
    <3> QED BY <1>15, <2>1, <2>2 DEF TurnedTo
  <2> QED BY <1>14, <2>3
<1>19. HeightsBut(u, l, q, d, X)
  <2>1. l = Adjusted(u, m, out, h[n] + 1, out, h[n] + 1)
    BY <1>17 DEF Adjusted
  <2>2. out \in Nodes(u) /\ u.node[out].parent = w /\ w \in X /\ out \in X
    BY <1>2, <1>6, <1>17
  <2>3. h[n] + 1 \in Nat
    BY <1>3
  <2>4. Shape(u, low)
    BY <1>15
  <2> HIDE DEF l, m, X
  <2> QED BY <1>16, <2>1, <2>2, <2>3, <2>4, ChangeHeights
<1>20. \A y \in DOMAIN t.node :
         l[y] = IF y = w THEN h[q] ELSE IF y = q
           \/ y = out THEN h[n] + 1 ELSE h[y]
  BY <1>6, <1>9 DEF Lifted, Adjusted
<1> HIDE DEF l, m
<1>21. /\ IsRed(u, w) <=> IsRed(t, q)
       /\ ~IsRed(u, q) /\ ~IsRed(u, out)
       /\ \A y \in DOMAIN t.node : y \notin {q, w, out}
            => (IsRed(u, y) <=> IsRed(t, y))
  <2>1. q \notin reds /\ out \notin reds /\ q \in blacks /\ out \in blacks
        /\ (w \in reds <=> IsRed(t, q)) /\ (w \in blacks <=> ~IsRed(t, q))
    BY <1>2, <1>6
  <2>2. \A y : y \notin {q, w, out} => y \notin blacks /\ y \notin reds
    BY <1>11
  <2> HIDE DEF blacks
  <2> QED BY <1>2, <1>6, <1>10, <1>14, <1>17, <2>1, <2>2 DEF ColoursPainted
<1>22. /\ l[q] = h[n] + 1 /\ l[w] = h[n] + 1 + Black(t, q) /\ l[out] = h[n] + 1
       /\ l[n] = h[n] /\ l[in] = h[n]
       /\ \A s \in Sides : l[u.node[out][s]] = h[n]
  <2>1. \A s \in Sides : l[u.node[out][s]] = h[n]
    BY <1>8, <1>18, <1>20
  <2>2. l[w] = h[q] /\ l[q] = h[n] + 1 /\ l[out] = h[n] + 1
    BY <1>2, <1>6, <1>14, <1>20
  <2>3. l[n] = h[n]
    BY <1>2, <1>6, <1>20
  <2>4. l[in] = h[in]
    BY <1>2, <1>6, <1>20
  <2> QED BY <1>3, <1>7, <2>1, <2>2, <2>3, <2>4
<1>23. HeightsBut(u, l, nil, "left", X)
  BY <1>19, ButDebt
<1>24. Even(u, l, nil, "left", q)
  <2>1. Black(u, q) = 1 /\ \A e \in Sides : Debt(nil, "left", q, e) = 0
    BY <1>6, <1>21 DEF Black, Debt
  <2>2. \A e \in Sides : l[u.node[q][e]] = h[n]
    BY <1>4, <1>17, <1>22
  <2> QED BY <1>3, <1>22, <2>1, <2>2 DEF Even
<1>25. Even(u, l, nil, "left", w)
  <2>1. Black(u, w) = Black(t, q) /\ \A e \in Sides : Debt(nil, "left", w, e) = 0
    BY <1>6, <1>21 DEF Black, Debt
  <2>2. \A e \in Sides : l[u.node[w][e]] = h[n] + 1
    BY <1>4, <1>17, <1>22
  <2>3. Black(t, q) \in 0..1
    BY <1>5
  <2> QED BY <1>3, <1>22, <2>1, <2>2, <2>3 DEF Even
<1>26. Even(u, l, nil, "left", out)
  <2>1. Black(u, out) = 1 /\ \A e \in Sides : Debt(nil, "left", out, e) = 0
    BY <1>6, <1>21 DEF Black, Debt
  <2> QED BY <1>3, <1>22, <2>1 DEF Even
<1>27. Tree(u, low, l, nil, "left")
  <2>1. HeightsBut(u, l, nil, "left", {})
    BY <1>23, <1>24, <1>25, <1>26, AllEven
  <2> QED BY <1>15, <2>1 DEF Tree, Sides
<1>28. u.root # nil /\ ~IsRed(u, u.root) /\ u.root \in DOMAIN u.node
  <2>1. CASE up = nil
    <3>1. q = t.root
      BY <1>1, <1>2, <2>1, ParentIs DEF up
    <3> QED BY <1>1, <1>6, <1>14, <1>17, <1>21, <2>1, <3>1
  <2>2. CASE up # nil
    <3>1. t.root # q
      BY <1>1, <2>2 DEF Shape, up
    <3>2. t.root \in DOMAIN t.node
      BY <1>1 DEF Shape
    <3> QED BY <1>1, <1>2, <1>6, <1>17, <1>21, <2>2, <3>1, <3>2
  <2> QED BY <2>1, <2>2
<1>29. ASSUME NEW y \in Nodes(u), Clash(u, y) PROVE FALSE
  <2>1. y \in DOMAIN t.node /\ y \in Nodes(t)
          /\ t.node[y].parent \in DOMAIN t.node
    BY <1>1, <1>5, <1>17, ParentIs
  <2>2. IsRed(u, y) /\ IsRed(u, u.node[y].parent) /\ y # q /\ y # out
    BY <1>21, <1>29 DEF Clash
  <2>3. CASE y = in /\ in # nil
    BY <1>17, <1>21, <2>1, <2>2, <2>3
  <2>4. CASE y = w
    <3>1. u.node[w].parent = up
      BY <1>2, <1>14, <1>17
    <3>2. IsRed(t, q) /\ up \in DOMAIN t.node /\ up # w
      <4>1. up \in DOMAIN t.node
        BY <1>1, <1>2, ParentIs DEF up
      <4>2. up # w
        <5>1. w \in sub[q]
          BY <1>1, <1>2, <1>4, <1>6, ChildIs
        <5> QED BY <1>1, <1>2, <1>6, <5>1, ParentIs DEF up
      <4> QED BY <1>21, <2>2, <2>4, <4>1, <4>2
    <3>3. IsRed(t, up)
      BY <1>21, <2>2, <2>4, <3>1, <3>2
    <3>4. Clash(t, q)
      BY <3>2, <3>3 DEF Clash, up
    <3> QED BY <1>2, <3>4 DEF ClashOnly
  <2>5. CASE y # w /\ ~(y = in /\ in # nil)
    <3>1. u.node[y].parent = t.node[y].parent
      BY <1>17, <2>1, <2>2, <2>5
    <3>2. IsRed(t, y)
      BY <1>21, <2>1, <2>2, <2>5
    <3>3. t.node[y].parent # q /\ t.node[y].parent # out
      BY <1>21, <2>2, <3>1
    <3>4. t.node[y].parent # w
      <4> SUFFICES ASSUME t.node[y].parent = w PROVE FALSE
        OBVIOUS
      <4>1. t.node[w][SideOf(t, y, w)] = y /\ SideOf(t, y, w) \in Sides
        BY <1>1, <1>6, <2>1, ParentIs
      <4>2. y = in \/ y = out
        BY <1>2, <1>4, <4>1
      <4> QED BY <1>5, <2>1, <2>2, <2>5, <4>2
    <3>5. Clash(t, y)
      BY <1>21, <2>1, <2>2, <3>1, <3>2, <3>3, <3>4 DEF Clash
    <3> QED BY <1>2, <2>1, <3>5 DEF ClashOnly
  <2> QED BY <2>3, <2>4, <2>5
<1>30. Removing(u, low, l, u.root, nil, "left")
  BY <1>27, <1>28, <1>29 DEF Removing
<1>31. SameNodes(t, u)
  BY <1>10, <1>15, KeepsTrans
<1> QED BY <1>30, <1>31 DEF u, a

-----------------------------------------------------------------------------
(* tmap_remove().                                                          *)

(* The tree without its node z, whose only child is c: it is settled, or   *)
(* the paths through c are short.                                          *)
Spared(t, u, z, c) ==
  \E low, l :
    \/ (IsRed(t, z) \/ t.node[z].parent = nil) /\ Settled(u, low, l)
    \/ /\ ~IsRed(t, z) /\ t.node[z].parent # nil /\ c # u.root
       /\ \E d : Removing(u, low, l, c, t.node[z].parent, d)

LEMMA UnlinkedSpared ==
  ASSUME NEW t, NEW sub, NEW h, Settled(t, sub, h), NEW z \in Nodes(t),
           NEW e \in Sides,
         t.node[z][e] = nil, NEW c, c = t.node[z][Opposite(e)],
         NEW u, UnlinkedTo(t, u, z, c)
  PROVE  Spared(t, u, z, c)
<1> DEFINE o == Opposite(e)
           up == t.node[z].parent
           f == SideOf(t, z, up)
           low == UnlinkedSub(t, sub, z)
           q == IF up = nil \/ IsRed(t, z) THEN nil ELSE up
           d == IF up = nil \/ IsRed(t, z) THEN "left" ELSE f
<1>1. Tree(t, sub, h, nil, "left") /\ Shape(t, sub)
        /\ HeightsBut(t, h, nil, "left", {})
      /\ ClashOnly(t, {}) /\ (IsRed(t, t.root) => Nodes(t) = {t.root})
  BY DEF Settled, Tree
<1>2. o \in Sides /\ o # e /\ \A s \in Sides : s = e \/ s = o
  BY SidesAre
<1>3. /\ h[nil] = 0 /\ ~IsRed(t, nil) /\ nil \in DOMAIN t.node
      /\ \A x \in DOMAIN t.node : h[x] \in Nat
      /\ \A x : Black(t, x) \in 0..1 /\ (Black(t, x) = 0 <=> IsRed(t, x))
      /\ \A x \in Nodes(t) : x \in DOMAIN t.node /\ x # nil
      /\ \A x \in Nodes(t), s \in Sides : h[x] = h[t.node[x][s]] + Black(t, x)
  <2>1. ASSUME NEW x \in Nodes(t), NEW s \in Sides
        PROVE  h[x] = h[t.node[x][s]] + Black(t, x)
    <3>1. Debt(nil, "left", x, s) = 0
      BY DEF Debt, Nodes
    <3>2. h[x] = h[t.node[x][s]] + Black(t, x) + Debt(nil, "left", x, s)
      BY <1>1, HeightsAre
    <3>3. h[t.node[x][s]] \in Nat /\ Black(t, x) \in 0..1
      BY <1>1, ChildIs, HeightsAre
    <3> QED BY <3>1, <3>2, <3>3
  <2> QED BY <1>1, <2>1, HeightsAre
<1> HIDE DEF o
<1>4. t.node[z][o] = c /\ c \in DOMAIN t.node /\ c # z
        /\ (c # nil => c \in Nodes(t) /\ t.node[c].parent = z)
  BY <1>1, <1>2, <1>3, ChildIs DEF o
<1>5. /\ Shape(u, low) /\ Nodes(u) = Nodes(t) \ {z}
           /\ DOMAIN u.node = DOMAIN t.node \ {z}
  BY <1>1, UnlinkedShape
<1>6. /\ u.root = IF up = nil THEN c ELSE t.root
      /\ \A y \in DOMAIN t.node \ {z} :
           /\ u.node[y].red = t.node[y].red
           /\ u.node[y].parent = IF y = c
                /\ c # nil THEN up ELSE t.node[y].parent
           /\ \A g \in Sides :
                u.node[y][g] = IF up # nil /\ y = up
                  /\ g = f THEN c ELSE t.node[y][g]
  BY DEF UnlinkedTo
<1>7. ASSUME NEW y \in DOMAIN u.node PROVE IsRed(u, y) <=> IsRed(t, y)
  BY <1>5, <1>6, Zenon DEF IsRed
<1>8. /\ up \in DOMAIN t.node /\ up # z /\ (z = t.root <=> up = nil)
      /\ up # nil => /\ up \in Nodes(t) /\ f \in Sides /\ t.node[up][f] = z
                     /\ up \in Nodes(u) /\ c # t.root
  <2>1. /\ up \in DOMAIN t.node /\ up # z /\ (z = t.root <=> up = nil)
        /\ up # nil => up \in Nodes(t) /\ f \in Sides /\ t.node[up][f] = z
    BY <1>1, ParentIs
  <2>2. up # nil => up \in Nodes(u)
    BY <1>5, <2>1
  <2>3. up # nil => c # t.root
    <3>1. c # nil => c # t.root
      BY <1>1, <1>2, ChildIs DEF o
    <3>2. t.root # nil
      BY <1>1, <1>3 DEF Shape
    <3> QED BY <3>1, <3>2
  <2> QED BY <2>1, <2>2, <2>3
<1> HIDE DEF up, f, low
<1>9. h[c] = 0 /\ h[z] = Black(t, z)
  <2>1. h[z] = h[nil] + Black(t, z) /\ h[z] = h[c] + Black(t, z)
    BY <1>2, <1>3, <1>4
  <2>2. h[c] \in Nat /\ Black(t, z) \in 0..1
    BY <1>3, <1>4
  <2> QED BY <1>3, <2>1, <2>2
<1>10. ASSUME NEW y \in Nodes(u), NEW s \in Sides
       PROVE  h[y] = h[u.node[y][s]] + Black(u, y) + Debt(q, d, y, s)
  <2>1. y \in Nodes(t) /\ y # z /\ y \in DOMAIN t.node \ {z}
          /\ y \in DOMAIN u.node /\ y # nil
    BY <1>3, <1>5
  <2>2. Black(u, y) = Black(t, y) /\ Black(t, y) \in 0..1
    BY <1>3, <1>7, <2>1 DEF Black
  <2>3. h[y] = h[t.node[y][s]] + Black(t, y) /\ t.node[y][s] \in DOMAIN t.node
    BY <1>1, <1>3, <2>1, ChildIs
  <2>4. CASE up # nil /\ y = up /\ s = f
    <3>1. u.node[y][s] = c /\ t.node[y][s] = z
      BY <1>6, <1>8, <2>1, <2>4
    <3>2. Debt(q, d, y, s) = Black(t, z)
      BY <2>1, <2>4 DEF Debt, Black
    <3>3. Black(t, z) \in 0..1
      BY <1>3
    <3> HIDE DEF q, d
    <3> QED BY <1>9, <2>2, <2>3, <3>1, <3>2, <3>3
  <2>5. CASE ~(up # nil /\ y = up /\ s = f)
    <3>1. u.node[y][s] = t.node[y][s]
      BY <1>6, <2>1, <2>5
    <3>2. Debt(q, d, y, s) = 0
      BY <2>1, <2>5 DEF Debt
    <3>3. h[t.node[y][s]] \in Nat
      BY <1>3, <2>3
    <3> HIDE DEF q, d
    <3> QED BY <2>2, <2>3, <3>1, <3>2, <3>3
  <2> QED BY <2>4, <2>5
<1>11. Tree(u, low, h, q, d)
  <2>1. d \in Sides
    BY <1>8 DEF Sides
  <2>2. \A y \in Nodes(u) : Even(u, h, q, d, y)
    BY <1>10 DEF Even
  <2> HIDE DEF q, d
  <2> QED BY <1>3, <1>5, <2>1, <2>2 DEF Tree, HeightsBut
<1>12. ASSUME NEW y \in Nodes(u), Clash(u, y) PROVE y = c /\ ~IsRed(t, z)
                /\ up # nil
  <2>1. y \in Nodes(t) /\ y # z /\ y \in DOMAIN t.node \ {z}
          /\ y \in DOMAIN u.node /\ y # nil
        /\ t.node[y].parent \in DOMAIN t.node
    BY <1>1, <1>3, <1>5, ParentIs
  <2>2. ~Clash(t, y)
    BY <1>1, <2>1 DEF ClashOnly
  <2>3. IsRed(t, y) /\ IsRed(u, u.node[y].parent)
    BY <1>7, <1>12, <2>1 DEF Clash
  <2>4. y = c
    <3> SUFFICES ASSUME y # c PROVE FALSE
      OBVIOUS
    <3>1. u.node[y].parent = t.node[y].parent
      BY <1>6, <2>1
    <3>2. t.node[y].parent # z
      <4> SUFFICES ASSUME t.node[y].parent = z PROVE FALSE
        OBVIOUS
      <4>1. t.node[z][SideOf(t, y, z)] = y /\ SideOf(t, y, z) \in Sides
        BY <1>1, <1>3, <2>1, ParentIs
      <4> QED BY <1>2, <1>4, <2>1, <4>1
    <3>3. IsRed(t, t.node[y].parent)
      BY <1>5, <1>7, <2>1, <2>3, <3>1, <3>2
    <3> QED BY <2>2, <2>3, <3>3 DEF Clash
  <2>5. ~IsRed(t, z)
    BY <1>4, <2>1, <2>2, <2>3, <2>4 DEF Clash
  <2>6. up # nil
    <3>1. u.node[y].parent = up
      BY <1>6, <2>1, <2>4
    <3>2. nil \in DOMAIN u.node
      BY <1>5 DEF Shape
    <3> QED BY <1>3, <1>7, <2>3, <3>1, <3>2
  <2> QED BY <2>4, <2>5, <2>6
<1>13. CASE IsRed(t, z) \/ up = nil
  <2>1. q = nil /\ d = "left"
    BY <1>13
  <2>2. ClashOnly(u, {})
    BY <1>12, <1>13 DEF ClashOnly
  <2>3. ASSUME IsRed(u, u.root) PROVE Nodes(u) = {u.root}
    <3>1. u.root \in DOMAIN u.node
      BY <1>5 DEF Shape
    <3>2. CASE up # nil
      <4>1. u.root = t.root /\ IsRed(t, t.root)
        BY <1>6, <1>7, <2>3, <3>1, <3>2
      <4> QED BY <1>1, <1>8, <3>2, <4>1
    <3>3. CASE up = nil
      <4>1. u.root = c /\ IsRed(t, c) /\ c # nil /\ c \in Nodes(t)
              /\ c \in Nodes(u)
        BY <1>3, <1>4, <1>5, <1>6, <1>7, <2>3, <3>1, <3>3
      <4>2. ASSUME NEW s \in Sides PROVE t.node[c][s] = nil
        <5> DEFINE b == t.node[c][s]
        <5> SUFFICES ASSUME b # nil PROVE FALSE
          OBVIOUS
        <5>1. b \in Nodes(t) /\ t.node[b].parent = c
          BY <1>1, <4>1, ChildIs
        <5>2. ~IsRed(t, b)
          BY <1>1, <4>1, <5>1 DEF Clash, ClashOnly
        <5>3. h[c] = h[b] + Black(t, c) /\ h[b] = h[t.node[b][s]] + 1
              /\ t.node[b][s] \in DOMAIN t.node
          <6>1. Black(t, b) = 1
            BY <5>2 DEF Black
          <6>2. t.node[b][s] \in DOMAIN t.node
            BY <1>1, <5>1, ChildIs
          <6>3. h[c] = h[b] + Black(t, c)
                  /\ h[b] = h[t.node[b][s]] + Black(t, b)
            BY <1>3, <4>1, <5>1
          <6> QED BY <6>1, <6>2, <6>3
        <5>4. h[b] \in Nat /\ h[t.node[b][s]] \in Nat /\ Black(t, c) \in 0..1
          BY <1>3, <5>1, <5>3
        <5> HIDE DEF b
        <5> QED BY <1>9, <5>3, <5>4
      <4>3. ASSUME NEW y \in Nodes(u) PROVE y = c
        <5>1. y \in Nodes(t) /\ y # z /\ y \in sub[z]
          BY <1>1, <1>5, <1>8, <3>3 DEF Shape
        <5>2. y \in sub[c] \/ y \in sub[nil]
          BY <1>1, <1>2, <1>4, <5>1 DEF Shape
        <5>3. y \in sub[c]
          BY <1>1, <5>1, <5>2 DEF Shape
        <5>4. y = c \/ \E s \in Sides : y \in sub[t.node[c][s]]
          BY <1>1, <4>1, <5>1, <5>3 DEF Shape
        <5> QED BY <1>1, <4>2, <5>1, <5>4 DEF Shape
      <4> QED BY <4>1, <4>3
    <3> QED BY <3>2, <3>3
  <2>4. Settled(u, low, h)
    BY <1>11, <2>1, <2>2, <2>3 DEF Settled
  <2> QED BY <1>13, <2>4 DEF Spared, up
<1>14. CASE ~IsRed(t, z) /\ up # nil
  <2>1. q = up /\ d = f
    BY <1>14
  <2>2. t.root \in DOMAIN u.node /\ t.root # nil /\ ~IsRed(t, t.root)
          /\ u.root = t.root
    <3>1. t.root \in DOMAIN t.node
      BY <1>1 DEF Shape
    <3>2. t.root # z
      BY <1>8, <1>14
    <3>3. ~IsRed(t, t.root)
      BY <1>1, <1>8, <1>14, <3>2
    <3>4. t.root # nil
      BY <1>1, <1>3 DEF Shape
    <3> QED BY <1>5, <1>6, <1>14, <3>1, <3>2, <3>3, <3>4
  <2>3. ~IsRed(u, u.root)
    BY <1>7, <2>2
  <2>4. c \in DOMAIN u.node /\ c # u.root
    BY <1>4, <1>5, <1>8, <1>14, <2>2
  <2>5. u.node[up][f] = c /\ up \in Nodes(u)
    BY <1>3, <1>6, <1>8, <1>14
  <2>6. Removing(u, low, h, c, up, f)
    BY <1>11, <1>12, <2>1, <2>2, <2>3, <2>4, <2>5 DEF Removing
  <2> QED BY <1>14, <2>4, <2>6 DEF Spared, up
<1> QED BY <1>13, <1>14

(* The node of k in u is that of p in v.                                   *)
Moves(u, low, v, k, p) ==
  /\ Shape(u, low) /\ Shape(v, RenamedSub(u, low, k, p))
  /\ k \in Nodes(u) /\ p \notin DOMAIN u.node /\ p # nil
  /\ DOMAIN v.node = (DOMAIN u.node \cup {p}) \ {k}
  /\ Nodes(v) = (Nodes(u) \cup {p}) \ {k}
  /\ v.root = Renamed(k, p, u.root)
  /\ \A y \in DOMAIN v.node :
       LET x == Former(k, p, y)
       IN  /\ x \in DOMAIN u.node /\ (y # nil => x \in Nodes(u))
           /\ v.node[y].red = u.node[x].red
           /\ v.node[y].parent = Renamed(k, p, u.node[x].parent)
           /\ \A g \in Sides : v.node[y][g] = Renamed(k, p, u.node[x][g])

LEMMA MovesIs ==
  ASSUME NEW u, NEW low, Shape(u, low), NEW k \in Nodes(u), NEW p \in Keys,
         p \notin Nodes(u), \A y \in Nodes(u) : y # k => (y < k <=> y < p),
         NEW value, NEW v, RenamedTo(u, v, k, p, value)
  PROVE  Moves(u, low, v, k, p)
<1>1. p # nil /\ k # nil
  BY KeysAssumption DEF nil, Nodes
<1>2. p \notin DOMAIN u.node
  BY <1>1 DEF Nodes
<1>3. /\ Shape(v, RenamedSub(u, low, k, p))
      /\ Nodes(v) = (Nodes(u) \cup {p}) \ {k}
      /\ DOMAIN v.node = (DOMAIN u.node \cup {p}) \ {k}
      /\ \A y \in DOMAIN v.node : Former(k, p, y) \in DOMAIN u.node
      /\ \A y \in Nodes(v) : Former(k, p, y) \in Nodes(u)
  BY RenamedShape
<1>4. ASSUME NEW y \in DOMAIN v.node
      PROVE  LET x == Former(k, p, y)
             IN  /\ x \in DOMAIN u.node /\ (y # nil => x \in Nodes(u))
                 /\ v.node[y].red = u.node[x].red
                 /\ v.node[y].parent = Renamed(k, p, u.node[x].parent)
                 /\ \A g \in Sides : v.node[y][g] = Renamed(k, p, u.node[x][g])
  BY <1>3 DEF RenamedTo, Nodes
<1>5. v.root = Renamed(k, p, u.root)
  BY DEF RenamedTo
<1> QED BY <1>1, <1>2, <1>3, <1>4, <1>5 DEF Moves

(* A key and its former one.                                               *)
LEMMA FormerIs ==
  ASSUME NEW u, NEW low, NEW v, NEW k, NEW p, Moves(u, low, v, k, p)
  PROVE  /\ \A x \in DOMAIN u.node :
              /\ Former(k, p, Renamed(k, p, x)) = x
              /\ Renamed(k, p, x) \in DOMAIN v.node
              /\ x # nil => Renamed(k, p, x) # nil
         /\ \A y \in DOMAIN v.node : Renamed(k, p, Former(k, p, y)) = y
         /\ Former(k, p, nil) = nil /\ Renamed(k, p, nil) = nil
         /\ nil \in DOMAIN u.node /\ nil \in DOMAIN v.node
BY DEF Moves, Former, Renamed, Nodes, Shape

LEMMA MovedColours ==
  ASSUME NEW u, NEW low, NEW v, NEW k, NEW p, Moves(u, low, v, k, p)
  PROVE  /\ \A y \in DOMAIN v.node : IsRed(v, y) <=> IsRed(u, Former(k, p, y))
         /\ \A y \in Nodes(v) : Clash(v, y) <=> Clash(u, Former(k, p, y))
<1>1. ASSUME NEW y \in DOMAIN v.node PROVE IsRed(v, y)
               <=> IsRed(u, Former(k, p, y))
  <2>1. v.node[y].red = u.node[Former(k, p, y)].red
    BY DEF Moves
  <2> QED BY <2>1, Zenon DEF IsRed
<1>2. ASSUME NEW y \in Nodes(v) PROVE Clash(v, y) <=> Clash(u, Former(k, p, y))
  <2> DEFINE x == Former(k, p, y)
  <2>1. y \in DOMAIN v.node /\ y # nil
    BY DEF Nodes
  <2>2. x \in Nodes(u) /\ x \in DOMAIN u.node
        /\ v.node[y].parent = Renamed(k, p, u.node[x].parent) /\ Shape(u, low)
    BY <2>1 DEF Moves
  <2>3. u.node[x].parent \in DOMAIN u.node
    BY <2>2, ParentIs
  <2> HIDE DEF x
  <2>4. IsRed(v, v.node[y].parent) <=> IsRed(u, u.node[x].parent)
    BY <1>1, <2>2, <2>3, FormerIs
  <2> QED BY <1>1, <2>1, <2>4 DEF Clash, x
<1> QED BY <1>1, <1>2

(* Black heights go along.                                                 *)
LEMMA MovedTree ==
  ASSUME NEW u, NEW low, NEW v, NEW k, NEW p, Moves(u, low, v, k, p),
         NEW h, NEW q, NEW d, Tree(u, low, h, q, d), q = nil \/ q \in Nodes(u)
  PROVE  \E l : Tree(v, RenamedSub(u, low, k, p), l, Renamed(k, p, q), d)
<1> DEFINE l == [y \in DOMAIN v.node |-> h[Former(k, p, y)]]
           r == Renamed(k, p, q)
<1>1. Shape(u, low) /\ d \in Sides /\ HeightsBut(u, h, q, d, {})
      /\ Shape(v, RenamedSub(u, low, k, p))
  BY DEF Tree, Moves
<1>2. l[nil] = 0 /\ \A y \in DOMAIN v.node : l[y] \in Nat
  BY <1>1, FormerIs DEF HeightsBut, Moves
<1>3. ASSUME NEW y \in Nodes(v) PROVE Even(v, l, r, d, y)
  <2> DEFINE x == Former(k, p, y)
  <2>1. y \in DOMAIN v.node /\ y # nil
    BY DEF Nodes
  <2>2. x \in Nodes(u) /\ x \in DOMAIN u.node /\ x # nil
        /\ \A g \in Sides : v.node[y][g] = Renamed(k, p, u.node[x][g])
    BY <2>1 DEF Moves, Nodes
  <2>3. Black(v, y) = Black(u, x)
    BY <2>1, MovedColours DEF Black
  <2>4. l[y] = h[x]
    BY <2>1
  <2>5. Even(u, h, q, d, x)
    BY <1>1, <2>2 DEF HeightsBut
  <2>6. y = r <=> x = q
    <3>1. y = r => x = q
      <4>1. q \in DOMAIN u.node
        BY FormerIs DEF Nodes
      <4> QED BY <4>1, FormerIs
    <3>2. x = q => y = r
      BY <2>1, FormerIs
    <3> QED BY <3>1, <3>2
  <2> HIDE DEF x, r
  <2>7. ASSUME NEW g \in Sides PROVE l[v.node[y][g]] = h[u.node[x][g]]
                 /\ Debt(r, d, y, g) = Debt(q, d, x, g)
    <3>1. u.node[x][g] \in DOMAIN u.node
      BY <1>1, <2>2, ChildIs
    <3>2. Debt(r, d, y, g) = Debt(q, d, x, g)
      BY <2>6 DEF Debt
    <3> QED BY <2>2, <3>1, <3>2, FormerIs
  <2> QED BY <2>3, <2>4, <2>5, <2>7 DEF Even
<1>4. HeightsBut(v, l, r, d, {})
  BY <1>2, <1>3 DEF HeightsBut
<1> QED BY <1>1, <1>4 DEF Tree

LEMMA MovedSettled ==
  ASSUME NEW u, NEW low, NEW v, NEW k, NEW p, Moves(u, low, v, k, p),
         NEW h, Settled(u, low, h)
  PROVE  \E lo, l : Settled(v, lo, l)
<1>1. \E l : Tree(v, RenamedSub(u, low, k, p), l, nil, "left")
  <2>1. Tree(u, low, h, nil, "left")
    BY DEF Settled
  <2>2. \E l : Tree(v, RenamedSub(u, low, k, p), l, Renamed(k, p, nil), "left")
    BY <2>1, MovedTree
  <2>3. Renamed(k, p, nil) = nil
    BY FormerIs
  <2> QED BY <2>2, <2>3
<1>2. ClashOnly(v, {})
  <2>1. ASSUME NEW y \in Nodes(v) PROVE ~Clash(v, y)
    <3>1. Former(k, p, y) \in Nodes(u)
      BY DEF Moves, Nodes
    <3> QED BY <3>1, MovedColours DEF Settled, ClashOnly
  <2> QED BY <2>1 DEF ClashOnly
<1>3. ASSUME IsRed(v, v.root) PROVE Nodes(v) = {v.root}
  <2>1. v.root = Renamed(k, p, u.root) /\ u.root \in DOMAIN u.node
    BY DEF Moves, Shape
  <2>2. IsRed(u, u.root)
    BY <1>3, <2>1, FormerIs, MovedColours
  <2>3. Nodes(u) = {u.root}
    BY <2>2 DEF Settled
  <2>4. u.root = k /\ Nodes(v) = (Nodes(u) \cup {p}) \ {k} /\ p # k
    BY <2>3 DEF Moves, Nodes
  <2> QED BY <2>1, <2>3, <2>4 DEF Renamed
<1> QED BY <1>1, <1>2, <1>3 DEF Settled

LEMMA MovedRemoving ==
  ASSUME NEW u, NEW low, NEW v, NEW k, NEW p, Moves(u, low, v, k, p),
         NEW h, NEW c, NEW q, NEW d, Removing(u, low, h, c, q, d), c # u.root,
           c # k
  PROVE  c # v.root /\ \E lo, l : Removing(v, lo, l, c, Renamed(k, p, q), d)
<1> DEFINE r == Renamed(k, p, q)
<1>1. Tree(u, low, h, q, d) /\ q \in Nodes(u) /\ u.node[q][d] = c
        /\ c \in DOMAIN u.node
      /\ u.root # nil /\ ~IsRed(u, u.root) /\ d \in Sides
           /\ u.root \in DOMAIN u.node
  BY DEF Removing, Tree, Shape
<1>2. PICK l : Tree(v, RenamedSub(u, low, k, p), l, r, d)
  BY <1>1, MovedTree
<1>3. q \in DOMAIN u.node /\ q # nil
  BY <1>1 DEF Nodes
<1>4. r \in DOMAIN v.node /\ r # nil /\ Former(k, p, r) = q
  BY <1>3, FormerIs
<1>5. Renamed(k, p, c) = c
  BY DEF Renamed
<1>6. v.node[r][d] = c
  BY <1>1, <1>4, <1>5 DEF Moves
<1>7. c \in DOMAIN v.node
  BY <1>1, <1>5, FormerIs
<1>8. v.root = Renamed(k, p, u.root)
  BY DEF Moves
<1>9. v.root # nil /\ ~IsRed(v, v.root)
  BY <1>1, <1>8, FormerIs, MovedColours
<1>10. c # v.root
  <2>1. Former(k, p, c) = c /\ Former(k, p, v.root) = u.root
    BY <1>1, <1>5, <1>8, FormerIs
  <2> QED BY <2>1
<1> HIDE DEF r
<1>11. ASSUME NEW y \in Nodes(v), Clash(v, y) PROVE y = c
                \/ v.node[y].parent = c
  <2> DEFINE x == Former(k, p, y)
  <2>1. x \in Nodes(u) /\ y \in DOMAIN v.node
          /\ v.node[y].parent = Renamed(k, p, u.node[x].parent)
    BY DEF Moves, Nodes
  <2>2. Clash(u, x)
    BY <1>11, MovedColours
  <2>3. x = c \/ u.node[x].parent = c
    BY <2>1, <2>2 DEF Removing
  <2>4. x = c => y = c
    BY <1>5, <2>1, FormerIs
  <2> HIDE DEF x
  <2> QED BY <1>5, <2>1, <2>3, <2>4
<1>12. Removing(v, RenamedSub(u, low, k, p), l, c, r, d)
  BY <1>2, <1>4, <1>6, <1>7, <1>9, <1>10, <1>11 DEF Removing, Nodes
<1> QED BY <1>10, <1>12 DEF r

-----------------------------------------------------------------------------
(* The node that goes.                                                     *)

(* A node without one of its children; if it is not k's own, its key is    *)
(* the one before k.                                                       *)
LEMMA SplicedIs ==
  ASSUME NEW sub, Shape(tree, sub), NEW k \in Nodes(tree)
  PROVE  LET z == Spliced(k)
         IN  /\ z \in Nodes(tree)
             /\ nil \in {Link(z, "left"), Link(z, "right")}
             /\ z # k => /\ \A s \in Sides : Link(z, s) # k
                         /\ \A y \in Nodes(tree) \ {z} : y # k
                              => (y < k <=> y < z)
<1> DEFINE z == Spliced(k)
<1>1. CASE nil \in {Link(k, "left"), Link(k, "right")}
  BY <1>1 DEF Spliced
<1>2. CASE nil \notin {Link(k, "left"), Link(k, "right")}
  <2> DEFINE a == Link(k, "left")
  <2>1. a # nil /\ z = Outermost(a, "right") /\ "left" \in Sides
          /\ "right" \in Sides
        /\ a = tree.node[k]["left"] /\ Opposite("right") = "left"
             /\ Opposite("left") = "right"
    BY <1>2 DEF Spliced, Sides, Link, Opposite
  <2> HIDE DEF z, a
  <2>2. a \in Nodes(tree)
    BY <2>1, ChildIs
  <2>3. /\ z \in Nodes(tree) /\ z \in sub[a] /\ tree.node[z]["right"] = nil
        /\ \A y \in sub[a] : y = z \/ Beyond("right", y, z)
    BY <2>1, <2>2, OutermostIs
  <2>4. z \in sub[k] /\ z # k /\ z < k
    BY <2>1, <2>3, ChildIs DEF Beyond
  <2>5. ASSUME NEW s \in Sides PROVE Link(z, s) # k
    <3>1. \A y \in sub[tree.node[z][s]] : y \in sub[z]
      BY <2>3, ChildIs
    <3>2. \A y \in sub[z] : y \in sub[a]
      BY <2>2, <2>3, BelowBelow
    <3>3. k \notin sub[a]
      BY <2>1, ChildIs
    <3>4. k \in sub[k]
      BY DEF Shape
    <3> QED BY <3>1, <3>2, <3>3, <3>4 DEF Link
  <2>6. ASSUME NEW y \in Nodes(tree) \ {z}, y # k PROVE y < k <=> y < z
    <3>1. y \in Nat /\ k \in Nat /\ z \in Nat
      BY <2>3, NodesNumbered
    <3>2. CASE y \in sub[k]
      <4>1. PICK s \in Sides : y \in sub[tree.node[k][s]]
        BY <2>6, <3>2 DEF Shape
      <4>2. CASE s = "left"
        <5>1. y < z
          BY <2>1, <2>3, <4>1, <4>2 DEF Beyond
        <5> QED BY <2>4, <3>1, <5>1
      <4>3. CASE s = "right"
        <5>1. k < y
          BY <4>1, <4>3, ChildIs DEF Beyond
        <5> QED BY <2>4, <3>1, <5>1
      <4> QED BY <4>2, <4>3 DEF Sides
    <3>3. CASE y \notin sub[k]
      <4>1. k \in sub[k]
        BY DEF Shape
      <4>2. (y < k /\ y < z) \/ (k < y /\ z < y)
        BY <2>4, <3>3, <4>1, Apart
      <4> QED BY <3>1, <4>2
    <3> QED BY <3>2, <3>3
  <2>7. nil \in {Link(z, "left"), Link(z, "right")}
    BY <2>3 DEF Link
  <2> QED BY <2>3, <2>5, <2>6, <2>7 DEF z
<1> QED BY <1>1, <1>2

-----------------------------------------------------------------------------
(* The tree at every step: between calls, and in the two loops.            *)

IdlePhase ==
  /\ pc = "idle" /\ node = nil /\ parent = nil
  /\ \E sub, h : Settled(tree, sub, h)

InsertPhase ==
  /\ pc = "insert" /\ parent = nil
  /\ \E sub, h : Grown(tree, sub, h, node)

RemovePhase ==
  /\ pc = "remove"
  /\ \E sub, h, q, d : /\ Removing(tree, sub, h, node, q, d)
                       /\ node # tree.root => parent = q

Phase == IdlePhase \/ InsertPhase \/ RemovePhase

LEMMA InsertRecolorPhase ==
  ASSUME Phase, InsertRecolor
  PROVE  Phase' /\ SameNodes(tree, tree')
<1>1. pc = "insert" /\ parent = nil /\ pc' = pc /\ parent' = parent
  BY DEF InsertRecolor, Phase, IdlePhase, InsertPhase, RemovePhase
<1>2. PICK sub, h : Grown(tree, sub, h, node)
  BY <1>1 DEF Phase, IdlePhase, InsertPhase, RemovePhase
<1> DEFINE p == tree.node[node].parent
           g == tree.node[p].parent
           w == UncleOf(tree, node)
<1>3. /\ IsRed(tree, p) /\ g # nil /\ IsRed(tree, w)
      /\ tree' = Paint(tree, {p, w}, {g}) /\ node' = g
  BY DEF InsertRecolor, Unbalanced, Uncle, UncleOf, Up, Link
<1>4. \E l : Grown(Paint(tree, {p, w}, {g}), sub, l, g)
  BY <1>2, <1>3, RecolouredGrown
<1>5. IsTree(tree)
  BY <1>2 DEF Grown, Tree, Shape
<1> HIDE DEF p, g, w
<1>6. SameNodes(tree, tree')
  BY <1>3, <1>5, PaintKeeps
<1>7. InsertPhase'
  BY <1>1, <1>3, <1>4 DEF InsertPhase
<1> QED BY <1>6, <1>7 DEF Phase

LEMMA InsertRotatePhase ==
  ASSUME Phase, InsertRotate
  PROVE  Phase' /\ SameNodes(tree, tree')
<1>1. pc = "insert" /\ parent = nil /\ pc' = pc /\ parent' = parent
  BY DEF InsertRotate, InsertTurn, Phase, IdlePhase, InsertPhase, RemovePhase
<1>2. PICK sub, h : Grown(tree, sub, h, node)
  BY <1>1 DEF Phase, IdlePhase, InsertPhase, RemovePhase
<1>3. /\ IsRed(tree, tree.node[node].parent)
      /\ tree.node[tree.node[node].parent].parent # nil
      /\ ~IsRed(tree, UncleOf(tree, node))
  BY DEF InsertRotate, InsertTurn, Unbalanced, Uncle, UncleOf, Up, Link
<1> DEFINE r == InsertTurned(tree, node)
<1>4. tree' = r.tree /\ node' = r.node
  BY DEF InsertRotate, InsertTurn, InsertTurned, Up, Link
<1>5. SameNodes(tree, r.tree) /\ \E low, l : Grown(r.tree, low, l, r.node)
  BY <1>2, <1>3, TurnedGrown
<1> HIDE DEF r
<1>6. InsertPhase'
  BY <1>1, <1>4, <1>5 DEF InsertPhase
<1> QED BY <1>4, <1>5, <1>6 DEF Phase

LEMMA InsertSettlePhase ==
  ASSUME Phase, InsertSettle
  PROVE  Phase' /\ SameNodes(tree, tree')
<1>1. pc = "insert" /\ parent = nil /\ pc' = "idle" /\ node' = nil
        /\ parent' = nil
      /\ tree' = Paint(tree, {tree.root}, {})
  BY DEF InsertSettle, Phase, IdlePhase, InsertPhase, RemovePhase
<1>2. PICK sub, h : Grown(tree, sub, h, node)
  BY <1>1 DEF Phase, IdlePhase, InsertPhase, RemovePhase
<1>3. ~(/\ IsRed(tree, tree.node[node].parent)
        /\ tree.node[tree.node[node].parent].parent # nil)
  BY DEF InsertSettle, Unbalanced, Up
<1>4. /\ \E l : Tree(tree', sub, l, nil, "left")
      /\ SameNodes(tree, tree') /\ tree'.root = tree.root
           /\ ~IsRed(tree', tree'.root)
      /\ ClashOnly(tree', {})
  BY <1>1, <1>2, <1>3, SettledGrown
<1>5. \E l : Settled(tree', sub, l)
  BY <1>4 DEF Settled
<1>6. IdlePhase'
  BY <1>1, <1>5 DEF IdlePhase
<1> QED BY <1>4, <1>6 DEF Phase

(* What the loop of tmap_delete_rebalance() looks at.                      *)
LEMMA ShorteningIs ==
  ASSUME Phase, Shortening
  PROVE  \E sub, h, q, d :
           /\ Removing(tree, sub, h, node, q, d)
           /\ Around(tree, h, node, q, d, Sibling, Inner, Outer)
           /\ parent = q /\ Side = d /\ Sibling = tree.node[q][Opposite(d)]
           /\ pc = "remove" /\ pc' = pc
           /\ node # tree.root
<1>1. pc = "remove" /\ pc' = pc /\ node # tree.root /\ ~IsRed(tree, node)
  BY DEF Shortening, Short
<1>2. PICK sub, h, q, d : /\ Removing(tree, sub, h, node, q, d)
                          /\ node # tree.root => parent = q
  BY <1>1 DEF Phase, IdlePhase, InsertPhase, RemovePhase
<1> DEFINE w == tree.node[q][Opposite(d)]
<1>3. Around(tree, h, node, q, d, w, tree.node[w][d], tree.node[w][Opposite(d)])
  BY <1>1, <1>2, AroundIs
<1>4. SideOf(tree, node, q) = d
  BY <1>3 DEF Around
<1>5. parent = q /\ Side = d /\ Sibling = w
  BY <1>1, <1>2, <1>4 DEF Side, Sibling, Link
<1> HIDE DEF w
<1>6. Inner = tree.node[w][d] /\ Outer = tree.node[w][Opposite(d)]
  BY <1>5 DEF Inner, Outer, Link
<1> QED BY <1>1, <1>2, <1>3, <1>5, <1>6 DEF w

LEMMA RemoveRedSiblingPhase ==
  ASSUME Phase, RemoveRedSibling
  PROVE  Phase' /\ SameNodes(tree, tree')
<1>1. Shortening /\ IsRed(tree, Sibling) /\ node' = node /\ parent' = parent
      /\ tree' = Rotate(Paint(tree, {Sibling}, {parent}), parent, Side)
  BY DEF RemoveRedSibling
<1>2. PICK sub, h, q, d :
           /\ Removing(tree, sub, h, node, q, d)
           /\ Around(tree, h, node, q, d, Sibling, Inner, Outer)
           /\ parent = q /\ Side = d
           /\ pc = "remove" /\ pc' = pc
           /\ node # tree.root
  BY <1>1, ShorteningIs
<1>3. /\ SameNodes(tree, tree') /\ node # tree'.root
      /\ \E low, l : Removing(tree', low, l, node, q, d)
  <2> DEFINE u == Rotate(Paint(tree, {Sibling}, {q}), q, d)
  <2>1. tree' = u
    BY <1>1, <1>2
  <2>2. SameNodes(tree, u) /\ node # u.root
          /\ \E low, l : Removing(u, low, l, node, q, d)
    BY <1>1, <1>2, RedSiblingRemoving
  <2> HIDE DEF u
  <2> QED BY <2>1, <2>2
<1>4. RemovePhase'
  BY <1>1, <1>2, <1>3 DEF RemovePhase
<1> QED BY <1>3, <1>4 DEF Phase

LEMMA RemoveRecolorPhase ==
  ASSUME Phase, RemoveRecolor
  PROVE  Phase' /\ SameNodes(tree, tree')
<1>1. /\ Shortening /\ ~IsRed(tree, Sibling) /\ ~IsRed(tree, Inner)
           /\ ~IsRed(tree, Outer)
      /\ node' = parent /\ parent' = tree.node[parent].parent
      /\ tree' = Paint(tree, {}, {Sibling})
  BY DEF RemoveRecolor, Up
<1>2. PICK sub, h, q, d :
           /\ Removing(tree, sub, h, node, q, d)
           /\ Around(tree, h, node, q, d, Sibling, Inner, Outer)
           /\ parent = q
           /\ pc = "remove" /\ pc' = pc
  BY <1>1, ShorteningIs
<1>3. SameNodes(tree, tree') /\ \E l, p, e : /\ Removing(tree', sub, l, q, p, e)
                                             /\ q # tree'.root
                                                  => p = tree.node[q].parent
  BY <1>1, <1>2, RecolourRemoving
<1>4. RemovePhase'
  BY <1>1, <1>2, <1>3 DEF RemovePhase
<1> QED BY <1>3, <1>4 DEF Phase

LEMMA RemoveTurnPhase ==
  ASSUME Phase, RemoveTurn
  PROVE  Phase' /\ SameNodes(tree, tree')
<1>1. /\ Shortening /\ ~IsRed(tree, Sibling) /\ IsRed(tree, Inner)
           /\ ~IsRed(tree, Outer)
      /\ node' = node /\ parent' = parent
      /\ tree' = Rotate(Paint(tree, {Inner}, {Sibling}), Sibling, Opposite(Side))
  BY DEF RemoveTurn
<1>2. PICK sub, h, q, d :
           /\ Removing(tree, sub, h, node, q, d)
           /\ Around(tree, h, node, q, d, Sibling, Inner, Outer)
           /\ parent = q /\ Side = d
           /\ pc = "remove" /\ pc' = pc
           /\ node # tree.root
  BY <1>1, ShorteningIs
<1>3. /\ SameNodes(tree, tree') /\ node # tree'.root
      /\ \E low, l : Removing(tree', low, l, node, q, d)
  BY <1>1, <1>2, TurnedRemoving
<1>4. RemovePhase'
  BY <1>1, <1>2, <1>3 DEF RemovePhase
<1> QED BY <1>3, <1>4 DEF Phase

LEMMA RemoveRotatePhase ==
  ASSUME Phase, RemoveRotate
  PROVE  Phase' /\ SameNodes(tree, tree')
<1> DEFINE reds == IF IsRed(tree, parent) THEN {Sibling} ELSE {}
<1>1. /\ Shortening /\ ~IsRed(tree, Sibling) /\ IsRed(tree, Outer)
      /\ node' = tree'.root
      /\ tree' = Rotate(Paint(tree, {parent, Sibling, Outer} \ reds, reds), parent, Side)
  BY DEF RemoveRotate
<1>2. PICK sub, h, q, d :
           /\ Removing(tree, sub, h, node, q, d)
           /\ Around(tree, h, node, q, d, Sibling, Inner, Outer)
           /\ parent = q /\ Side = d
           /\ pc = "remove" /\ pc' = pc
  BY <1>1, ShorteningIs
<1>3. /\ SameNodes(tree, tree')
      /\ \E low, l : Removing(tree', low, l, tree'.root, nil, "left")
  BY <1>1, <1>2, RotatedRemoving
<1>4. RemovePhase'
  BY <1>1, <1>2, <1>3 DEF RemovePhase
<1> QED BY <1>3, <1>4 DEF Phase

LEMMA RemoveSettlePhase ==
  ASSUME Phase, RemoveSettle
  PROVE  Phase' /\ SameNodes(tree, tree')
<1>1. /\ pc = "remove" /\ (node = tree.root \/ IsRed(tree, node))
      /\ tree' = Paint(tree, {node}, {}) /\ pc' = "idle" /\ node' = nil
           /\ parent' = nil
  BY DEF RemoveSettle, Short
<1>2. PICK sub, h, q, d : Removing(tree, sub, h, node, q, d)
  BY <1>1 DEF Phase, IdlePhase, InsertPhase, RemovePhase
<1>3. SameNodes(tree, tree') /\ \E l : Settled(tree', sub, l)
  BY <1>1, <1>2, SettledRemoving
<1>4. IdlePhase'
  BY <1>1, <1>3 DEF IdlePhase
<1> QED BY <1>3, <1>4 DEF Phase

(* A turn of a rebalancing loop.                                           *)
LEMMA RebalancePhase ==
  ASSUME Phase, Rebalance
  PROVE  /\ Phase' /\ SameNodes(tree, tree')
         /\ size' = size /\ n0' = n0 /\ n1' = n1
<1>1. Phase' /\ SameNodes(tree, tree')
  BY InsertRecolorPhase, InsertRotatePhase, InsertSettlePhase,
     RemoveRedSiblingPhase,
     RemoveRecolorPhase, RemoveTurnPhase, RemoveRotatePhase, RemoveSettlePhase
     DEF Rebalance
<1>2. size' = size /\ n0' = n0 /\ n1' = n1
  BY DEF Rebalance, InsertRecolor, InsertRotate, InsertTurn, InsertSettle,
         RemoveRedSibling, RemoveRecolor, RemoveTurn, RemoveRotate,
           RemoveSettle,
         Shortening, itVars
<1> QED BY <1>1, <1>2

-----------------------------------------------------------------------------
(* The calls.                                                              *)

LEMMA EmptySettled == \E sub, h : Settled(Empty, sub, h)
<1> DEFINE sub == [x \in {nil} |-> {}]
           h == [x \in {nil} |-> 0]
<1>1. /\ DOMAIN Empty.node = {nil} /\ Empty.node[nil] = Nil /\ Empty.root = nil
      /\ Empty = [root |-> Empty.root, node |-> Empty.node]
      /\ Empty.node = [x \in DOMAIN Empty.node |-> Empty.node[x]]
  BY DEF Empty
<1>2. IsNode(Nil)
  <2> DEFINE n == [left |-> nil, right |-> nil, parent |-> nil, red |-> FALSE, value |-> NULL]
  <2>1. Nil = n
    <3>1. Nil = [[left |-> nil, right |-> nil, parent |-> nil, red |-> TRUE,
                  value |-> NULL] EXCEPT !.red = FALSE]
      BY Zenon DEF Nil, Fresh
    <3> QED BY <3>1, Zenon
  <2> QED BY <2>1 DEF IsNode
<1>3. Nil.parent = nil /\ ~Nil.red
  BY DEF Nil, Fresh
<1>4. IsTree(Empty)
  BY <1>1, <1>2 DEF IsTree
<1>5. Nodes(Empty) = {}
  BY <1>1 DEF Nodes
<1>6. Shape(Empty, sub)
  BY <1>1, <1>3, <1>4, <1>5 DEF Shape
<1>7. HeightsBut(Empty, h, nil, "left", {})
  BY <1>1, <1>5 DEF HeightsBut
<1>8. ClashOnly(Empty, {}) /\ ~IsRed(Empty, Empty.root)
  BY <1>1, <1>3, <1>5 DEF ClashOnly, IsRed
<1> QED BY <1>6, <1>7, <1>8 DEF Settled, Tree, Sides

(* The tree u has the entries of t but k's.                                *)
TreeWithout(t, u, k) ==
  /\ DOMAIN u.node = DOMAIN t.node \ {k}
  /\ \A y \in DOMAIN t.node \ {k} : u.node[y].value = t.node[y].value

LEMMA IdleIs ==
  ASSUME Phase, pc = "idle"
  PROVE  /\ node = nil /\ parent = nil
         /\ \E sub, h : Settled(tree, sub, h) /\ Shape(tree, sub)
BY DEF Phase, IdlePhase, InsertPhase, RemovePhase, Settled, Tree

(* What tmap_get() says.                                                   *)
LEMMA GetFinds ==
  ASSUME Phase, pc = "idle", NEW k \in Keys
  PROVE  /\ tmap_get_node(k) = nil <=> k \notin Nodes(tree)
         /\ tmap_get_node(k) # nil => tmap_get_node(k) = k
<1>1. PICK sub : Shape(tree, sub)
  BY IdleIs
<1>2. k \in Nat \ {nil}
  BY KeysAssumption
<1> QED BY <1>1, <1>2, DescentFinds DEF tmap_get_node

LEMMA PutExistingPhase ==
  ASSUME Phase, NEW k \in Keys, NEW v, PutExisting(k, v)
  PROVE  Phase' /\ PutTo(tree, tree', k, v) /\ k \in Nodes(tree)
<1>1. /\ pc = "idle" /\ tmap_get_node(k) # nil
      /\ tree' = [tree EXCEPT !.node[tmap_get_node(k)].value = v]
      /\ pc' = pc /\ node' = node /\ parent' = parent
  BY DEF PutExisting, loopVars
<1>2. tmap_get_node(k) = k /\ k \in Nodes(tree)
  BY <1>1, GetFinds
<1>3. PICK sub, h : Settled(tree, sub, h)
  BY <1>1, IdleIs
<1>4. tree' = [tree EXCEPT !.node[k].value = v]
  BY <1>1, <1>2
<1>5. PutTo(tree, tree', k, v) /\ Settled(tree', sub, h)
  BY <1>2, <1>3, <1>4, ValueSettled
<1>6. node = nil /\ parent = nil
  BY <1>1, IdleIs
<1>7. IdlePhase'
  BY <1>1, <1>5, <1>6 DEF IdlePhase
<1> QED BY <1>2, <1>5, <1>7 DEF Phase

LEMMA PutNewPhase ==
  ASSUME Phase, NEW k \in Keys, NEW v, PutNew(k, v)
  PROVE  Phase' /\ PutTo(tree, tree', k, v) /\ k \notin Nodes(tree)
<1> DEFINE up == Descent(k).parent
           grown == Grow(tree, k, up, v)
<1>1. /\ pc = "idle" /\ tmap_get_node(k) = nil /\ parent' = parent
      /\ IF up = nil
         THEN /\ tree' = Paint([grown EXCEPT !.root = k], {k}, {})
              /\ pc' = pc /\ node' = node
         ELSE /\ tree' = SetLink(grown, up, IF k > up THEN "right" ELSE "left", k)
              /\ pc' = "insert" /\ node' = k
  BY DEF PutNew
<1>2. k \notin Nodes(tree)
  BY <1>1, GetFinds
<1>3. PICK sub, h : Settled(tree, sub, h) /\ Shape(tree, sub)
  BY <1>1, IdleIs
<1>4. node = nil /\ parent = nil
  BY <1>1, IdleIs
<1>5. k \in Nat \ {nil} /\ k # nil
  BY KeysAssumption
<1>6. PICK path : Passed(up, k, path)
  BY <1>2, <1>3, <1>5, DescentFinds
<1>7. CASE up = nil
  <2>1. tree' = Paint([Grow(tree, k, nil, v) EXCEPT !.root = k], {k}, {})
    BY <1>1, <1>7
  <2>2. tree.root = nil
    BY <1>6, <1>7 DEF Passed
  <2>3. Tree(tree, sub, h, nil, "left")
    BY <1>3 DEF Settled
  <2>4. PutTo(tree, tree', k, v) /\ \E low, l : Settled(tree', low, l)
    BY <1>2, <1>5, <2>1, <2>2, <2>3, FirstSettled
  <2>5. IdlePhase'
    BY <1>1, <1>4, <1>7, <2>4 DEF IdlePhase
  <2> QED BY <1>2, <2>4, <2>5 DEF Phase
<1>8. CASE up # nil
  <2>1. tree' = SetLink(Grow(tree, k, up, v), up, Toward(up, k), k)
    BY <1>1, <1>8 DEF Toward
  <2> HIDE DEF up
  <2>2. IsTree(tree) /\ k \notin DOMAIN tree.node /\ up \in DOMAIN tree.node
    BY <1>2, <1>3, <1>5, <1>6, <1>8 DEF Shape, Nodes, Passed
  <2>3. GrownTo(tree, tree', k, up, v)
    BY <2>1, <2>2, Planted
  <2>4. PutTo(tree, tree', k, v) /\ \E low, l : Grown(tree', low, l, k)
    BY <1>2, <1>3, <1>6, <1>8, <2>3, PlantedGrown
  <2>5. InsertPhase'
    BY <1>1, <1>4, <1>8, <2>4 DEF InsertPhase, up
  <2> QED BY <1>2, <2>4, <2>5 DEF Phase
<1> QED BY <1>7, <1>8

LEMMA RemovePhaseLemma ==
  ASSUME Phase, NEW k \in Keys, Remove(k)
  PROVE  Phase' /\ TreeWithout(tree, tree', k) /\ k \in Nodes(tree)
<1> DEFINE z == Spliced(k)
           c == IF Link(z, "left") = nil THEN Link(z, "right") ELSE Link(z, "left")
           up == Up(z)
           value == tree.node[z].value
           t == Unlink(tree, z, c)
           e == IF Link(z, "left") = nil THEN "left" ELSE "right"
<1>1. /\ pc = "idle" /\ k \in Live
      /\ tree' = IF z = k THEN t ELSE Rename(t, k, z, value)
      /\ IF up = nil \/ IsRed(tree, z)
         THEN pc' = pc /\ node' = node /\ parent' = parent
         ELSE /\ pc' = "remove" /\ node' = c
              /\ parent' = IF up = k THEN z ELSE up
  BY DEF Remove, RemoveValued, loopVars
<1>2. PICK sub, h : Settled(tree, sub, h) /\ Shape(tree, sub)
  BY <1>1, IdleIs
<1>3. node = nil /\ parent = nil
  BY <1>1, IdleIs
<1>4. k \in Nodes(tree)
  BY <1>1 DEF Live, Nodes
<1>5. /\ z \in Nodes(tree)
      /\ nil \in {Link(z, "left"), Link(z, "right")}
      /\ z # k => /\ \A s \in Sides : Link(z, s) # k
                  /\ \A y \in Nodes(tree) \ {z} : y # k => (y < k <=> y < z)
  BY <1>2, <1>4, SplicedIs
<1> HIDE DEF z
<1>6. /\ e \in Sides /\ tree.node[z][e] = nil /\ c = tree.node[z][Opposite(e)]
  BY <1>5 DEF Sides, Opposite, Link
<1> HIDE DEF c, e
<1>7. /\ z \in DOMAIN tree.node /\ z # nil /\ c \in DOMAIN tree.node
      /\ up \in DOMAIN tree.node /\ IsTree(tree) /\ z \in Keys
      /\ up = tree.node[z].parent /\ c # z
  <2>1. c \in DOMAIN tree.node
    BY <1>2, <1>5, <1>6, ChildIs, SidesAre
  <2>2. up \in DOMAIN tree.node
    BY <1>2, <1>5, ParentIs DEF Up
  <2>3. c # z
    <3>1. c # nil => c # z
      BY <1>2, <1>5, <1>6, ChildIs, SidesAre
    <3> QED BY <1>5, <3>1 DEF Nodes
  <2> QED BY <1>2, <1>5, <2>1, <2>2, <2>3, NodesNumbered DEF Shape, Up
<1>8. UnlinkedTo(tree, t, z, c)
  BY <1>7, Unlinked DEF Up
<1> HIDE DEF t, up
<1>9. Spared(tree, t, z, c)
  BY <1>2, <1>5, <1>6, <1>8, UnlinkedSpared
<1>10. PICK low, l :
    \/ (IsRed(tree, z) \/ up = nil) /\ Settled(t, low, l)
    \/ /\ ~IsRed(tree, z) /\ up # nil /\ c # t.root
       /\ \E d : Removing(t, low, l, c, up, d)
  BY <1>7, <1>9 DEF Spared
<1>11. /\ DOMAIN t.node = DOMAIN tree.node \ {z} /\ IsTree(t)
       /\ \A y \in DOMAIN tree.node \ {z} : t.node[y].value = tree.node[y].value
  BY <1>8 DEF UnlinkedTo
<1>12. Shape(t, low)
  BY <1>10 DEF Settled, Removing, Tree
<1>13. CASE z = k
  <2>1. tree' = t
    BY <1>1, <1>13
  <2>2. TreeWithout(tree, tree', k)
    BY <1>11, <1>13, <2>1 DEF TreeWithout
  <2>3. CASE (IsRed(tree, z) \/ up = nil) /\ Settled(t, low, l)
    <3>1. IdlePhase'
      BY <1>1, <1>3, <2>1, <2>3 DEF IdlePhase
    <3> QED BY <1>4, <2>2, <3>1 DEF Phase
  <2>4. CASE /\ ~IsRed(tree, z) /\ up # nil /\ c # t.root
             /\ \E d : Removing(t, low, l, c, up, d)
    <3>1. RemovePhase'
      BY <1>1, <1>13, <2>1, <2>4 DEF RemovePhase
    <3> QED BY <1>4, <2>2, <3>1 DEF Phase
  <2> QED BY <1>10, <2>3, <2>4
<1>14. CASE z # k
  <2> DEFINE v == Rename(t, k, z, value)
  <2>1. tree' = v
    BY <1>1, <1>14
  <2>2. k \in DOMAIN t.node /\ k \in Nodes(t) /\ z \notin DOMAIN t.node
          /\ z \notin Nodes(t)
        /\ \A y \in Nodes(t) : y \in Nodes(tree) \ {z}
    BY <1>4, <1>11, <1>14 DEF Nodes
  <2>3. RenamedTo(t, v, k, z, value)
    BY <1>11, <2>2, RenameIs
  <2> HIDE DEF v
  <2>4. \A y \in Nodes(t) : y # k => (y < k <=> y < z)
    BY <1>5, <1>14, <2>2
  <2>5. Moves(t, low, v, k, z)
    BY <1>7, <1>12, <2>2, <2>3, <2>4, MovesIs
  <2>6. TreeWithout(tree, tree', k)
    <3>1. DOMAIN v.node = DOMAIN tree.node \ {k}
      BY <1>7, <1>11, <1>14, <2>5 DEF Moves
    <3>2. ASSUME NEW y \in DOMAIN tree.node \ {k} PROVE v.node[y].value = tree.node[y].value
      <4>1. v.node[y].value = IF y = z THEN value ELSE t.node[Former(k, z, y)].value
        BY <1>7, <1>11, <1>14, <2>3 DEF RenamedTo
      <4> QED BY <1>11, <4>1 DEF Former
    <3> QED BY <2>1, <3>1, <3>2 DEF TreeWithout
  <2>7. CASE (IsRed(tree, z) \/ up = nil) /\ Settled(t, low, l)
    <3>1. \E lo, m : Settled(v, lo, m)
      BY <2>5, <2>7, MovedSettled
    <3>2. IdlePhase'
      BY <1>1, <1>3, <2>1, <2>7, <3>1 DEF IdlePhase
    <3> QED BY <1>4, <2>6, <3>2 DEF Phase
  <2>8. CASE /\ ~IsRed(tree, z) /\ up # nil /\ c # t.root
             /\ \E d : Removing(t, low, l, c, up, d)
    <3>1. c # k
      BY <1>5, <1>6, <1>14, SidesAre DEF Link
    <3>2. PICK d : Removing(t, low, l, c, up, d)
      BY <2>8
    <3>3. c # v.root /\ \E lo, m : Removing(v, lo, m, c, Renamed(k, z, up), d)
      BY <2>5, <2>8, <3>1, <3>2, MovedRemoving
    <3>4. pc' = "remove" /\ node' = c /\ parent' = Renamed(k, z, up)
      BY <1>1, <2>8 DEF Renamed
    <3>5. RemovePhase'
      BY <2>1, <3>3, <3>4 DEF RemovePhase
    <3> QED BY <1>4, <2>6, <3>5 DEF Phase
  <2> QED BY <1>10, <2>7, <2>8
<1> QED BY <1>13, <1>14

LEMMA ClearPhase ==
  ASSUME Phase, Clear
  PROVE  Phase' /\ tree' = Empty
<1>1. pc = "idle" /\ tree' = Empty /\ pc' = pc /\ node' = node
        /\ parent' = parent
  BY DEF Clear, loopVars
<1>2. node = nil /\ parent = nil
  BY <1>1, IdleIs
<1>3. \E sub, h : Settled(tree', sub, h)
  BY <1>1, EmptySettled
<1>4. IdlePhase'
  BY <1>1, <1>2, <1>3 DEF IdlePhase
<1> QED BY <1>1, <1>4 DEF Phase

-----------------------------------------------------------------------------
(* Counting black nodes from the root.                                     *)

AboveOf(t, sub, x) == {y \in Nodes(t) : x \in sub[y]}

(* What a node is below, its parent is at or below.                        *)
LEMMA AboveChild ==
  ASSUME NEW t, NEW sub, Shape(t, sub), NEW p \in Nodes(t), NEW e \in Sides,
         NEW x, x = t.node[p][e], x # nil
  PROVE  /\ AboveOf(t, sub, x) = AboveOf(t, sub, p) \cup {x}
         /\ x \notin AboveOf(t, sub, p)
<1>1. x \in Nodes(t) /\ x \in sub[x] /\ p \in sub[p] /\ p # x
        /\ t.node[x].parent = p
  <2>1. p \in sub[p]
    BY DEF Shape
  <2> QED BY <2>1, ChildIs
<1>2. \A y \in sub[x] : y \in sub[p] /\ y # p
  BY ChildIs
<1>3. \A y \in AboveOf(t, sub, p) : y \in AboveOf(t, sub, x) /\ y # x
  <2> SUFFICES ASSUME NEW y \in Nodes(t), p \in sub[y] PROVE x \in sub[y]
                        /\ y # x
    BY DEF AboveOf
  <2>1. \A z \in sub[p] : z \in sub[y]
    BY BelowBelow
  <2> QED BY <1>1, <1>2, <2>1
<1> DEFINE Bad == {y \in Nodes(t) : x \in sub[y] /\ y # x /\ p \notin sub[y]}
           B == {Cardinality(sub[y]) : y \in Bad}
<1>4. Bad = {}
  <2> SUFFICES ASSUME Bad # {} PROVE FALSE
    OBVIOUS
  <2>1. B \in SUBSET Nat /\ B # {}
    BY SubFinite, NodesNumbered
  <2>2. PICK m \in B : \A k \in B : m <= k
    BY <2>1, LeastOf
  <2>3. PICK y \in Bad : m = Cardinality(sub[y])
    OBVIOUS
  <2>4. PICK s \in Sides : x \in sub[t.node[y][s]]
    BY <1>1, <2>3 DEF Shape
  <2> DEFINE c == t.node[y][s]
  <2>5. c # nil
    BY <1>1, <2>4 DEF Shape
  <2>6. /\ c \in Nodes(t) /\ c \in DOMAIN t.node /\ t.node[c].parent = y
        /\ y \in DOMAIN t.node /\ y \in sub[y]
        /\ \A z \in sub[c] : z \in sub[y]
    <3>1. y \in Nodes(t) /\ y \in DOMAIN t.node /\ y \in sub[y]
      BY NodesNumbered DEF Shape
    <3>2. /\ c \in Nodes(t) /\ t.node[c].parent = y
          /\ \A z \in sub[c] : z \in sub[y]
      BY <2>5, <3>1, ChildIs
    <3> QED BY <3>1, <3>2, NodesNumbered
  <2>7. Cardinality(sub[c]) < Cardinality(sub[y])
    BY Smaller
  <2>8. Cardinality(sub[c]) \in Nat /\ Cardinality(sub[y]) \in Nat
    BY <2>6, SubFinite
  <2>9. c \notin Bad
    <3> SUFFICES ASSUME c \in Bad PROVE FALSE
      OBVIOUS
    <3>1. m <= Cardinality(sub[c])
      BY <2>2
    <3> HIDE DEF c
    <3> QED BY <2>3, <2>7, <2>8, <3>1
  <2>10. c # x
    BY <1>1, <2>3, <2>6
  <2>11. p \in sub[c]
    BY <2>4, <2>6, <2>9, <2>10
  <2> QED BY <2>3, <2>6, <2>11
<1>5. \A y \in AboveOf(t, sub, x) : y = x \/ y \in AboveOf(t, sub, p)
  BY <1>4 DEF AboveOf
<1> QED BY <1>1, <1>3, <1>5 DEF AboveOf

BlackAbove(t, sub, x) == {y \in AboveOf(t, sub, x) : ~IsRed(t, y)}

(* Whether x is at or below the node that is short.                        *)
Owing(t, sub, n, q, x) == IF q # nil /\ n \in AboveOf(t, sub, x) THEN 1 ELSE 0

(* Black nodes above, and the height below, make the height of the root.   *)
AddsUp(t, sub, h, n, q, x) ==
  /\ IsFiniteSet(BlackAbove(t, sub, x))
  /\ Cardinality(BlackAbove(t, sub, x)) + Owing(t, sub, n, q, x) + h[x]
       = h[t.root] + Black(t, x)

LEMMA HeightsAddUp ==
  ASSUME NEW t, NEW sub, NEW h, NEW n, NEW q, NEW d, Tree(t, sub, h, q, d),
         q # nil => q \in Nodes(t) /\ t.node[q][d] = n,
         NEW x \in Nodes(t)
  PROVE  AddsUp(t, sub, h, n, q, x)
<1>1. Shape(t, sub) /\ d \in Sides
  BY DEF Tree
<1>2. /\ nil \in DOMAIN t.node
      /\ \A y \in DOMAIN t.node : h[y] \in Nat
      /\ \A y : Black(t, y) \in 0..1 /\ (Black(t, y) = 0 <=> IsRed(t, y))
      /\ \A y \in Nodes(t) : y \in DOMAIN t.node /\ y # nil
      /\ \A y \in Nodes(t), s \in Sides :
           h[y] = h[t.node[y][s]] + Black(t, y) + Debt(q, d, y, s)
  BY HeightsAre
<1>3. t.root \in DOMAIN t.node /\ h[t.root] \in Nat
  BY <1>1, <1>2 DEF Shape
<1>4. AddsUp(t, sub, h, n, q, t.root)
  <2> DEFINE r == t.root
  <2>1. r # nil /\ r \in Nodes(t) /\ r \in sub[r]
    BY <1>1, <1>3 DEF Shape, Nodes
  <2>2. ASSUME NEW y \in Nodes(t), r \in sub[y] PROVE y = r
    <3> SUFFICES ASSUME y # r PROVE FALSE
      OBVIOUS
    <3>1. /\ y \in sub[r]
          /\ y \in DOMAIN t.node /\ r \in DOMAIN t.node
      BY <1>1, <1>2, <2>1 DEF Shape
    <3>2. PICK s \in Sides : y \in sub[t.node[r][s]]
      BY <1>1, <2>1, <3>1 DEF Shape
    <3> DEFINE c == t.node[r][s]
    <3>3. c # nil
      BY <1>1, <3>2 DEF Shape
    <3> HIDE DEF r
    <3>4. c \in Nodes(t) /\ r \notin sub[c]
      BY <1>1, <2>1, <3>3, ChildIs
    <3>5. \A z \in sub[y] : z \in sub[c]
      BY <1>1, <3>2, <3>4, BelowBelow
    <3> QED BY <2>2, <3>4, <3>5
  <2> HIDE DEF r
  <2>3. AboveOf(t, sub, r) = {r}
    BY <2>1, <2>2 DEF AboveOf
  <2>4. Owing(t, sub, n, q, r) = 0
    <3>1. q # nil => n # r
      <4> SUFFICES ASSUME q # nil, n = r PROVE FALSE
        OBVIOUS
      <4>1. q \in Nodes(t) /\ t.node[q][d] = r /\ r # nil
        BY <2>1, <4>1
      <4> QED BY <1>1, <4>1, ChildIs DEF r
    <3> QED BY <2>3, <3>1 DEF Owing
  <2>5. BlackAbove(t, sub, r) = IF IsRed(t, r) THEN {} ELSE {r}
    BY <2>3 DEF BlackAbove
  <2>6. /\ IsFiniteSet(BlackAbove(t, sub, r))
        /\ Cardinality(BlackAbove(t, sub, r)) = Black(t, r)
    BY <2>5, FS_EmptySet, FS_Singleton DEF Black
  <2>7. Black(t, r) + 0 + h[r] = h[r] + Black(t, r)
    BY <1>2, <1>3 DEF r
  <2> QED BY <2>4, <2>6, <2>7 DEF AddsUp, r
<1>5. ASSUME NEW p \in Nodes(t), AddsUp(t, sub, h, n, q, p), NEW e \in Sides,
               t.node[p][e] # nil
      PROVE  AddsUp(t, sub, h, n, q, t.node[p][e])
  <2> DEFINE c == t.node[p][e]
  <2>1. c \in Nodes(t) /\ c \in DOMAIN t.node /\ t.node[c].parent = p
        /\ AboveOf(t, sub, c) = AboveOf(t, sub, p) \cup {c}
             /\ c \notin AboveOf(t, sub, p)
    BY <1>1, <1>2, <1>5, ChildIs, AboveChild
  <2>2. h[p] = h[c] + Black(t, p) + Debt(q, d, p, e)
    BY <1>2
  <2>3. Owing(t, sub, n, q, c) = Owing(t, sub, n, q, p) + Debt(q, d, p, e)
    <3>1. q # nil => (n = c <=> p = q /\ e = d)
      <4> SUFFICES ASSUME q # nil PROVE n = c <=> p = q /\ e = d
        OBVIOUS
      <4>1. q \in Nodes(t) /\ t.node[q][d] = n
        BY <4>1
      <4>2. n = c => q = p /\ d = e
        BY <1>1, <1>5, <4>1, SideIs
      <4> QED BY <4>1, <4>2
    <3> HIDE DEF c
    <3>2. CASE q = nil
      <4>1. p # q
        BY <1>2, <3>2
      <4> QED BY <3>2, <4>1 DEF Owing, Debt
    <3>3. CASE q # nil /\ n = c
      <4>1. n \in AboveOf(t, sub, c) /\ n \notin AboveOf(t, sub, p)
        BY <2>1, <3>3
      <4>2. Owing(t, sub, n, q, c) = 1 /\ Owing(t, sub, n, q, p) = 0
        BY <3>3, <4>1 DEF Owing
      <4>3. Debt(q, d, p, e) = 1
        BY <3>1, <3>3 DEF Debt
      <4> QED BY <4>2, <4>3
    <3>4. CASE q # nil /\ n # c
      <4>1. n \in AboveOf(t, sub, c) <=> n \in AboveOf(t, sub, p)
        BY <2>1, <3>4
      <4>2. Owing(t, sub, n, q, c) = Owing(t, sub, n, q, p)
              /\ Owing(t, sub, n, q, p) \in Nat
        BY <4>1 DEF Owing
      <4>3. Debt(q, d, p, e) = 0
        BY <3>1, <3>4 DEF Debt
      <4> QED BY <4>2, <4>3
    <3> QED BY <3>2, <3>3, <3>4
  <2> HIDE DEF c
  <2>4. /\ IsFiniteSet(BlackAbove(t, sub, c))
             /\ Cardinality(BlackAbove(t, sub, p)) \in Nat
        /\ Cardinality(BlackAbove(t, sub, c)) = Cardinality(BlackAbove(t, sub, p)) + Black(t, c)
    <3>1. IsFiniteSet(BlackAbove(t, sub, p))
            /\ Cardinality(BlackAbove(t, sub, p)) \in Nat
      BY <1>5, FS_CardinalityType DEF AddsUp
    <3>2. CASE IsRed(t, c)
      <4>1. BlackAbove(t, sub, c) = BlackAbove(t, sub, p) /\ Black(t, c) = 0
        BY <2>1, <3>2 DEF BlackAbove, Black
      <4> QED BY <3>1, <4>1
    <3>3. CASE ~IsRed(t, c)
      <4>1. BlackAbove(t, sub, c) = BlackAbove(t, sub, p) \cup {c}
              /\ Black(t, c) = 1
            /\ c \notin BlackAbove(t, sub, p)
        BY <2>1, <3>3 DEF BlackAbove, Black
      <4> QED BY <3>1, <4>1, FS_AddElement
    <3> QED BY <3>2, <3>3
  <2>5. /\ h[p] \in Nat /\ h[c] \in Nat /\ Black(t, p) \in 0..1
             /\ Black(t, c) \in 0..1
        /\ Debt(q, d, p, e) \in Nat /\ Owing(t, sub, n, q, p) \in Nat
    BY <1>2, <2>1 DEF Debt, Owing
  <2>6. Cardinality(BlackAbove(t, sub, p)) + Owing(t, sub, n, q, p) + h[p]
       = h[t.root] + Black(t, p)
    BY <1>5 DEF AddsUp
  <2> DEFINE m == Cardinality(BlackAbove(t, sub, p))
             k == Cardinality(BlackAbove(t, sub, c))
             w == Owing(t, sub, n, q, p)
             z == Owing(t, sub, n, q, c)
             b == Debt(q, d, p, e)
             i == Black(t, p)
             j == Black(t, c)
  <2>7. m \in Nat /\ w \in Nat /\ b \in Nat /\ i \in Nat /\ j \in Nat
          /\ h[c] \in Nat
        /\ h[t.root] \in Nat /\ h[p] \in Nat
        /\ k = m + j /\ z = w + b /\ h[p] = h[c] + i + b
             /\ m + w + h[p] = h[t.root] + i
    BY <1>3, <2>2, <2>3, <2>4, <2>5, <2>6
  <2> HIDE DEF m, k, w, z, b, i, j
  <2>8. k + z + h[c] = h[t.root] + j
    BY <2>7
  <2> QED BY <2>4, <2>8 DEF AddsUp, k, z, j, c
<1> DEFINE Bad == {y \in Nodes(t) : ~AddsUp(t, sub, h, n, q, y)}
           B == {Cardinality(Keys) - Cardinality(sub[y]) : y \in Bad}
<1> SUFFICES ASSUME Bad # {} PROVE FALSE
  OBVIOUS
<1>6. B \in SUBSET Nat /\ B # {}
  <2>1. ASSUME NEW y \in Bad PROVE Cardinality(Keys) - Cardinality(sub[y]) \in Nat
    <3>1. /\ Cardinality(sub[y]) \in Nat /\ Cardinality(Keys) \in Nat
          /\ Cardinality(sub[y]) <= Cardinality(Keys)
      BY <1>1, <1>2, SubFinite
    <3> QED BY <3>1
  <2> QED BY <2>1
<1>7. PICK m \in B : \A k \in B : m <= k
  BY <1>6, LeastOf
<1>8. PICK y \in Bad : m = Cardinality(Keys) - Cardinality(sub[y])
  OBVIOUS
<1>9. y # t.root
  BY <1>4
<1> DEFINE p == t.node[y].parent
           e == SideOf(t, y, p)
<1>10. p \in Nodes(t) /\ e \in Sides /\ t.node[p][e] = y /\ y \in Nodes(t)
         /\ y # nil
  BY <1>1, <1>2, <1>9, ParentIs
<1> HIDE DEF p, e
<1>11. p \in Bad
  BY <1>5, <1>10
<1>12. m <= Cardinality(Keys) - Cardinality(sub[p])
  BY <1>7, <1>11
<1>13. Cardinality(sub[y]) < Cardinality(sub[p])
  BY <1>1, <1>10, Smaller
<1>14. Cardinality(sub[y]) \in Nat /\ Cardinality(sub[p]) \in Nat
         /\ Cardinality(Keys) \in Nat
  BY <1>1, <1>2, <1>10, SubFinite
<1> QED BY <1>8, <1>12, <1>13, <1>14

-----------------------------------------------------------------------------
(* The inductive invariant: besides the phase, the size and the iterator.  *)

IteratorWithin ==
  n0 # nil => n0 \in Live /\ (n1 # nil => n1 \in Live /\ n0 <= n1)

TreeInv == Phase /\ size = Cardinality(Live) /\ IteratorWithin

LEMMA PhaseTree ==
  ASSUME Phase
  PROVE  \E sub, h, q, d : Tree(tree, sub, h, q, d) /\ Shape(tree, sub)
<1>1. CASE IdlePhase
  BY <1>1 DEF IdlePhase, Settled, Tree
<1>2. CASE InsertPhase
  BY <1>2 DEF InsertPhase, Grown, Tree
<1>3. CASE RemovePhase
  BY <1>3 DEF RemovePhase, Removing, Tree
<1> QED BY <1>1, <1>2, <1>3 DEF Phase

LEMMA LiveIs ==
  ASSUME Phase
  PROVE  /\ IsFiniteSet(Live) /\ Live \subseteq Keys
         /\ \A x \in Live : x \in Nat /\ x # nil
<1>1. Live \subseteq Keys /\ \A x \in Live : x \in Nat /\ x # nil
  BY PhaseTree, KeysAssumption DEF Shape, Nodes, Live, nil
<1>2. IsFiniteSet(Live)
  BY <1>1, KeysAssumption, FS_Subset
<1> QED BY <1>1, <1>2

LEMMA LiveSame ==
  ASSUME SameNodes(tree, tree')
  PROVE  Live' = Live
BY DEF SameNodes, Live

LEMMA PutLive ==
  ASSUME NEW k \in Keys, NEW v, PutTo(tree, tree', k, v)
  PROVE  Live' = Live \cup {k}
BY KeysAssumption DEF PutTo, Live, nil

LEMMA RemovedLive ==
  ASSUME NEW k \in Keys, TreeWithout(tree, tree', k)
  PROVE  Live' = Live \ {k}
BY DEF TreeWithout, Live

LEMMA InitInv == Init => TreeInv
<1> SUFFICES ASSUME Init PROVE TreeInv
  OBVIOUS
<1>1. tree = Empty /\ size = 0 /\ pc = "idle" /\ node = nil /\ parent = nil
        /\ n0 = nil
  BY DEF Init
<1>2. Phase
  BY <1>1, EmptySettled DEF Phase, IdlePhase
<1>3. Live = {}
  BY <1>1 DEF Live, Empty
<1> QED BY <1>1, <1>2, <1>3, FS_EmptySet DEF TreeInv, IteratorWithin

LEMMA IterateIs ==
  ASSUME TreeInv, Iterate
  PROVE  IteratorWithin' /\ Unvisited' = Live' /\ tree' = tree
<1>1. pc = "idle" /\ tree' = tree /\ n0' = Outermost(tree.root, "left")
        /\ n1' = nil
      /\ Live' = Live
  BY DEF Iterate, Live
<1>2. PICK sub, h : Settled(tree, sub, h) /\ Shape(tree, sub)
  BY <1>1, IdleIs DEF TreeInv
<1>3. /\ tree.root \in DOMAIN tree.node
      /\ \A y \in Nodes(tree) : y \in sub[tree.root] /\ y \notin sub[nil]
  BY <1>2 DEF Shape
<1>4. Nodes(tree) = Live
  BY DEF Nodes, Live
<1>5. CASE tree.root = nil
  <2>1. Live = {}
    BY <1>3, <1>4, <1>5
  <2>2. n0' = nil
    BY <1>1, <1>5, OutermostOfNil
  <2> QED BY <1>1, <2>1, <2>2 DEF IteratorWithin, Unvisited
<1>6. CASE tree.root # nil
  <2>1. tree.root \in Nodes(tree) /\ "left" \in Sides
    BY <1>3, <1>6 DEF Nodes, Sides
  <2>2. /\ n0' \in Live
        /\ \A z \in sub[tree.root] : z = n0' \/ Beyond("left", z, n0')
    BY <1>1, <1>2, <1>4, <2>1, OutermostIs
  <2>3. \A z \in Live : n0' <= z
    BY <1>3, <1>4, <2>2, LiveIs DEF Beyond, TreeInv
  <2>4. n0' # nil
    BY <2>2, LiveIs DEF TreeInv
  <2> QED BY <1>1, <2>2, <2>3, <2>4 DEF IteratorWithin, Unvisited
<1> QED BY <1>5, <1>6

LEMMA IteratePartialIs ==
  ASSUME TreeInv, NEW m \in Nat, IteratePartial(m)
  PROVE  /\ IteratorWithin' /\ tree' = tree
         /\ Unvisited' = {k \in Live' : Class[k] = m}
<1>1. pc = "idle" /\ tree' = tree /\ Live' = Live
  BY DEF IteratePartial, Live
<1>2. PICK sub, h : Settled(tree, sub, h) /\ Shape(tree, sub)
  BY <1>1, IdleIs DEF TreeInv
<1>3. Nodes(tree) = Live
  BY DEF Nodes, Live
<1> DEFINE x == Matching(m)
<1>4. CASE x = nil
  <2>1. \A z \in Live : Class[z] # m
    BY <1>2, <1>3, <1>4, MatchingIs DEF Nodes
  <2>2. n0' = nil
    BY <1>4 DEF IteratePartial
  <2> QED BY <1>1, <2>1, <2>2 DEF IteratorWithin, Unvisited
<1>5. CASE x # nil
  <2>1. x \in Live /\ Class[x] = m /\ \A z \in Live : Class[z] = m
          => z \in sub[x]
    BY <1>2, <1>3, <1>5, MatchingIs
  <2>2. n0' = Boundary(x, m, "left") /\ n1' = Boundary(x, m, "right")
    BY <1>5 DEF IteratePartial
  <2> HIDE DEF x
  <2>3. "left" \in Sides /\ "right" \in Sides
    BY DEF Sides
  <2>4. /\ n0' \in Live /\ Class[n0'] = m
        /\ \A z \in Live : Class[z] = m => z = n0' \/ Beyond("left", z, n0')
    BY <1>2, <1>3, <2>1, <2>2, <2>3, BoundaryIs
  <2>5. /\ n1' \in Live /\ Class[n1'] = m
        /\ \A z \in Live : Class[z] = m => z = n1' \/ Beyond("right", z, n1')
    BY <1>2, <1>3, <2>1, <2>2, <2>3, BoundaryIs
  <2>6. \A z \in Live : Class[z] = m => n0' <= z /\ z <= n1'
    BY <2>4, <2>5, LiveIs DEF Beyond, TreeInv
  <2>7. \A z \in Live : n0' <= z /\ z <= n1' => Class[z] = m
    <3> SUFFICES ASSUME NEW z \in Live, n0' <= z, z <= n1' PROVE Class[z] = m
      OBVIOUS
    <3>1. z \in Keys /\ n0' \in Keys /\ n1' \in Keys
          /\ z \in Nat /\ n0' \in Nat /\ n1' \in Nat
      BY <2>4, <2>5, LiveIs DEF TreeInv
    <3>2. Class[z] \in Nat /\ Class[n0'] <= Class[z] /\ Class[z] <= Class[n1']
      <4>1. Class[z] \in Nat /\ Class[n0'] \in Nat /\ Class[n1'] \in Nat
        BY <3>1, ClassAssumption
      <4>2. n0' = z \/ n0' < z
        BY <3>1
      <4>3. z = n1' \/ z < n1'
        BY <3>1
      <4> QED BY <3>1, <4>1, <4>2, <4>3, ClassAssumption
    <3> QED BY <2>4, <2>5, <3>2
  <2>8. n0' # nil /\ n1' # nil /\ n0' <= n1'
    BY <2>4, <2>5, <2>6, LiveIs DEF TreeInv
  <2> QED BY <1>1, <2>4, <2>5, <2>6, <2>7, <2>8 DEF IteratorWithin, Unvisited
<1> QED BY <1>4, <1>5

LEMMA IteratorNextIs ==
  ASSUME TreeInv, IteratorNext
  PROVE  /\ IteratorWithin' /\ tree' = tree
         /\ n0 \in Unvisited /\ \A l \in Unvisited : n0 <= l
         /\ Unvisited' = Unvisited \ {n0}
<1>1. /\ pc = "idle" /\ tree' = tree /\ Live' = Live /\ n0 # nil /\ n1' = n1
      /\ n0' = IF n0 = n1 THEN nil ELSE successor(n0)
  BY DEF IteratorNext, Live
<1>2. PICK sub, h : Settled(tree, sub, h) /\ Shape(tree, sub)
  BY <1>1, IdleIs DEF TreeInv
<1>3. Nodes(tree) = Live
  BY DEF Nodes, Live
<1>4. n0 \in Live /\ (n1 # nil => n1 \in Live /\ n0 <= n1)
  BY <1>1 DEF TreeInv, IteratorWithin
<1>5. \A x \in Live : x \in Nat /\ x # nil
  BY LiveIs DEF TreeInv
<1>6. Unvisited = {k \in Live : n0 <= k /\ (n1 = nil \/ k <= n1)}
  BY <1>1 DEF Unvisited
<1>7. n0 \in Unvisited /\ \A l \in Unvisited : n0 <= l
  BY <1>4, <1>5, <1>6
<1>8. CASE n0 = n1
  <2>1. n0' = nil
    BY <1>1, <1>8
  <2>2. \A k \in Unvisited : k = n0
    BY <1>4, <1>5, <1>6, <1>8
  <2> QED BY <1>1, <1>7, <2>1, <2>2 DEF IteratorWithin, Unvisited
<1>9. CASE n0 # n1
  <2> DEFINE y == successor(n0)
  <2>1. n0' = y
    BY <1>1, <1>9
  <2>2. \/ /\ y \in Live /\ n0 < y
           /\ \A z \in Live : n0 < z => y <= z
        \/ y = nil /\ \A z \in Live : z <= n0
    BY <1>2, <1>3, <1>4, SuccessorIs
  <2> HIDE DEF y
  <2>3. CASE y = nil /\ \A z \in Live : z <= n0
    <3>1. n1 = nil
      BY <1>4, <1>5, <1>9, <2>3
    <3>2. \A k \in Unvisited : k = n0
      BY <1>4, <1>5, <1>6, <2>3
    <3> QED BY <1>1, <1>7, <2>1, <2>3, <3>2 DEF IteratorWithin, Unvisited
  <2>4. CASE /\ y \in Live /\ n0 < y
             /\ \A z \in Live : n0 < z => y <= z
    <3>1. y # nil /\ y \in Nat /\ n0 \in Nat
      BY <1>4, <1>5, <2>4
    <3>2. n1 # nil => n1 \in Live /\ y <= n1
      <4> SUFFICES ASSUME n1 # nil PROVE n1 \in Live /\ y <= n1
        OBVIOUS
      <4>1. n1 \in Live /\ n1 \in Nat /\ n0 <= n1
        BY <1>4, <1>5
      <4>2. n0 < n1
        BY <1>9, <3>1, <4>1
      <4> QED BY <2>4, <4>1, <4>2
    <3>3. \A k \in Live : y <= k <=> n0 <= k /\ k # n0
      BY <1>5, <2>4, <3>1
    <3>4. Unvisited' = {k \in Live : y <= k /\ (n1 = nil \/ k <= n1)}
      BY <1>1, <2>1, <3>1 DEF Unvisited
    <3>5. Unvisited' = Unvisited \ {n0}
      BY <1>6, <3>3, <3>4
    <3> QED BY <1>1, <1>7, <2>1, <2>4, <3>2, <3>5 DEF IteratorWithin
  <2> QED BY <2>2, <2>3, <2>4
<1> QED BY <1>8, <1>9

LEMMA CallInv ==
  ASSUME TreeInv, Call
  PROVE  TreeInv'
<1>1. Phase /\ size = Cardinality(Live) /\ IteratorWithin /\ IsFiniteSet(Live)
      /\ Cardinality(Live) \in Nat
  BY LiveIs, FS_CardinalityType DEF TreeInv
<1>2. ASSUME tree' = tree, UNCHANGED loopVars
      PROVE  Phase' /\ Live' = Live
  BY <1>1, <1>2 DEF loopVars, Phase, IdlePhase, InsertPhase, RemovePhase, Live
<1>3. ASSUME NEW k \in Keys, NEW v, PutExisting(k, v)
      PROVE  TreeInv'
  <2>1. Phase' /\ PutTo(tree, tree', k, v) /\ k \in Nodes(tree)
    BY <1>1, <1>3, PutExistingPhase
  <2>2. Live' = Live
    BY <2>1, PutLive DEF Nodes, Live
  <2>3. size' = size /\ n0' = n0 /\ n1' = n1
    BY <1>3 DEF PutExisting, itVars
  <2> QED BY <1>1, <2>1, <2>2, <2>3 DEF TreeInv, IteratorWithin
<1>4. ASSUME NEW k \in Keys, NEW v, PutNew(k, v)
      PROVE  TreeInv'
  <2>1. Phase' /\ PutTo(tree, tree', k, v) /\ k \notin Nodes(tree)
    BY <1>1, <1>4, PutNewPhase
  <2>2. Live' = Live \cup {k} /\ k \notin Live
    BY <2>1, PutLive DEF Nodes, Live
  <2>3. size' = size + 1 /\ n0' = n0 /\ n1' = n1
    BY <1>4 DEF PutNew, itVars
  <2>4. Cardinality(Live') = Cardinality(Live) + 1
    BY <1>1, <2>2, FS_AddElement
  <2> QED BY <1>1, <2>1, <2>2, <2>3, <2>4 DEF TreeInv, IteratorWithin
<1>5. ASSUME NEW k \in Keys, Remove(k)
      PROVE  TreeInv'
  <2>1. Phase' /\ TreeWithout(tree, tree', k) /\ k \in Nodes(tree)
    BY <1>1, <1>5, RemovePhaseLemma
  <2>2. Live' = Live \ {k} /\ k \in Live
    BY <2>1, RemovedLive DEF Nodes, Live
  <2>3. size' = size - 1 /\ n0' = nil
    BY <1>5 DEF Remove, RemoveValued
  <2>4. Cardinality(Live') = Cardinality(Live) - 1
    BY <1>1, <2>2, FS_RemoveElement
  <2> QED BY <1>1, <2>1, <2>3, <2>4 DEF TreeInv, IteratorWithin
<1>6. ASSUME NEW k \in Keys, RemoveAbsent(k)
      PROVE  TreeInv'
  <2>1. tree' = tree /\ size' = size /\ UNCHANGED loopVars /\ n0' = nil
    BY <1>6 DEF RemoveAbsent
  <2> QED BY <1>1, <1>2, <2>1 DEF TreeInv, IteratorWithin
<1>7. ASSUME NEW k \in Keys, IteratePartial(Class[k])
      PROVE  TreeInv'
  <2>1. Class[k] \in Nat
    BY ClassAssumption
  <2>2. IteratorWithin'
    BY <1>7, <2>1, IteratePartialIs
  <2>3. tree' = tree /\ size' = size /\ UNCHANGED loopVars
    BY <1>7 DEF IteratePartial
  <2> QED BY <1>1, <1>2, <2>2, <2>3 DEF TreeInv
<1>8. ASSUME Clear
      PROVE  TreeInv'
  <2>1. Phase' /\ tree' = Empty
    BY <1>1, <1>8, ClearPhase
  <2>2. Live' = {}
    BY <2>1 DEF Live, Empty
  <2>3. size' = 0 /\ n0' = nil
    BY <1>8 DEF Clear
  <2> QED BY <2>1, <2>2, <2>3, FS_EmptySet DEF TreeInv, IteratorWithin
<1>9. ASSUME Iterate
      PROVE  TreeInv'
  <2>1. tree' = tree /\ size' = size /\ UNCHANGED loopVars
    BY <1>9 DEF Iterate
  <2> QED BY <1>1, <1>2, <1>9, <2>1, IterateIs DEF TreeInv
<1>10. ASSUME IteratorNext
       PROVE  TreeInv'
  <2>1. tree' = tree /\ size' = size /\ UNCHANGED loopVars
    BY <1>10 DEF IteratorNext
  <2> QED BY <1>1, <1>2, <1>10, <2>1, IteratorNextIs DEF TreeInv
<1> QED BY <1>3, <1>4, <1>5, <1>6, <1>7, <1>8, <1>9, <1>10 DEF Call

LEMMA NextInv == TreeInv /\ [Next]_vars => TreeInv'
<1> SUFFICES ASSUME TreeInv, [Next]_vars PROVE TreeInv'
  OBVIOUS
<1>1. ASSUME Rebalance
      PROVE  TreeInv'
  <2>1. Phase' /\ SameNodes(tree, tree') /\ size' = size /\ n0' = n0 /\ n1' = n1
    BY <1>1, RebalancePhase DEF TreeInv
  <2>2. Live' = Live
    BY <2>1, LiveSame
  <2> QED BY <2>1, <2>2 DEF TreeInv, IteratorWithin
<1>2. ASSUME UNCHANGED vars
      PROVE  TreeInv'
  BY <1>2 DEF vars, loopVars, itVars, TreeInv, IteratorWithin, Phase, IdlePhase,
              InsertPhase, RemovePhase, Live
<1> QED BY <1>1, <1>2, CallInv DEF Next

-----------------------------------------------------------------------------
(* What the invariant says of the links and of the colours.                *)

LEMMA InvLinked == TreeInv => Linked
<1> SUFFICES ASSUME TreeInv PROVE Linked
  OBVIOUS
<1>1. PICK sub, h, q, d : Tree(tree, sub, h, q, d) /\ Shape(tree, sub)
  BY PhaseTree DEF TreeInv
<1>2. Live = Nodes(tree)
  BY DEF Live, Nodes
<1>3. tree.node[nil] = Nil /\ Up(tree.root) = nil
  BY <1>1 DEF Shape, Up
<1>4. \A x \in Live, s \in {"left", "right"} :
        Link(x, s) # nil => Up(Link(x, s)) = x
  BY <1>1, <1>2 DEF Shape, Link, Up, Sides
<1>5. ASSUME NEW k \in Live
      PROVE  tmap_get_node(k) = k
  <2>1. k \in Nat \ {nil}
    BY LiveIs DEF TreeInv
  <2> QED BY <1>1, <1>2, <2>1, DescentFinds DEF tmap_get_node
<1> QED BY <1>3, <1>4, <1>5 DEF Linked, TreeInv

(* At the bottom of the tree, what is above makes the height of the root.  *)
LEMMA BottomAddsUp ==
  ASSUME NEW t, NEW sub, NEW h, NEW n, NEW q, NEW d, Tree(t, sub, h, q, d),
         q # nil => q \in Nodes(t) /\ t.node[q][d] = n,
         NEW x \in Nodes(t), NEW s \in Sides, t.node[x][s] = nil
  PROVE  /\ Cardinality(BlackAbove(t, sub, x)) \in Nat /\ h[t.root] \in Nat
         /\ Cardinality(BlackAbove(t, sub, x)) + Owing(t, sub, n, q, x)
              + Debt(q, d, x, s) = h[t.root]
<1> DEFINE m == Cardinality(BlackAbove(t, sub, x))
           o == Owing(t, sub, n, q, x)
           b == Black(t, x)
           e == Debt(q, d, x, s)
           r == h[t.root]
<1>1. m \in Nat /\ m + o + h[x] = r + b
  BY HeightsAddUp, FS_CardinalityType DEF AddsUp
<1>2. h[x] = 0 + b + e /\ b \in 0..1
  BY HeightsAre
<1>3. r \in Nat
  BY HeightsAre DEF Tree, Shape
<1>4. o \in Nat /\ e \in Nat
  BY DEF Owing, Debt
<1> HIDE DEF m, o, b, e, r
<1>5. m + o + e = r
  BY <1>1, <1>2, <1>3, <1>4
<1> QED BY <1>1, <1>3, <1>5 DEF m, o, e, r

LEMMA BlacksAre ==
  ASSUME NEW sub, Shape(tree, sub), NEW x \in Nodes(tree)
  PROVE  /\ Above(x) = AboveOf(tree, sub, x)
         /\ Blacks(x) = Cardinality(BlackAbove(tree, sub, x))
              + (IF pc = "remove" /\ (\/ node \in AboveOf(tree, sub, x)
                                      \/ node = nil /\ x = parent)
                 THEN 1 ELSE 0)
<1>1. Above(x) = AboveOf(tree, sub, x)
  BY AboveIs DEF AboveOf
<1> QED BY <1>1 DEF Blacks, BlackAbove

(* All the paths to nil count as many black nodes.                         *)
LEMMA BlacksEqual ==
  ASSUME Phase
  PROVE  \E c : \A x \in Nodes(tree), s \in Sides :
                  tree.node[x][s] = nil => Blacks(x) = c
<1>1. ASSUME pc # "remove", NEW sub, NEW h, Tree(tree, sub, h, nil, "left")
      PROVE  \A x \in Nodes(tree), s \in Sides :
               tree.node[x][s] = nil => Blacks(x) = h[tree.root]
  <2> SUFFICES ASSUME NEW x \in Nodes(tree), NEW s \in Sides,
                        tree.node[x][s] = nil
               PROVE  Blacks(x) = h[tree.root]
    OBVIOUS
  <2> DEFINE m == Cardinality(BlackAbove(tree, sub, x))
             r == h[tree.root]
  <2>1. Blacks(x) = m + 0
    BY <1>1, BlacksAre DEF Tree
  <2>2. m \in Nat /\ r \in Nat
        /\ m + Owing(tree, sub, nil, nil, x) + Debt(nil, "left", x, s) = r
    BY <1>1, BottomAddsUp
  <2>3. Owing(tree, sub, nil, nil, x) = 0 /\ Debt(nil, "left", x, s) = 0
    BY DEF Owing, Debt, Nodes
  <2> HIDE DEF m, r
  <2>4. m = r /\ Blacks(x) = r
    BY <2>1, <2>2, <2>3
  <2> QED BY <2>4 DEF r
<1>2. CASE IdlePhase
  BY <1>1, <1>2 DEF IdlePhase, Settled
<1>3. CASE InsertPhase
  BY <1>1, <1>3 DEF InsertPhase, Grown
<1>4. CASE RemovePhase
  <2>1. pc = "remove"
    BY <1>4 DEF RemovePhase
  <2>2. PICK sub, h, q, d : /\ Removing(tree, sub, h, node, q, d)
                            /\ node # tree.root => parent = q
    BY <1>4 DEF RemovePhase
  <2>3. /\ Tree(tree, sub, h, q, d) /\ Shape(tree, sub) /\ tree.root # nil
        /\ node = tree.root => q = nil
        /\ node # tree.root => q \in Nodes(tree) /\ tree.node[q][d] = node
    BY <2>2 DEF Removing, Tree
  <2>4. q # nil => q \in Nodes(tree) /\ tree.node[q][d] = node
    BY <2>3
  <2> DEFINE r == h[tree.root]
  <2>5. CASE node = tree.root
    <3>1. ASSUME NEW x \in Nodes(tree), NEW s \in Sides, tree.node[x][s] = nil
          PROVE  Blacks(x) = r + 1
      <4> DEFINE m == Cardinality(BlackAbove(tree, sub, x))
      <4>1. node \in AboveOf(tree, sub, x)
        BY <2>3, <2>5 DEF AboveOf, Shape, Nodes
      <4>2. Blacks(x) = m + 1
        BY <2>1, <2>3, <4>1, BlacksAre
      <4>3. m \in Nat /\ r \in Nat
            /\ m + Owing(tree, sub, node, q, x) + Debt(q, d, x, s) = r
        BY <2>3, <2>4, <3>1, BottomAddsUp
      <4>4. Owing(tree, sub, node, q, x) = 0 /\ Debt(q, d, x, s) = 0
        BY <2>3, <2>5 DEF Owing, Debt, Nodes
      <4> HIDE DEF m, r
      <4> QED BY <4>2, <4>3, <4>4
    <3> QED BY <3>1
  <2>6. CASE node # tree.root
    <3>0. q \in Nodes(tree) /\ q # nil /\ tree.node[q][d] = node /\ parent = q
          /\ nil \notin Nodes(tree)
      BY <2>2, <2>3, <2>6 DEF Nodes
    <3>1. ASSUME NEW x \in Nodes(tree), NEW s \in Sides, tree.node[x][s] = nil
          PROVE  Blacks(x) = r
      <4> DEFINE m == Cardinality(BlackAbove(tree, sub, x))
                 o == Owing(tree, sub, node, q, x)
                 e == Debt(q, d, x, s)
                 extra == IF \/ node \in AboveOf(tree, sub, x)
                             \/ node = nil /\ x = parent
                          THEN 1 ELSE 0
      <4>1. Blacks(x) = m + extra
        BY <2>1, <2>3, BlacksAre
      <4>2. m \in Nat /\ r \in Nat /\ m + o + e = r
        BY <2>3, <2>4, <3>1, BottomAddsUp
      <4>3. CASE node # nil
        <5>1. e = 0
          BY <3>0, <3>1, <4>3 DEF Debt
        <5>2. o = extra /\ o \in Nat
          BY <3>0, <4>3 DEF Owing
        <5> HIDE DEF m, o, e, extra, r
        <5> QED BY <4>1, <4>2, <5>1, <5>2
      <4>4. CASE node = nil
        <5>1. o = 0
          BY <3>0, <4>4 DEF Owing, AboveOf
        <5>2. x = q => s = d
          <6> SUFFICES ASSUME x = q, s # d PROVE FALSE
            OBVIOUS
          <6>1. d \in Sides
            BY <2>3 DEF Tree
          <6>2. /\ h[x] = h[nil] + Black(tree, x) + Debt(q, d, x, s)
                /\ h[x] = h[nil] + Black(tree, x) + Debt(q, d, x, d)
                /\ h[nil] = 0 /\ Black(tree, x) \in 0..1
            BY <2>3, <3>0, <3>1, <4>4, <6>1, HeightsAre
          <6>3. Debt(q, d, x, s) = 0 /\ Debt(q, d, x, d) = 1
            BY DEF Debt
          <6> QED BY <6>2, <6>3
        <5>3. e = extra /\ e \in Nat
          BY <3>0, <4>4, <5>2 DEF Debt, AboveOf
        <5> HIDE DEF m, o, e, extra, r
        <5> QED BY <4>1, <4>2, <5>1, <5>3
      <4> QED BY <4>3, <4>4
    <3> QED BY <3>1
  <2> QED BY <2>5, <2>6
<1> QED BY <1>2, <1>3, <1>4 DEF Phase

LEMMA InvBalanced == TreeInv => Balanced
<1> SUFFICES ASSUME TreeInv PROVE Balanced
  OBVIOUS
<1>1. Phase /\ Live = Nodes(tree)
  BY DEF TreeInv, Live, Nodes
<1>2. \A x, y \in {z \in Live : nil \in {Link(z, "left"), Link(z, "right")}} :
        Blacks(x) = Blacks(y)
  <2>1. PICK c : \A x \in Nodes(tree), s \in Sides :
                   tree.node[x][s] = nil => Blacks(x) = c
    BY <1>1, BlacksEqual
  <2>2. ASSUME NEW x \in Live, nil \in {Link(x, "left"), Link(x, "right")}
        PROVE  Blacks(x) = c
    BY <1>1, <2>1, <2>2 DEF Link, Sides
  <2> QED BY <2>2
<1>3. ASSUME NEW x \in Live, IsRed(tree, x), IsRed(tree, Up(x))
      PROVE  \/ pc # "idle" /\ x = node
             \/ pc = "remove" /\ Up(x) = node
  <2>1. Clash(tree, x) /\ x \in Nodes(tree)
    BY <1>1, <1>3 DEF Clash, Up
  <2>2. CASE IdlePhase
    BY <2>1, <2>2 DEF IdlePhase, Settled, ClashOnly
  <2>3. CASE InsertPhase
    BY <2>1, <2>3 DEF InsertPhase, Grown, ClashOnly
  <2>4. CASE RemovePhase
    BY <2>1, <2>4 DEF RemovePhase, Removing, Up
  <2> QED BY <1>1, <2>2, <2>3, <2>4 DEF Phase
<1>4. ASSUME pc = "idle", IsRed(tree, tree.root)
      PROVE  Live = {tree.root}
  BY <1>1, <1>4, IdleIs DEF Phase, IdlePhase, InsertPhase, RemovePhase, Settled
<1> QED BY <1>2, <1>3, <1>4 DEF Balanced

-----------------------------------------------------------------------------
(* Step by step, what OrderedMapSpec promises.                             *)

Map == [k \in Live |-> tree.node[k].value]

LEMMA MapIsPut ==
  ASSUME NEW k \in Keys, NEW v, PutTo(tree, tree', k, v)
  PROVE  Map' = [x \in DOMAIN Map \cup {k} |-> IF x = k THEN v ELSE Map[x]]
<1>1. Live' = Live \cup {k}
  BY PutLive
<1>2. \A x \in Live \cup {k} :
        tree'.node[x].value = IF x = k THEN v ELSE tree.node[x].value
  BY DEF PutTo, Live
<1> QED BY <1>1, <1>2 DEF Map

LEMMA MapIsCut ==
  ASSUME NEW k \in Keys, TreeWithout(tree, tree', k)
  PROVE  Map' = [x \in DOMAIN Map \ {k} |-> Map[x]]
<1>1. Live' = Live \ {k}
  BY RemovedLive
<1>2. \A x \in Live \ {k} : tree'.node[x].value = tree.node[x].value
  BY DEF TreeWithout, Live
<1> QED BY <1>1, <1>2 DEF Map

LEMMA MapOfNothing == Live = {} => Map = <<>>
BY DEF Map

LEMMA InitMaps == Init => Abstract!Init
<1> SUFFICES ASSUME Init PROVE Abstract!Init
  OBVIOUS
<1>1. Live = {} /\ n0 = nil
  BY DEF Init, Live, Empty
<1> QED BY <1>1, MapOfNothing DEF Abstract!Init, Map, Unvisited

LEMMA CallMaps ==
  ASSUME TreeInv, Call
  PROVE  Abstract!Next
<1> USE DEF Map
<1>1. Phase
  BY DEF TreeInv
<1>2. ASSUME NEW k \in Keys, NEW v \in Values[k], PutExisting(k, v)
      PROVE  Abstract!Put(k, v)
  <2>1. PutTo(tree, tree', k, v) /\ k \in Live
    BY <1>1, <1>2, PutExistingPhase DEF Nodes, Live
  <2>2. Live' = Live /\ n0' = n0 /\ n1' = n1
    BY <1>2, <2>1, PutLive DEF PutExisting, itVars
  <2>3. Unvisited' = Unvisited
    BY <2>2 DEF Unvisited
  <2> QED BY <2>1, <2>3, MapIsPut DEF Abstract!Put
<1>3. ASSUME NEW k \in Keys, NEW v \in Values[k], PutNew(k, v)
      PROVE  Abstract!Put(k, v)
  <2>1. PutTo(tree, tree', k, v)
    BY <1>1, <1>3, PutNewPhase
  <2>2. Live' = Live \cup {k} /\ n0' = n0 /\ n1' = n1
    BY <1>3, <2>1, PutLive DEF PutNew, itVars
  <2>3. Unvisited' \in {Unvisited, Unvisited \cup {k}}
    BY <2>2 DEF Unvisited
  <2> QED BY <2>1, <2>3, MapIsPut DEF Abstract!Put
<1>4. ASSUME NEW k \in Keys, Remove(k)
      PROVE  Abstract!Remove(k)
  <2>1. TreeWithout(tree, tree', k)
    BY <1>1, <1>4, RemovePhaseLemma
  <2>2. Unvisited' = {}
    BY <1>4 DEF Remove, RemoveValued, Unvisited
  <2> QED BY <2>1, <2>2, MapIsCut DEF Abstract!Remove
<1>5. ASSUME NEW k \in Keys, RemoveAbsent(k)
      PROVE  Abstract!Remove(k)
  <2>1. pc = "idle" /\ tmap_get_node(k) = nil /\ tree' = tree /\ n0' = nil
    BY <1>5 DEF RemoveAbsent
  <2>2. k \notin Live
    BY <1>1, <2>1, GetFinds DEF Nodes, Live
  <2>3. Live' = Live /\ Unvisited' = {} /\ Live \ {k} = Live
    BY <2>1, <2>2 DEF Live, Unvisited
  <2>4. Map' = [x \in DOMAIN Map \ {k} |-> Map[x]]
    BY <2>1, <2>3
  <2> QED BY <2>3, <2>4 DEF Abstract!Remove
<1>6. ASSUME NEW k \in Keys, IteratePartial(Class[k])
      PROVE  Abstract!IteratePartial(Class[k])
  <2>1. Class[k] \in Nat
    BY ClassAssumption
  <2>2. tree' = tree /\ Unvisited' = {x \in Live' : Class[x] = Class[k]}
    BY <1>6, <2>1, IteratePartialIs
  <2>3. Live' = Live
    BY <2>2 DEF Live
  <2> QED BY <2>2, <2>3 DEF Abstract!IteratePartial
<1>7. ASSUME Clear
      PROVE  Abstract!Clear
  <2>1. tree' = Empty /\ n0' = nil
    BY <1>7 DEF Clear
  <2>2. Live' = {} /\ Unvisited' = {}
    BY <2>1 DEF Live, Empty, Unvisited
  <2>3. Map' = <<>>
    BY <2>2
  <2> QED BY <2>2, <2>3 DEF Abstract!Clear
<1>8. ASSUME Iterate
      PROVE  Abstract!Iterate
  <2>1. tree' = tree /\ Unvisited' = Live'
    BY <1>8, IterateIs
  <2>2. Live' = Live
    BY <2>1 DEF Live
  <2> QED BY <2>1, <2>2 DEF Abstract!Iterate
<1>9. ASSUME IteratorNext
      PROVE  Abstract!Visit
  <2>1. /\ tree' = tree /\ n0 \in Unvisited /\ \A l \in Unvisited : n0 <= l
        /\ Unvisited' = Unvisited \ {n0}
    BY <1>9, IteratorNextIs
  <2>2. Live' = Live
    BY <2>1 DEF Live
  <2> QED BY <2>1, <2>2 DEF Abstract!Visit
<1> QED BY <1>2, <1>3, <1>4, <1>5, <1>6, <1>7, <1>8, <1>9 DEF Call,
           Abstract!Next

LEMMA RebalanceMaps ==
  ASSUME TreeInv, Rebalance
  PROVE  Map' = Map /\ Unvisited' = Unvisited
<1>1. SameNodes(tree, tree') /\ n0' = n0 /\ n1' = n1
  BY RebalancePhase DEF TreeInv
<1>2. Live' = Live /\ \A x \in Live : tree'.node[x].value = tree.node[x].value
  BY <1>1, LiveSame DEF SameNodes, Live
<1> QED BY <1>1, <1>2 DEF Map, Unvisited

LEMMA NextMaps ==
  TreeInv /\ [Next]_vars => [Abstract!Next]_<<Map, Unvisited>>
<1> SUFFICES ASSUME TreeInv, [Next]_vars
             PROVE  [Abstract!Next]_<<Map, Unvisited>>
  OBVIOUS
<1>1. CASE Call
  BY <1>1, CallMaps
<1>2. CASE Rebalance
  BY <1>2, RebalanceMaps
<1>3. CASE UNCHANGED vars
  BY <1>3 DEF vars, itVars, Map, Unvisited, Live
<1> QED BY <1>1, <1>2, <1>3 DEF Next

(* While the loops of tmap_put() and tmap_remove() turn the tree, and      *)
(* after them: the links agree both ways, the shared nil node is as it     *)
(* was, tmap_get() finds every entry, and tmap_size() counts them.         *)
THEOREM TreeIsLinked == Spec => []Linked
<1> QED BY InitInv, NextInv, InvLinked, PTL DEF Spec

(* Every path to nil has as many black nodes, but for the one the removal  *)
(* owes, and no red node is below a red one but where the loop is at.      *)
THEOREM TreeIsBalanced == Spec => []Balanced
<1> QED BY InitInv, NextInv, InvBalanced, PTL DEF Spec

(* The tree and its iterators are a map with its keys in order.            *)
THEOREM TreeIsAnOrderedMap == Spec => ImplementsOrderedMap
<1> QED BY InitInv, NextInv, InitMaps, NextMaps, PTL
        DEF Spec, ImplementsOrderedMap, Abstract!Spec, Map
===============================================================================

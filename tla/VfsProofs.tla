------------------------------ MODULE VfsProofs ------------------------------
(***************************************************************************)
(* Proofs about the file system tree, for every set of names and nodes and  *)
(* paths of any length: names are unique and parents are right, the path    *)
(* the kernel constructs for a node leads back to it, a file that is        *)
(* created is found, and a listing misses nothing.                          *)
(*                                                                         *)
(* A loop along a path is a function of how far it has got.  That there is  *)
(* such a function, and what holds of it, follows from the least number for *)
(* which it would fail.                                                     *)
(***************************************************************************)
EXTENDS Vfs, WellFoundedInduction, SequenceTheorems, TLAPS

(* Components of paths, and of an execPath that points at garbage.          *)
Part == Names \cup {"..", "$"}

(* Each child is in the list of its parent, under a name of its own.        *)
ProperLists(t) ==
    \A n \in DOMAIN t : \A i, j \in DOMAIN t[n].children :
        /\ t[t[n].children[i]].parent = n
        /\ t[t[n].children[i]].name = t[t[n].children[j]].name => i = j

(* A path for each node: its parent's, and its own name.                    *)
IsPaths(t, p) ==
    /\ p \in [DOMAIN t -> Seq(Names)]
    /\ p[root] = <<>>
    /\ \A n \in DOMAIN t \ {root} : p[n] = Append(p[t[n].parent], t[n].name)

TypedTree(t) ==
    /\ root \in DOMAIN t /\ DOMAIN t \subseteq Nodes
    /\ t \in [DOMAIN t -> Node(DOMAIN t)]

GoodTree(t) ==
    /\ TypedTree(t)
    /\ ProperLists(t)
    /\ \A n \in DOMAIN t : t[n].res_type = "kerndrv" => t[n].children = <<>>
    /\ \A n \in DOMAIN t \ {root} : t[n].name \in Names /\ t[n].parent \in DOMAIN t
    /\ \E p : IsPaths(t, p)

(* Nothing is taken away or moved: lists of children only grow at the front.*)
Grows(t, u) ==
    /\ DOMAIN t \subseteq DOMAIN u
    /\ \A n \in DOMAIN t :
         /\ u[n].name = t[n].name /\ u[n].parent = t[n].parent
         /\ u[n].res_type = t[n].res_type
         /\ \E d \in Nat : /\ Len(u[n].children) = Len(t[n].children) + d
                           /\ \A i \in 1 .. Len(t[n].children) :
                                  u[n].children[i + d] = t[n].children[i]

(* Node f becomes a file.                                                   *)
Filed(t, f) ==
    [n \in DOMAIN t |->
        IF n = f THEN [t[n] EXCEPT !.res_type = "kerndrv", !.children = <<>>] ELSE t[n]]

(* A path of names that ends at, or is cut off by, a file.                  *)
Blocked(t, path) ==
    \E k \in 0 .. Len(path) :
        /\ Walk(t, root, path)[k] # None
        /\ t[Walk(t, root, path)[k]].res_type # "subdir"

(* What the listing has to show is shown or is still ahead.                 *)
Ahead(t, dir, l) ==
    \A c \in l.known \ l.seen :
        /\ l.phase = "busy"
        /\ \E i \in 1 .. Len(t[dir].children) : l.index < i /\ t[dir].children[i] = c

Listing(t, l) ==
    l.phase # "idle" =>
        \/ Blocked(t, l.path)
        \/ /\ vfs_get_relative_node(t, root, l.path) \in DOMAIN t
           /\ Ahead(t, vfs_get_relative_node(t, root, l.path), l)

Inv ==
    /\ TypeOK
    /\ GoodTree(tree)
    /\ Listing(tree, ls)

-----------------------------------------------------------------------------
(* Every set of numbers has a least one.                                    *)
LEMMA Least ==
    ASSUME NEW T \in SUBSET Nat, T # {}
    PROVE  \E x \in T : \A y \in T : ~(y < x)
<1>1. IsWellFoundedOn(OpToRel(<, Nat), Nat)
  BY NatLessThanWellFounded
<1>2. PICK x \in T : \A y \in T : ~(<<y, x>> \in OpToRel(<, Nat))
  BY <1>1, WFMin
<1>3. \A y \in T : y < x => <<y, x>> \in OpToRel(<, Nat)
  BY DEF OpToRel
<1> QED BY <1>2, <1>3

(* Induction along a path, for a set of positions.                          *)
LEMMA UpTo ==
    ASSUME NEW n \in Nat, NEW P, 0 \in P, \A k \in 1 .. n : k - 1 \in P => k \in P
    PROVE  \A k \in 0 .. n : k \in P
<1> DEFINE Bad == {k \in 0 .. n : k \notin P}
<1>1. SUFFICES ASSUME Bad # {} PROVE FALSE
  OBVIOUS
<1>2. PICK x \in Bad : \A y \in Bad : ~(y < x)
  <2>1. Bad \in SUBSET Nat
    OBVIOUS
  <2> HIDE DEF Bad
  <2> QED BY <1>1, <2>1, Least
<1>3. x \in 1 .. n /\ x - 1 \in 0 .. n /\ x - 1 \notin Bad
  BY <1>2
<1> QED BY <1>2, <1>3

IsFold(f, s, q, w) ==
    w[0] = s /\ \A k \in 1 .. Len(q) : w[k] = f[q[k]][w[k - 1]]

(* A loop over a sequence has a value after each turn, of the type that its *)
(* body keeps.                                                              *)
LEMMA FoldExists ==
    ASSUME NEW S, NEW T, NEW f \in [T -> [S -> S]], NEW s \in S, NEW q \in Seq(T)
    PROVE  \E w \in [0 .. Len(q) -> S] : IsFold(f, s, q, w)
<1> DEFINE Prefix(n, w) == w[0] = s /\ \A k \in 1 .. n : w[k] = f[q[k]][w[k - 1]]
           P == {n \in 0 .. Len(q) : \E w \in [0 .. n -> S] : Prefix(n, w)}
<1>1. Len(q) \in Nat /\ Len(q) \in 0 .. Len(q)
  OBVIOUS
<1>2. 0 \in P
  <2> DEFINE w == [i \in 0 .. 0 |-> s]
  <2>1. w \in [0 .. 0 -> S] /\ w[0] = s
    OBVIOUS
  <2>2. \A k \in 1 .. 0 : w[k] = f[q[k]][w[k - 1]]
    OBVIOUS
  <2> HIDE DEF w
  <2> QED BY <1>1, <2>1, <2>2
<1>3. ASSUME NEW n \in 1 .. Len(q), n - 1 \in P PROVE n \in P
  <2>1. PICK v \in [0 .. n - 1 -> S] : Prefix(n - 1, v)
    BY <1>3
  <2> DEFINE x == f[q[n]][v[n - 1]]
             w == [k \in 0 .. n |-> IF k = n THEN x ELSE v[k]]
  <2>2. x \in S
    <3>1. q[n] \in T /\ v[n - 1] \in S
      BY <1>1, <1>3, <2>1
    <3> QED BY <3>1
  <2> HIDE DEF x
  <2>3. w \in [0 .. n -> S]
    BY <1>1, <1>3, <2>1, <2>2
  <2>4. \A k \in 1 .. n : w[k] = f[q[k]][w[k - 1]]
    BY <1>1, <1>3, <2>1 DEF x
  <2>5. w[0] = s
    BY <1>1, <1>3, <2>1
  <2> HIDE DEF w
  <2> QED BY <1>1, <1>3, <2>3, <2>4, <2>5
<1>4. Len(q) \in P
  <2> HIDE DEF P
  <2> QED BY <1>1, <1>2, <1>3, UpTo
<1> QED BY <1>4 DEF IsFold

-----------------------------------------------------------------------------
(* A look-up by name finds a child of that name, or there is none.          *)
LEMMA NamedChild ==
    ASSUME NEW t, TypedTree(t), NEW n \in DOMAIN t, NEW part
    PROVE  \/ /\ ChildNamed(t, n, part) = None
              /\ \A i \in 1 .. Len(t[n].children) : t[t[n].children[i]].name # part
           \/ \E i \in 1 .. Len(t[n].children) :
                /\ ChildNamed(t, n, part) = t[n].children[i]
                /\ t[n].children[i] \in DOMAIN t
                /\ t[t[n].children[i]].name = part
<1>1. t[n] \in Node(DOMAIN t)
  BY DEF TypedTree
<1>2. t[n].children \in Seq(DOMAIN t)
  BY <1>1 DEF Node
<1>3. DOMAIN t[n].children = 1 .. Len(t[n].children) /\ Len(t[n].children) \in Nat
  BY <1>2
<1>4. CASE Named(t, n, part) = {}
  BY <1>3, <1>4 DEF ChildNamed, Named
<1>5. CASE Named(t, n, part) # {}
  <2>1. Named(t, n, part) \in SUBSET Nat
    BY <1>3 DEF Named
  <2>2. \E i \in Named(t, n, part) : \A j \in Named(t, n, part) : ~(j < i)
    BY <1>5, <2>1, Least
  <2>3. \E i \in Named(t, n, part) : \A j \in Named(t, n, part) : i <= j
    BY <2>1, <2>2
  <2> DEFINE i == CHOOSE i \in Named(t, n, part) : \A j \in Named(t, n, part) : i <= j
  <2>4. i \in Named(t, n, part)
    BY <2>3
  <2>5. ChildNamed(t, n, part) = t[n].children[i]
    BY <1>5 DEF ChildNamed
  <2> HIDE DEF i
  <2>6. i \in 1 .. Len(t[n].children) /\ t[t[n].children[i]].name = part
    BY <1>3, <2>4 DEF Named
  <2>7. t[n].children[i] \in DOMAIN t
    BY <1>2, <2>6
  <2> QED BY <2>5, <2>6, <2>7
<1> QED BY <1>4, <1>5

(* A look-up of one component gives a node or none, and of ".." a node.     *)
LEMMA FindType ==
    ASSUME NEW t, GoodTree(t), NEW n \in DOMAIN t, NEW part
    PROVE  /\ vfs_find_node(t, n, part) \in DOMAIN t \cup {None}
           /\ part = ".." => vfs_find_node(t, n, part) \in DOMAIN t
<1>1. CASE part = ".."
  BY <1>1 DEF vfs_find_node, GoodTree
<1>2. CASE part # ".."
  <2>1. ChildNamed(t, n, part) \in DOMAIN t \cup {None}
    BY NamedChild DEF GoodTree
  <2> QED BY <1>2, <2>1 DEF vfs_find_node
<1> QED BY <1>1, <1>2

NextNode(t, n, part) == IF n = None THEN None ELSE vfs_find_node(t, n, part)

IsWalk(t, n, parts, w) ==
    /\ w[0] = n
    /\ \A k \in 1 .. Len(parts) : w[k] = NextNode(t, w[k - 1], parts[k])

(* A look-up passes nodes of the tree, one found below the other, until it  *)
(* finds none.                                                              *)
LEMMA WalkIs ==
    ASSUME NEW t, GoodTree(t), NEW n \in DOMAIN t \cup {None}, NEW parts \in Seq(Part)
    PROVE  /\ IsWalk(t, n, parts, Walk(t, n, parts))
           /\ Walk(t, n, parts) \in [0 .. Len(parts) -> DOMAIN t \cup {None}]
<1> DEFINE S == DOMAIN t \cup {None}
           f == [p \in Part |-> [m \in S |-> NextNode(t, m, p)]]
<1>1. \A p \in Part : \A m \in S : NextNode(t, m, p) \in S
  BY FindType DEF NextNode
<1>2. f \in [Part -> [S -> S]]
  BY <1>1
<1>3. \A p \in Part : \A m \in S : f[p][m] = NextNode(t, m, p)
  OBVIOUS
<1> HIDE DEF f
<1>4. \E w \in [0 .. Len(parts) -> S] : IsFold(f, n, parts, w)
  <2> HIDE DEF S
  <2>1. n \in S
    BY DEF S
  <2> QED BY <1>2, <2>1, FoldExists
<1>5. PICK w \in [0 .. Len(parts) -> S] : IsFold(f, n, parts, w)
  BY <1>4
<1> DEFINE L == 0 .. Len(parts)
           Body(g, k) == IF k = 0 THEN n
                         ELSE IF g[k - 1] = None THEN None ELSE vfs_find_node(t, g[k - 1], parts[k])
<1>6. Len(parts) \in Nat /\ \A k \in 1 .. Len(parts) : parts[k] \in Part
  OBVIOUS
<1>7. w = [k \in L |-> Body(w, k)]
  <2> SUFFICES ASSUME NEW k \in L PROVE w[k] = Body(w, k)
    OBVIOUS
  <2>1. CASE k = 0
    BY <1>5, <2>1 DEF IsFold
  <2>2. CASE k # 0
    <3>1. k \in 1 .. Len(parts) /\ k - 1 \in 0 .. Len(parts)
      BY <1>6, <2>2
    <3>2. w[k - 1] \in S /\ parts[k] \in Part
      BY <1>5, <1>6, <3>1
    <3>3. w[k] = NextNode(t, w[k - 1], parts[k])
      BY <1>3, <1>5, <3>1, <3>2 DEF IsFold
    <3> QED BY <2>2, <3>3 DEF NextNode
  <2> QED BY <2>1, <2>2
<1> DEFINE at == CHOOSE g : g = [k \in L |-> Body(g, k)]
<1>8. at = [k \in L |-> Body(at, k)]
  <2> HIDE DEF Body, L
  <2> QED BY <1>7
<1>9. Walk(t, n, parts) = at
  BY DEF Walk
<1> HIDE DEF at
<1>10. IsWalk(t, n, parts, at)
  BY <1>6, <1>8 DEF IsWalk, NextNode
<1>11. at \in [L -> S]
  <2> DEFINE P == {k \in L : at[k] \in S}
  <2>1. 0 \in P
    BY <1>6, <1>10 DEF IsWalk
  <2>2. ASSUME NEW k \in 1 .. Len(parts), k - 1 \in P PROVE k \in P
    BY <1>1, <1>6, <1>10, <2>2 DEF IsWalk
  <2>3. \A k \in L : k \in P
    <3> HIDE DEF P
    <3> QED BY <1>6, <2>1, <2>2, UpTo
  <2> QED BY <1>8, <2>3
<1> QED BY <1>9, <1>10, <1>11

(* The body of the look-up decides it: two walks that agree at the start    *)
(* and in every step agree.                                                 *)
LEMMA SameWalk ==
    ASSUME NEW t, NEW n, NEW parts \in Seq(Part), NEW v, NEW w,
           IsWalk(t, n, parts, v), IsWalk(t, n, parts, w)
    PROVE  \A k \in 0 .. Len(parts) : v[k] = w[k]
<1> DEFINE P == {k \in 0 .. Len(parts) : v[k] = w[k]}
<1>1. Len(parts) \in Nat
  OBVIOUS
<1>2. 0 \in P
  BY <1>1 DEF IsWalk
<1>3. ASSUME NEW k \in 1 .. Len(parts), k - 1 \in P PROVE k \in P
  BY <1>1, <1>3 DEF IsWalk
<1>4. \A k \in 0 .. Len(parts) : k \in P
  <2> HIDE DEF P
  <2> QED BY <1>1, <1>2, <1>3, UpTo
<1> QED BY <1>4

(* Looking up one more component goes on from where the look-up got to.     *)
LEMMA WalkOfAppend ==
    ASSUME NEW t, GoodTree(t), NEW n \in DOMAIN t, NEW parts \in Seq(Part), NEW part \in Part
    PROVE  vfs_get_relative_node(t, n, Append(parts, part)) =
               NextNode(t, vfs_get_relative_node(t, n, parts), part)
<1> DEFINE more == Append(parts, part)
           v == Walk(t, n, parts)
           w == Walk(t, n, more)
<1>1. more \in Seq(Part) /\ Len(more) = Len(parts) + 1 /\ Len(parts) \in Nat
  OBVIOUS
<1>2. more[Len(parts) + 1] = part /\ \A k \in 1 .. Len(parts) : more[k] = parts[k]
  OBVIOUS
<1> HIDE DEF more
<1>3. IsWalk(t, n, parts, v) /\ IsWalk(t, n, more, w)
  BY <1>1, WalkIs
<1> HIDE DEF v, w
<1>4. IsWalk(t, n, parts, w)
  BY <1>1, <1>2, <1>3 DEF IsWalk
<1>5. w[Len(parts)] = v[Len(parts)]
  BY <1>1, <1>3, <1>4, SameWalk
<1>6. w[Len(parts) + 1] = NextNode(t, w[Len(parts)], part)
  <2>1. Len(parts) + 1 \in 1 .. Len(more) /\ Len(parts) + 1 - 1 = Len(parts)
    BY <1>1
  <2> QED BY <1>2, <1>3, <2>1 DEF IsWalk
<1> QED BY <1>1, <1>5, <1>6 DEF vfs_get_relative_node, more, v, w

-----------------------------------------------------------------------------
(* To grow is reflexive and transitive.                                     *)
LEMMA GrowsReflexive ==
    ASSUME NEW t, TypedTree(t)
    PROVE  Grows(t, t)
<1> SUFFICES ASSUME NEW n \in DOMAIN t
             PROVE  \E d \in Nat : /\ Len(t[n].children) = Len(t[n].children) + d
                                   /\ \A i \in 1 .. Len(t[n].children) :
                                          t[n].children[i + d] = t[n].children[i]
  BY DEF Grows
<1>1. t[n] \in Node(DOMAIN t)
  BY DEF TypedTree
<1>2. Len(t[n].children) \in Nat
  BY <1>1 DEF Node
<1>3. /\ Len(t[n].children) = Len(t[n].children) + 0
      /\ \A i \in 1 .. Len(t[n].children) : t[n].children[i + 0] = t[n].children[i]
  BY <1>2
<1> QED BY <1>3

(* The second half of it: growing twice is growing.                         *)
LEMMA GrowsTransitive ==
    ASSUME NEW t, NEW u, NEW v, TypedTree(t), Grows(t, u), Grows(u, v)
    PROVE  Grows(t, v)
<1> SUFFICES ASSUME NEW n \in DOMAIN t
             PROVE  \E d \in Nat : /\ Len(v[n].children) = Len(t[n].children) + d
                                   /\ \A i \in 1 .. Len(t[n].children) :
                                          v[n].children[i + d] = t[n].children[i]
  BY DEF Grows
<1> DEFINE L == Len(t[n].children)
<1>1. L \in Nat
  <2>1. t[n] \in Node(DOMAIN t)
    BY DEF TypedTree
  <2> QED BY <2>1 DEF Node
<1>2. PICK d \in Nat : /\ Len(u[n].children) = L + d
                       /\ \A i \in 1 .. L : u[n].children[i + d] = t[n].children[i]
  BY DEF Grows
<1>3. PICK e \in Nat : /\ Len(v[n].children) = Len(u[n].children) + e
                       /\ \A i \in 1 .. Len(u[n].children) :
                              v[n].children[i + e] = u[n].children[i]
  BY DEF Grows
<1> HIDE DEF L
<1>4. d + e \in Nat /\ Len(v[n].children) = L + (d + e)
  BY <1>1, <1>2, <1>3
<1>5. ASSUME NEW i \in 1 .. L PROVE v[n].children[i + (d + e)] = t[n].children[i]
  <2>1. i + d \in 1 .. Len(u[n].children) /\ (i + d) + e = i + (d + e)
    BY <1>1, <1>2
  <2> QED BY <1>2, <1>3, <2>1
<1> QED BY <1>4, <1>5 DEF L

(* A child that is found stays the one that is found, however the tree      *)
(* grows: names are unique.                                                 *)
LEMMA FoundStays ==
    ASSUME NEW t, NEW u, GoodTree(t), GoodTree(u), Grows(t, u),
           NEW n \in DOMAIN t, NEW part, vfs_find_node(t, n, part) # None
    PROVE  vfs_find_node(u, n, part) = vfs_find_node(t, n, part)
<1>1. n \in DOMAIN u /\ u[n].parent = t[n].parent /\ u[n].res_type = t[n].res_type
  BY DEF Grows
<1>2. CASE part = ".."
  BY <1>1, <1>2 DEF vfs_find_node
<1>3. CASE part # ".."
  <2>1. t[n].res_type = "subdir" /\ ChildNamed(t, n, part) # None
        /\ vfs_find_node(t, n, part) = ChildNamed(t, n, part)
    BY <1>3 DEF vfs_find_node
  <2>2. PICK i \in 1 .. Len(t[n].children) :
            /\ ChildNamed(t, n, part) = t[n].children[i]
            /\ t[n].children[i] \in DOMAIN t
            /\ t[t[n].children[i]].name = part
    BY <2>1, NamedChild DEF GoodTree
  <2>3. PICK d \in Nat : /\ Len(u[n].children) = Len(t[n].children) + d
                         /\ \A j \in 1 .. Len(t[n].children) :
                                u[n].children[j + d] = t[n].children[j]
    BY DEF Grows
  <2>4. Len(t[n].children) \in Nat
    <3>1. t[n] \in Node(DOMAIN t)
      BY DEF GoodTree, TypedTree
    <3> QED BY <3>1 DEF Node
  <2>5. i + d \in 1 .. Len(u[n].children) /\ u[n].children[i + d] = t[n].children[i]
    BY <2>2, <2>3, <2>4
  <2>6. u[u[n].children[i + d]].name = part
    BY <2>2, <2>5 DEF Grows
  <2>7. PICK j \in 1 .. Len(u[n].children) :
            /\ ChildNamed(u, n, part) = u[n].children[j]
            /\ u[u[n].children[j]].name = part
    <3> DEFINE kids == u[n].children
    <3>1. \/ \A k \in 1 .. Len(kids) : u[kids[k]].name # part
          \/ \E k \in 1 .. Len(kids) : ChildNamed(u, n, part) = kids[k] /\ u[kids[k]].name = part
      BY <1>1, NamedChild DEF GoodTree
    <3>2. i + d \in 1 .. Len(kids) /\ u[kids[i + d]].name = part
      BY <2>5, <2>6
    <3> HIDE DEF kids
    <3>3. \E k \in 1 .. Len(kids) : ChildNamed(u, n, part) = kids[k] /\ u[kids[k]].name = part
      BY <3>1, <3>2
    <3> QED BY <3>3 DEF kids
  <2>8. DOMAIN u[n].children = 1 .. Len(u[n].children)
    <3>1. u[n] \in Node(DOMAIN u)
      BY <1>1 DEF GoodTree, TypedTree
    <3> QED BY <3>1 DEF Node
  <2>9. j = i + d
    BY <1>1, <2>5, <2>6, <2>7, <2>8 DEF GoodTree, ProperLists
  <2> QED BY <1>1, <1>3, <2>1, <2>2, <2>5, <2>7, <2>9 DEF vfs_find_node
<1> QED BY <1>2, <1>3

(* So a whole look-up that succeeded goes the same way.                     *)
LEMMA WalkStays ==
    ASSUME NEW t, NEW u, GoodTree(t), GoodTree(u), Grows(t, u),
           NEW n \in DOMAIN t, NEW parts \in Seq(Part), NEW k \in 0 .. Len(parts),
           Walk(t, n, parts)[k] # None
    PROVE  Walk(u, n, parts)[k] = Walk(t, n, parts)[k]
<1> DEFINE v == Walk(t, n, parts)
           w == Walk(u, n, parts)
           P == {j \in 0 .. Len(parts) : v[j] = None \/ w[j] = v[j]}
<1>1. Len(parts) \in Nat /\ \A j \in 1 .. Len(parts) : parts[j] \in Part
  OBVIOUS
<1>2. n \in DOMAIN u /\ None \notin DOMAIN t
  BY NodesAssumption DEF Grows, GoodTree, TypedTree
<1>3. IsWalk(t, n, parts, v) /\ IsWalk(u, n, parts, w)
      /\ v \in [0 .. Len(parts) -> DOMAIN t \cup {None}]
  BY <1>2, WalkIs
<1> HIDE DEF v, w
<1>4. 0 \in P
  BY <1>1, <1>3 DEF IsWalk
<1>5. ASSUME NEW j \in 1 .. Len(parts), j - 1 \in P PROVE j \in P
  <2>1. j - 1 \in 0 .. Len(parts) /\ j \in 0 .. Len(parts)
    BY <1>1
  <2>2. v[j] = NextNode(t, v[j - 1], parts[j]) /\ w[j] = NextNode(u, w[j - 1], parts[j])
    BY <1>3 DEF IsWalk
  <2>3. CASE v[j - 1] = None
    BY <2>1, <2>2, <2>3 DEF NextNode
  <2>4. CASE v[j - 1] # None
    <3>1. v[j - 1] \in DOMAIN t /\ w[j - 1] = v[j - 1]
      BY <1>3, <1>5, <2>1, <2>4
    <3>2. v[j] = vfs_find_node(t, v[j - 1], parts[j]) /\ w[j] = vfs_find_node(u, v[j - 1], parts[j])
      BY <2>2, <2>4, <3>1 DEF NextNode
    <3> QED BY <2>1, <3>1, <3>2, FoundStays
  <2> QED BY <2>3, <2>4
<1>6. \A j \in 0 .. Len(parts) : j \in P
  <2> HIDE DEF P
  <2> QED BY <1>1, <1>4, <1>5, UpTo
<1> QED BY <1>6 DEF v, w

-----------------------------------------------------------------------------
(* An element put in front of a list.                                       *)
LEMMA InFront ==
    ASSUME NEW S, NEW x \in S, NEW list \in Seq(S)
    PROVE  /\ <<x>> \o list \in Seq(S)
           /\ Len(<<x>> \o list) = Len(list) + 1
           /\ (<<x>> \o list)[1] = x
           /\ \A i \in 1 .. Len(list) : (<<x>> \o list)[i + 1] = list[i]
           /\ \A i \in 2 .. Len(list) + 1 : (<<x>> \o list)[i] = list[i - 1]
<1>1. <<x>> \in Seq(S) /\ Len(<<x>>) = 1 /\ <<x>>[1] = x /\ Len(list) \in Nat
  OBVIOUS
<1>2. /\ <<x>> \o list \in Seq(S)
      /\ Len(<<x>> \o list) = 1 + Len(list)
      /\ \A i \in 1 .. 1 + Len(list) : (<<x>> \o list)[i] = IF i <= 1 THEN <<x>>[i] ELSE list[i - 1]
  BY <1>1, ConcatProperties
<1> QED BY <1>1, <1>2

(* What vfs_insert_node leaves: the new node is an empty directory, first   *)
(* in the list of its parent; nothing else has changed.                     *)
LEMMA InsertedNodes ==
    ASSUME NEW t, TypedTree(t), NEW n \in DOMAIN t, NEW new, new \notin DOMAIN t, NEW part,
           NEW u, u = Inserted(t, n, new, part)
    PROVE  /\ DOMAIN u = DOMAIN t \cup {new}
           /\ u = [m \in DOMAIN t \cup {new} |-> u[m]]
           /\ u[new] = [name |-> part, parent |-> n, res_type |-> "subdir", children |-> <<>>]
           /\ \A m \in DOMAIN t : /\ u[m].name = t[m].name /\ u[m].parent = t[m].parent
                                  /\ u[m].res_type = t[m].res_type
                                  /\ m # n => u[m].children = t[m].children
           /\ u[n].children = <<new>> \o t[n].children
           /\ \A m \in DOMAIN t : u[m] \in Node(DOMAIN t \cup {new})
<1>1. \A m \in DOMAIN t : t[m] \in Node(DOMAIN t)
  BY DEF TypedTree
<1>2. /\ DOMAIN u = DOMAIN t \cup {new}
      /\ u = [m \in DOMAIN t \cup {new} |-> u[m]]
      /\ u[new] = [name |-> part, parent |-> n, res_type |-> "subdir", children |-> <<>>]
      /\ \A m \in DOMAIN t : m # n => u[m] = t[m]
      /\ u[n] = [t[n] EXCEPT !.children = <<new>> \o @]
  BY DEF Inserted, Parent, Linked
<1>3. /\ t[n].name \in Names \cup {"$"} /\ t[n].parent \in DOMAIN t \cup {None}
      /\ t[n].res_type \in {"subdir", "kerndrv"} /\ t[n].children \in Seq(DOMAIN t)
  BY <1>1 DEF Node
<1>4. /\ u[n].name = t[n].name /\ u[n].parent = t[n].parent /\ u[n].res_type = t[n].res_type
      /\ u[n].children = <<new>> \o t[n].children
  BY <1>1, <1>2 DEF Node
<1>5. \A list \in Seq(DOMAIN t) : list \in Seq(DOMAIN t \cup {new})
  BY SeqMonotonic
<1>6. ASSUME NEW m \in DOMAIN t PROVE u[m] \in Node(DOMAIN t \cup {new})
  <2>1. CASE m # n
    <3>1. t[m] \in Node(DOMAIN t \cup {new})
      BY <1>1, <1>5 DEF Node
    <3> QED BY <1>2, <2>1, <3>1
  <2>2. CASE m = n
    <3> DEFINE list == <<new>> \o t[n].children
    <3>1. list \in Seq(DOMAIN t \cup {new})
      BY <1>3, <1>5, InFront
    <3> HIDE DEF list
    <3>2. u[n] = [name |-> t[n].name, parent |-> t[n].parent,
                  res_type |-> t[n].res_type, children |-> list]
      BY <1>1, <1>2 DEF Node, list
    <3> QED BY <1>3, <2>2, <3>1, <3>2 DEF Node
  <2> QED BY <2>1, <2>2
<1> QED BY <1>2, <1>4, <1>6

(* Inserting a node keeps the tree a tree, and the tree grows by it.        *)
LEMMA InsertedTree ==
    ASSUME NEW t, GoodTree(t), NEW n \in DOMAIN t, t[n].res_type = "subdir",
           NEW new \in Nodes, new \notin DOMAIN t, NEW part \in Names,
           ChildNamed(t, n, part) = None
    PROVE  /\ GoodTree(Inserted(t, n, new, part))
           /\ Grows(t, Inserted(t, n, new, part))
           /\ vfs_find_node(Inserted(t, n, new, part), n, part) = new
<1> DEFINE u == Inserted(t, n, new, part)
<1>1. TypedTree(t) /\ None \notin DOMAIN t /\ new # None /\ new # root
  BY NodesAssumption DEF GoodTree, TypedTree
<1>2. /\ DOMAIN u = DOMAIN t \cup {new}
      /\ u = [m \in DOMAIN t \cup {new} |-> u[m]]
      /\ u[new] = [name |-> part, parent |-> n, res_type |-> "subdir", children |-> <<>>]
      /\ \A m \in DOMAIN t : /\ u[m].name = t[m].name /\ u[m].parent = t[m].parent
                             /\ u[m].res_type = t[m].res_type
                             /\ m # n => u[m].children = t[m].children
      /\ u[n].children = <<new>> \o t[n].children
      /\ \A m \in DOMAIN t : u[m] \in Node(DOMAIN t \cup {new})
  BY <1>1, InsertedNodes
<1> HIDE DEF u
<1>3. \A m \in DOMAIN t : /\ t[m].children \in Seq(DOMAIN t) /\ Len(t[m].children) \in Nat
                          /\ DOMAIN t[m].children = 1 .. Len(t[m].children)
  <2> SUFFICES ASSUME NEW m \in DOMAIN t
               PROVE  /\ t[m].children \in Seq(DOMAIN t) /\ Len(t[m].children) \in Nat
                      /\ DOMAIN t[m].children = 1 .. Len(t[m].children)
    OBVIOUS
  <2>1. t[m] \in Node(DOMAIN t)
    BY <1>1 DEF TypedTree
  <2> QED BY <2>1 DEF Node
<1> DEFINE old == t[n].children
           L == Len(old)
<1>4. /\ u[n].children \in Seq(DOMAIN u) /\ Len(u[n].children) = L + 1 /\ L \in Nat
      /\ u[n].children[1] = new
      /\ \A i \in 1 .. L : u[n].children[i + 1] = old[i]
      /\ \A i \in 2 .. L + 1 : u[n].children[i] = old[i - 1]
      /\ DOMAIN u[n].children = 1 .. L + 1
  <2>1. old \in Seq(DOMAIN t \cup {new}) /\ L \in Nat
    BY <1>3, SeqMonotonic
  <2> HIDE DEF old
  <2>2. /\ <<new>> \o old \in Seq(DOMAIN t \cup {new})
        /\ Len(<<new>> \o old) = L + 1
        /\ (<<new>> \o old)[1] = new
        /\ \A i \in 1 .. L : (<<new>> \o old)[i + 1] = old[i]
        /\ \A i \in 2 .. L + 1 : (<<new>> \o old)[i] = old[i - 1]
    BY <2>1, InFront
  <2>3. DOMAIN (<<new>> \o old) = 1 .. L + 1
    BY <2>2
  <2>4. u[n].children = <<new>> \o old
    BY <1>2 DEF old
  <2> QED BY <1>2, <2>1, <2>2, <2>3, <2>4
<1>5. TypedTree(u)
  <2>1. <<>> \in Seq(DOMAIN u) /\ n \in DOMAIN u
    BY <1>2
  <2> [name |-> part, parent |-> n, res_type |-> "subdir", children |-> <<>>] \in Node(DOMAIN u)
    BY <2>1 DEF Node
  <2>2. u \in [DOMAIN u -> Node(DOMAIN u)]
    BY <1>2
  <2> QED BY <1>1, <1>2, <2>2 DEF TypedTree
<1>6. \A i \in 1 .. L : old[i] \in DOMAIN t /\ t[old[i]].parent = n /\ t[old[i]].name # part
  <2>1. \A i \in 1 .. L : t[old[i]].name # part
    <3>1. \/ \A i \in 1 .. Len(t[n].children) : t[t[n].children[i]].name # part
          \/ \E i \in 1 .. Len(t[n].children) : t[n].children[i] = None /\ t[n].children[i] \in DOMAIN t
      BY <1>1, NamedChild
    <3> QED BY <1>1, <3>1
  <2> QED BY <1>3, <2>1 DEF GoodTree, ProperLists
<1>7. ProperLists(u)
  <2> SUFFICES ASSUME NEW m \in DOMAIN u, NEW i \in DOMAIN u[m].children, NEW j \in DOMAIN u[m].children
               PROVE  /\ u[u[m].children[i]].parent = m
                      /\ u[u[m].children[i]].name = u[u[m].children[j]].name => i = j
    BY DEF ProperLists
  <2>1. m # new
    BY <1>2
  <2>2. CASE m # n
    <3>1. m \in DOMAIN t /\ u[m].children = t[m].children
      BY <1>2, <2>1, <2>2
    <3>2. /\ i \in DOMAIN t[m].children /\ j \in DOMAIN t[m].children
          /\ t[m].children[i] \in DOMAIN t /\ t[m].children[j] \in DOMAIN t
      BY <1>3, <3>1
    <3> QED BY <1>2, <3>1, <3>2 DEF GoodTree, ProperLists
  <2>3. CASE m = n
    <3>1. \A k \in 1 .. L + 1 :
             /\ k = 1 => u[n].children[k] = new
             /\ k # 1 => u[n].children[k] = old[k - 1] /\ k - 1 \in 1 .. L
      BY <1>4
    <3>2. ASSUME NEW k \in 1 .. L + 1
          PROVE  /\ u[u[n].children[k]].parent = n
                 /\ k = 1 => u[u[n].children[k]].name = part
                 /\ k # 1 => u[u[n].children[k]].name = t[old[k - 1]].name
      <4>1. CASE k = 1
        BY <1>2, <3>1, <4>1
      <4>2. CASE k # 1
        <5>1. u[n].children[k] = old[k - 1] /\ k - 1 \in 1 .. L
          BY <3>1, <4>2
        <5>2. old[k - 1] \in DOMAIN t /\ t[old[k - 1]].parent = n
          BY <1>6, <5>1
        <5> HIDE DEF old
        <5> QED BY <1>2, <4>2, <5>1, <5>2
      <4> QED BY <4>1, <4>2
    <3>3. i \in 1 .. L + 1 /\ j \in 1 .. L + 1
      BY <1>4, <2>3
    <3>4. CASE i = 1 \/ j = 1
      <4>1. ASSUME NEW k \in 1 .. L + 1, k # 1 PROVE u[u[n].children[k]].name # part
        <5>1. k - 1 \in 1 .. L /\ u[u[n].children[k]].name = t[old[k - 1]].name
          BY <3>1, <3>2, <4>1
        <5> HIDE DEF old
        <5> QED BY <1>6, <5>1
      <4> HIDE DEF old, L
      <4> QED BY <2>3, <3>2, <3>3, <3>4, <4>1
    <3>5. CASE i # 1 /\ j # 1
      <4>1. i - 1 \in DOMAIN old /\ j - 1 \in DOMAIN old
        BY <1>3, <3>1, <3>3, <3>5
      <4>2. t[old[i - 1]].name = t[old[j - 1]].name => i - 1 = j - 1
        BY <4>1 DEF GoodTree, ProperLists
      <4>3. i - 1 = j - 1 => i = j
        BY <1>4, <3>3
      <4> QED BY <2>3, <3>2, <3>3, <3>5, <4>2, <4>3
    <3> QED BY <3>4, <3>5
  <2> QED BY <2>2, <2>3
<1>8. \A m \in DOMAIN u : u[m].res_type = "kerndrv" => u[m].children = <<>>
  BY <1>2 DEF GoodTree
<1>9. \A m \in DOMAIN u \ {root} : u[m].name \in Names /\ u[m].parent \in DOMAIN u
  BY <1>2 DEF GoodTree
<1>10. \E q : IsPaths(u, q)
  <2>1. PICK p : IsPaths(t, p)
    BY DEF GoodTree
  <2> DEFINE q == [m \in DOMAIN u |-> IF m = new THEN Append(p[n], part) ELSE p[m]]
  <2>2. q \in [DOMAIN u -> Seq(Names)]
    <3>1. p[n] \in Seq(Names) /\ Append(p[n], part) \in Seq(Names)
      BY <2>1 DEF IsPaths
    <3> QED BY <1>2, <2>1, <3>1 DEF IsPaths
  <2>3. q[root] = <<>>
    BY <1>1, <1>2, <2>1 DEF IsPaths, TypedTree
  <2>4. ASSUME NEW m \in DOMAIN u \ {root} PROVE q[m] = Append(q[u[m].parent], u[m].name)
    <3>1. CASE m = new
      BY <1>2, <3>1
    <3>2. CASE m # new
      <4>1. m \in DOMAIN t \ {root} /\ t[m].parent \in DOMAIN t /\ t[m].parent # new
        BY <1>2, <2>4, <3>2 DEF GoodTree
      <4>2. p[m] = Append(p[t[m].parent], t[m].name)
        BY <2>1, <4>1 DEF IsPaths
      <4> QED BY <1>2, <3>2, <4>1, <4>2
    <3> QED BY <3>1, <3>2
  <2> HIDE DEF q
  <2> QED BY <2>2, <2>3, <2>4 DEF IsPaths
<1>11. GoodTree(u)
  BY <1>5, <1>7, <1>8, <1>9, <1>10 DEF GoodTree
<1>12. Grows(t, u)
  <2> SUFFICES ASSUME NEW m \in DOMAIN t
               PROVE  \E d \in Nat : /\ Len(u[m].children) = Len(t[m].children) + d
                                     /\ \A i \in 1 .. Len(t[m].children) :
                                            u[m].children[i + d] = t[m].children[i]
    BY <1>2 DEF Grows
  <2>1. CASE m = n
    BY <1>4, <2>1
  <2>2. CASE m # n
    <3>1. Len(u[m].children) = Len(t[m].children) + 0
          /\ \A i \in 1 .. Len(t[m].children) : u[m].children[i + 0] = t[m].children[i]
      BY <1>2, <1>3, <2>2
    <3> QED BY <3>1
  <2> QED BY <2>1, <2>2
<1>13. vfs_find_node(u, n, part) = new
  <2>1. part # ".."
    BY NamesAssumption
  <2>2. n \in DOMAIN u /\ u[n].res_type = "subdir" /\ u[u[n].children[1]].name = part
    BY <1>2, <1>4
  <2>3. PICK j \in 1 .. Len(u[n].children) :
            /\ ChildNamed(u, n, part) = u[n].children[j]
            /\ u[u[n].children[j]].name = part
    <3>1. 1 \in 1 .. Len(u[n].children)
      BY <1>4
    <3>2. \/ \A i \in 1 .. Len(u[n].children) : u[u[n].children[i]].name # part
          \/ \E i \in 1 .. Len(u[n].children) :
                /\ ChildNamed(u, n, part) = u[n].children[i]
                /\ u[u[n].children[i]].name = part
      BY <1>5, <2>2, NamedChild
    <3> QED BY <2>2, <3>1, <3>2
  <2>4. 1 \in DOMAIN u[n].children /\ j \in DOMAIN u[n].children
    BY <1>4
  <2>5. j = 1
    BY <1>7, <2>2, <2>3, <2>4 DEF ProperLists
  <2> QED BY <1>4, <2>1, <2>2, <2>3, <2>5 DEF vfs_find_node
<1> QED BY <1>11, <1>12, <1>13 DEF u

-----------------------------------------------------------------------------
Trees == UNION {[D -> Node(D)] : D \in SUBSET Nodes}

(* Where vfs_create_path's loop can be that began with the tree t.          *)
Stages(t) ==
    {s \in [tree : Trees, at : Nodes, stop : BOOLEAN] :
        GoodTree(s.tree) /\ s.at \in DOMAIN s.tree /\ Grows(t, s.tree)}

(* What makes a stage of a creation.                                        *)
LEMMA StageIs ==
    ASSUME NEW t, NEW u, GoodTree(u), Grows(t, u), NEW n \in DOMAIN u, NEW b \in BOOLEAN
    PROVE  [tree |-> u, at |-> n, stop |-> b] \in Stages(t)
<1>1. DOMAIN u \in SUBSET Nodes /\ u \in [DOMAIN u -> Node(DOMAIN u)] /\ n \in Nodes
  BY DEF GoodTree, TypedTree
<1>2. u \in Trees
  BY <1>1 DEF Trees
<1> QED BY <1>1, <1>2 DEF Stages

(* One turn keeps the tree a tree, and the node it gets to is found.        *)
LEMMA PartStep ==
    ASSUME NEW t, TypedTree(t), NEW s \in Stages(t), NEW part \in Names \cup {".."}
    PROVE  /\ CreatePart(s, part) \in Stages(t)
           /\ Grows(s.tree, CreatePart(s, part).tree)
           /\ ~CreatePart(s, part).stop =>
                  /\ ~s.stop
                  /\ vfs_find_node(CreatePart(s, part).tree, s.at, part) = CreatePart(s, part).at
<1> DEFINE r == CreatePart(s, part)
           child == vfs_find_node(s.tree, s.at, part)
           new == CHOOSE n \in Nodes : n \notin DOMAIN s.tree
<1>1. /\ s.tree \in Trees /\ s.at \in Nodes /\ s.stop \in BOOLEAN
      /\ s = [tree |-> s.tree, at |-> s.at, stop |-> s.stop]
      /\ GoodTree(s.tree) /\ s.at \in DOMAIN s.tree /\ Grows(t, s.tree)
  BY DEF Stages
<1>2. TypedTree(s.tree) /\ Grows(s.tree, s.tree)
  BY <1>1, GrowsReflexive DEF GoodTree
<1>3. child \in DOMAIN s.tree \cup {None} /\ (part = ".." => child \in DOMAIN s.tree)
  BY <1>1, FindType
<1>4. None \notin DOMAIN s.tree
  BY <1>2, NodesAssumption DEF TypedTree
<1>5. CASE s.stop
  BY <1>2, <1>5 DEF CreatePart
<1>6. CASE ~s.stop /\ child # None
  <2>1. r = [tree |-> s.tree, at |-> child, stop |-> s.stop]
    BY <1>1, <1>6 DEF CreatePart
  <2>2. r \in Stages(t)
    BY <1>1, <1>3, <1>6, <2>1, StageIs
  <2> QED BY <1>2, <1>6, <2>1, <2>2
<1>7. CASE ~s.stop /\ child = None /\ s.tree[s.at].res_type = "subdir" /\ Nodes # DOMAIN s.tree
  <2>1. new \in Nodes /\ new \notin DOMAIN s.tree
    <3>1. \E n \in Nodes : n \notin DOMAIN s.tree
      BY <1>2, <1>7 DEF TypedTree
    <3> QED BY <3>1
  <2> HIDE DEF new
  <2>2. part \in Names /\ part # ".." /\ ChildNamed(s.tree, s.at, part) = None
    BY <1>3, <1>4, <1>7, NamesAssumption DEF vfs_find_node
  <2> DEFINE u == Inserted(s.tree, s.at, new, part)
  <2>3. GoodTree(u) /\ Grows(s.tree, u) /\ vfs_find_node(u, s.at, part) = new
    BY <1>1, <1>7, <2>1, <2>2, InsertedTree
  <2>4. new \in DOMAIN u
    BY DEF Inserted
  <2>5. r = [tree |-> u, at |-> new, stop |-> FALSE]
    BY <1>7 DEF CreatePart, new
  <2> HIDE DEF u
  <2>6. Grows(t, u)
    BY <1>1, <2>3, GrowsTransitive
  <2>7. r \in Stages(t)
    BY <2>3, <2>4, <2>5, <2>6, StageIs
  <2> QED BY <1>7, <2>3, <2>5, <2>7
<1>8. CASE ~s.stop /\ child = None /\ ~(s.tree[s.at].res_type = "subdir" /\ Nodes # DOMAIN s.tree)
  <2>1. r = [tree |-> s.tree, at |-> s.at, stop |-> TRUE]
    BY <1>1, <1>8 DEF CreatePart
  <2>2. r \in Stages(t)
    BY <1>1, <2>1, StageIs
  <2> QED BY <1>2, <2>1, <2>2
<1> QED BY <1>1, <1>5, <1>6, <1>7, <1>8

(* The components of a path are parts a look-up takes.                      *)
LEMMA PathParts ==
    ASSUME NEW path \in Paths
    PROVE  path.parts \in Seq(Names \cup {".."}) /\ path.parts \in Seq(Part)
<1>1. PICK n \in 1 .. MaxParts : path.parts \in [1 .. n -> Names \cup {".."}]
  BY DEF Paths
<1>2. n \in Nat
  BY PartsAssumption
<1>3. path.parts \in Seq(Names \cup {".."})
  BY <1>1, <1>2
<1>4. Names \cup {".."} \subseteq Part
  BY DEF Part
<1> QED BY <1>3, <1>4, SeqMonotonic

IsTurns(path, w) ==
    /\ w[0] = [tree |-> tree, at |-> Start(tree, path), stop |-> FALSE]
    /\ \A k \in 1 .. Len(path.parts) : w[k] = CreatePart(w[k - 1], path.parts[k])

(* The turns of the loop, each in a stage of the creation.                  *)
LEMMA TurnsAre ==
    ASSUME GoodTree(tree), NEW path \in Paths, Start(tree, path) \in Created
    PROVE  /\ IsTurns(path, Turns(path))
           /\ Turns(path) \in [0 .. Len(path.parts) -> Stages(tree)]
<1> DEFINE S == Stages(tree)
           T == Names \cup {".."}
           parts == path.parts
           start == [tree |-> tree, at |-> Start(tree, path), stop |-> FALSE]
           f == [p \in T |-> [s \in S |-> CreatePart(s, p)]]
<1>1. TypedTree(tree) /\ Grows(tree, tree) /\ parts \in Seq(T)
  BY GrowsReflexive, PathParts DEF GoodTree
<1>2. \A p \in T : \A s \in S : CreatePart(s, p) \in S
  BY <1>1, PartStep
<1>3. f \in [T -> [S -> S]] /\ \A p \in T : \A s \in S : f[p][s] = CreatePart(s, p)
  BY <1>2
<1> HIDE DEF f
<1>4. start \in S
  BY <1>1, StageIs DEF Created
<1> HIDE DEF start, S, T, parts
<1>5. PICK w \in [0 .. Len(parts) -> S] : IsFold(f, start, parts, w)
  BY <1>1, <1>3, <1>4, FoldExists
<1> DEFINE L == 0 .. Len(parts)
           Body(g, k) == IF k = 0 THEN start ELSE CreatePart(g[k - 1], parts[k])
<1>6. Len(parts) \in Nat /\ \A k \in 1 .. Len(parts) : parts[k] \in T
  BY <1>1
<1>7. w = [k \in L |-> Body(w, k)]
  <2> SUFFICES ASSUME NEW k \in L PROVE w[k] = Body(w, k)
    BY <1>5
  <2>1. CASE k = 0
    BY <1>5, <2>1 DEF IsFold
  <2>2. CASE k # 0
    <3>1. k \in 1 .. Len(parts) /\ k - 1 \in 0 .. Len(parts)
      BY <1>6, <2>2
    <3>2. w[k - 1] \in S /\ parts[k] \in T
      BY <1>5, <1>6, <3>1
    <3>3. w[k] = CreatePart(w[k - 1], parts[k])
      BY <1>3, <1>5, <3>1, <3>2 DEF IsFold
    <3> QED BY <2>2, <3>3
  <2> QED BY <2>1, <2>2
<1> DEFINE at == CHOOSE g : g = [k \in L |-> Body(g, k)]
<1>8. at = [k \in L |-> Body(at, k)]
  <2> HIDE DEF Body, L
  <2> QED BY <1>7
<1>9. Turns(path) = at
  BY DEF Turns, start, parts
<1> HIDE DEF at
<1>10. at[0] = start /\ \A k \in 1 .. Len(parts) : at[k] = CreatePart(at[k - 1], parts[k])
  BY <1>6, <1>8
<1>11. at \in [L -> S]
  <2> DEFINE P == {k \in L : at[k] \in S}
  <2>1. 0 \in P
    BY <1>4, <1>6, <1>10
  <2>2. ASSUME NEW k \in 1 .. Len(parts), k - 1 \in P PROVE k \in P
    BY <1>2, <1>6, <1>10, <2>2
  <2>3. \A k \in L : k \in P
    <3> HIDE DEF P
    <3> QED BY <1>6, <2>1, <2>2, UpTo
  <2> QED BY <1>8, <2>3
<1> QED BY <1>9, <1>10, <1>11 DEF IsTurns, start, parts, S

(* vfs_create_path keeps the tree a tree and, unless it is stopped, gets to *)
(* a node that a look-up of the same path in the new tree finds.            *)
LEMMA PathCreated ==
    ASSUME GoodTree(tree), NEW path \in Paths, Start(tree, path) \in Created,
           NEW s, s = vfs_create_path(path)
    PROVE  /\ GoodTree(s.tree) /\ Grows(tree, s.tree)
           /\ s.at \in DOMAIN s.tree /\ s.stop \in BOOLEAN
           /\ ~s.stop => vfs_get_relative_node(s.tree, Start(tree, path), path.parts) = s.at
<1> DEFINE w == Turns(path)
           parts == path.parts
           N == Len(parts)
           start == Start(tree, path)
           Found(k) == \A j \in 1 .. k : /\ w[j - 1].at \in DOMAIN w[k].tree
                                         /\ vfs_find_node(w[k].tree, w[j - 1].at, parts[j]) = w[j].at
           P == {k \in 0 .. N : w[k].stop \/ Found(k)}
<1>1. IsTurns(path, w) /\ w \in [0 .. N -> Stages(tree)]
  BY TurnsAre
<1> HIDE DEF w
<1>2. parts \in Seq(Names \cup {".."}) /\ parts \in Seq(Part) /\ N \in Nat
      /\ \A k \in 1 .. N : parts[k] \in Names \cup {".."}
  BY PathParts
<1>3. \A k \in 0 .. N : /\ GoodTree(w[k].tree) /\ Grows(tree, w[k].tree)
                        /\ w[k].at \in DOMAIN w[k].tree /\ w[k].stop \in BOOLEAN
  BY <1>1 DEF Stages
<1>4. \A k \in 1 .. N : /\ Grows(w[k - 1].tree, w[k].tree)
                        /\ ~w[k].stop =>
                              /\ ~w[k - 1].stop
                              /\ vfs_find_node(w[k].tree, w[k - 1].at, parts[k]) = w[k].at
  <2> SUFFICES ASSUME NEW k \in 1 .. N
               PROVE  /\ Grows(w[k - 1].tree, w[k].tree)
                      /\ ~w[k].stop =>
                            /\ ~w[k - 1].stop
                            /\ vfs_find_node(w[k].tree, w[k - 1].at, parts[k]) = w[k].at
    OBVIOUS
  <2>1. k - 1 \in 0 .. N /\ parts[k] \in Names \cup {".."}
    BY <1>2
  <2>2. w[k - 1] \in Stages(tree) /\ w[k] = CreatePart(w[k - 1], parts[k]) /\ TypedTree(tree)
    BY <1>1, <2>1 DEF IsTurns, GoodTree
  <2> QED BY <2>1, <2>2, PartStep
<1>5. 0 \in P
  BY <1>2
<1>6. ASSUME NEW k \in 1 .. N, k - 1 \in P PROVE k \in P
  <2> SUFFICES ASSUME ~w[k].stop PROVE Found(k)
    <3>1. k \in 0 .. N
      BY <1>2
    <3> HIDE DEF Found
    <3> QED BY <3>1
  <2> SUFFICES ASSUME NEW j \in 1 .. k
               PROVE  /\ w[j - 1].at \in DOMAIN w[k].tree
                      /\ vfs_find_node(w[k].tree, w[j - 1].at, parts[j]) = w[j].at
    OBVIOUS
  <2>1. k - 1 \in 0 .. N /\ k \in 0 .. N /\ j \in 0 .. N
    BY <1>2
  <2>2. DOMAIN w[k - 1].tree \subseteq DOMAIN w[k].tree
    BY <1>4 DEF Grows
  <2>3. CASE j = k
    BY <1>3, <1>4, <2>1, <2>2, <2>3
  <2>4. CASE j # k
    <3>1. j \in 1 .. k - 1
      BY <1>2, <2>4
    <3>2. /\ w[j - 1].at \in DOMAIN w[k - 1].tree
          /\ vfs_find_node(w[k - 1].tree, w[j - 1].at, parts[j]) = w[j].at
      BY <1>4, <1>6, <3>1
    <3>3. w[j].at # None
      BY <1>3, <2>1, NodesAssumption DEF GoodTree, TypedTree
    <3>4. GoodTree(w[k - 1].tree) /\ GoodTree(w[k].tree) /\ Grows(w[k - 1].tree, w[k].tree)
      BY <1>3, <1>4, <2>1
    <3>5. vfs_find_node(w[k].tree, w[j - 1].at, parts[j]) = w[j].at
      BY <3>2, <3>3, <3>4, FoundStays
    <3> QED BY <2>2, <3>2, <3>5
  <2> QED BY <2>3, <2>4
<1>7. \A k \in 0 .. N : k \in P
  <2> HIDE DEF P
  <2> QED BY <1>2, <1>5, <1>6, UpTo
<1>8. s = w[N] /\ N \in 0 .. N
  BY <1>2 DEF vfs_create_path, w
<1>9. ASSUME ~s.stop PROVE vfs_get_relative_node(s.tree, start, parts) = s.at
  <2> DEFINE v == [k \in 0 .. N |-> w[k].at]
  <2>1. Found(N)
    BY <1>7, <1>8, <1>9
  <2>2. v[0] = start /\ v[N] = s.at
    BY <1>1, <1>2, <1>8 DEF IsTurns
  <2>3. ASSUME NEW k \in 1 .. N PROVE v[k] = NextNode(s.tree, v[k - 1], parts[k])
    <3>1. k - 1 \in 0 .. N /\ k \in 0 .. N
      BY <1>2
    <3>2. v[k - 1] = w[k - 1].at /\ v[k] = w[k].at
      BY <3>1
    <3>3. v[k - 1] # None
      BY <1>3, <3>1, <3>2, NodesAssumption DEF GoodTree, TypedTree
    <3>4. vfs_find_node(s.tree, w[k - 1].at, parts[k]) = w[k].at
      BY <1>8, <2>1
    <3> QED BY <3>2, <3>3, <3>4 DEF NextNode
  <2> HIDE DEF v
  <2>4. IsWalk(s.tree, start, parts, v)
    BY <2>2, <2>3 DEF IsWalk
  <2>5. GoodTree(s.tree) /\ start \in DOMAIN s.tree
    BY <1>3, <1>8 DEF Grows, Created
  <2>6. IsWalk(s.tree, start, parts, Walk(s.tree, start, parts))
    BY <1>2, <2>5, WalkIs
  <2>7. Walk(s.tree, start, parts)[N] = v[N]
    BY <1>2, <1>8, <2>4, <2>6, SameWalk
  <2> QED BY <2>2, <2>7 DEF vfs_get_relative_node
<1> QED BY <1>3, <1>8, <1>9

-----------------------------------------------------------------------------
(* What making a file of a node leaves: the other nodes are as they were.   *)
LEMMA FiledNodes ==
    ASSUME NEW t, TypedTree(t), NEW f \in DOMAIN t, NEW u, u = Filed(t, f)
    PROVE  /\ DOMAIN u = DOMAIN t
           /\ u \in [DOMAIN t -> Node(DOMAIN t)]
           /\ \A n \in DOMAIN t : /\ u[n].name = t[n].name /\ u[n].parent = t[n].parent
                                  /\ n # f => u[n] = t[n]
           /\ u[f].res_type = "kerndrv" /\ u[f].children = <<>>
<1>1. t[f] \in Node(DOMAIN t) /\ <<>> \in Seq(DOMAIN t)
  BY DEF TypedTree
<1>2. u[f] = [name |-> t[f].name, parent |-> t[f].parent,
              res_type |-> "kerndrv", children |-> <<>>]
  BY <1>1 DEF Filed, Node
<1>3. DOMAIN u = DOMAIN t /\ \A n \in DOMAIN t : n # f => u[n] = t[n]
  BY DEF Filed
<1>4. u[f] \in Node(DOMAIN t)
  BY <1>1, <1>2 DEF Node
<1>5. u = [n \in DOMAIN t |-> u[n]]
  BY DEF Filed
<1>6. \A n \in DOMAIN t : u[n] \in Node(DOMAIN t)
  BY <1>3, <1>4 DEF TypedTree
<1> QED BY <1>2, <1>3, <1>5, <1>6

(* The tree without what was below the file is a tree.                      *)
LEMMA FiledTree ==
    ASSUME NEW t, GoodTree(t), NEW f \in DOMAIN t
    PROVE  GoodTree(Filed(t, f))
<1> DEFINE u == Filed(t, f)
<1>1. TypedTree(t)
  BY DEF GoodTree
<1>2. /\ DOMAIN u = DOMAIN t
      /\ u \in [DOMAIN t -> Node(DOMAIN t)]
      /\ \A n \in DOMAIN t : /\ u[n].name = t[n].name /\ u[n].parent = t[n].parent
                             /\ n # f => u[n] = t[n]
      /\ u[f].res_type = "kerndrv" /\ u[f].children = <<>>
  BY <1>1, FiledNodes
<1> HIDE DEF u
<1>3. TypedTree(u)
  BY <1>1, <1>2 DEF TypedTree
<1>4. ProperLists(u)
  <2> SUFFICES ASSUME NEW m \in DOMAIN u, NEW i \in DOMAIN u[m].children, NEW j \in DOMAIN u[m].children
               PROVE  /\ u[u[m].children[i]].parent = m
                      /\ u[u[m].children[i]].name = u[u[m].children[j]].name => i = j
    BY DEF ProperLists
  <2>1. m # f /\ u[m] = t[m] /\ m \in DOMAIN t
    BY <1>2
  <2>2. t[m].children[i] \in DOMAIN t /\ t[m].children[j] \in DOMAIN t
    <3>1. t[m] \in Node(DOMAIN t)
      BY <1>1, <2>1 DEF TypedTree
    <3>2. t[m].children \in Seq(DOMAIN t)
      BY <3>1 DEF Node
    <3> QED BY <2>1, <3>2
  <2> QED BY <1>2, <2>1, <2>2 DEF GoodTree, ProperLists
<1>5. \A n \in DOMAIN u : u[n].res_type = "kerndrv" => u[n].children = <<>>
  BY <1>2 DEF GoodTree
<1>6. \A n \in DOMAIN u \ {root} : u[n].name \in Names /\ u[n].parent \in DOMAIN u
  BY <1>2 DEF GoodTree
<1>7. \E p : IsPaths(u, p)
  <2>1. PICK p : IsPaths(t, p)
    BY DEF GoodTree
  <2>2. IsPaths(u, p)
    BY <1>2, <2>1 DEF IsPaths
  <2> QED BY <2>2
<1> QED BY <1>3, <1>4, <1>5, <1>6, <1>7 DEF GoodTree, u

(* From the other nodes look-ups go on as before.                           *)
LEMMA FiledFind ==
    ASSUME NEW t, GoodTree(t), NEW f \in DOMAIN t, NEW n \in DOMAIN t, n # f, NEW part
    PROVE  vfs_find_node(Filed(t, f), n, part) = vfs_find_node(t, n, part)
<1> DEFINE u == Filed(t, f)
<1>1. TypedTree(t)
  BY DEF GoodTree
<1>2. /\ \A m \in DOMAIN t : u[m].name = t[m].name
      /\ u[n] = t[n]
  BY <1>1, FiledNodes
<1> HIDE DEF u
<1>3. \A i \in DOMAIN t[n].children : t[n].children[i] \in DOMAIN t
  <2>1. t[n] \in Node(DOMAIN t)
    BY <1>1 DEF TypedTree
  <2>2. t[n].children \in Seq(DOMAIN t)
    BY <2>1 DEF Node
  <2> QED BY <2>2
<1>4. Named(u, n, part) = Named(t, n, part)
  BY <1>2, <1>3 DEF Named
<1>5. ChildNamed(u, n, part) = ChildNamed(t, n, part)
  BY <1>2, <1>4 DEF ChildNamed
<1> QED BY <1>2, <1>5 DEF vfs_find_node, u

-----------------------------------------------------------------------------
(* A path of names is one a look-up takes, and it never goes up.            *)
LEMMA NamesAreParts ==
    ASSUME NEW path \in Seq(Names)
    PROVE  path \in Seq(Part) /\ \A k \in 1 .. Len(path) : path[k] \in Names /\ path[k] # ".."
<1>1. Names \subseteq Part
  BY DEF Part
<1> QED BY <1>1, SeqMonotonic, NamesAssumption

(* A path of names that meets a file leads to no directory.                 *)
LEMMA BlockedEnds ==
    ASSUME NEW t, GoodTree(t), NEW path \in Seq(Names), Blocked(t, path)
    PROVE  \/ vfs_get_relative_node(t, root, path) = None
           \/ t[vfs_get_relative_node(t, root, path)].res_type # "subdir"
<1> DEFINE w == Walk(t, root, path)
<1>1. Len(path) \in Nat /\ path \in Seq(Part) /\ \A k \in 1 .. Len(path) : path[k] # ".."
  BY NamesAreParts
<1>2. IsWalk(t, root, path, w)
  BY <1>1, WalkIs DEF GoodTree, TypedTree
<1>3. PICK k \in 0 .. Len(path) : w[k] # None /\ t[w[k]].res_type # "subdir"
  BY DEF Blocked
<1> HIDE DEF w
<1> DEFINE P == {j \in 0 .. Len(path) : j > k => w[j] = None}
<1>4. 0 \in P
  BY <1>1, <1>3
<1>5. ASSUME NEW j \in 1 .. Len(path), j - 1 \in P PROVE j \in P
  <2>1. w[j] = NextNode(t, w[j - 1], path[j]) /\ path[j] # ".."
    BY <1>1, <1>2 DEF IsWalk
  <2>2. CASE j - 1 = k
    BY <1>1, <1>3, <2>1, <2>2 DEF NextNode, vfs_find_node
  <2>3. CASE j - 1 > k
    BY <1>1, <1>3, <1>5, <2>1, <2>3 DEF NextNode
  <2>4. CASE j - 1 < k
    BY <1>1, <1>3, <2>4
  <2> QED BY <1>1, <1>3, <2>2, <2>3, <2>4
<1>6. \A j \in 0 .. Len(path) : j \in P
  <2> HIDE DEF P
  <2> QED BY <1>1, <1>4, <1>5, UpTo
<1>7. k = Len(path) \/ w[Len(path)] = None
  BY <1>1, <1>3, <1>6
<1> QED BY <1>3, <1>7 DEF vfs_get_relative_node, w

(* A listing goes on as promised while the tree grows.                      *)
LEMMA ListingGrows ==
    ASSUME NEW t, NEW u, GoodTree(t), GoodTree(u), Grows(t, u),
           NEW l, l.path \in Seq(Names), l.index \in Nat, Listing(t, l)
    PROVE  Listing(u, l)
<1> SUFFICES ASSUME l.phase # "idle"
             PROVE  \/ Blocked(u, l.path)
                    \/ /\ vfs_get_relative_node(u, root, l.path) \in DOMAIN u
                       /\ Ahead(u, vfs_get_relative_node(u, root, l.path), l)
  BY DEF Listing
<1> DEFINE path == l.path
           N == Len(path)
<1>1. path \in Seq(Part) /\ N \in Nat /\ N \in 0 .. N /\ root \in DOMAIN t /\ None \notin DOMAIN t
  BY NamesAreParts, NodesAssumption DEF GoodTree, TypedTree
<1>2. \A k \in 0 .. N : Walk(t, root, path)[k] # None =>
                            Walk(u, root, path)[k] = Walk(t, root, path)[k]
  BY <1>1, WalkStays
<1>3. CASE Blocked(t, path)
  <2>1. PICK k \in 0 .. N : /\ Walk(t, root, path)[k] # None
                            /\ t[Walk(t, root, path)[k]].res_type # "subdir"
    BY <1>3 DEF Blocked
  <2>2. Walk(t, root, path)[k] \in DOMAIN t
    BY <1>1, <2>1, WalkIs
  <2>3. u[Walk(t, root, path)[k]].res_type # "subdir"
    BY <2>1, <2>2 DEF Grows
  <2> QED BY <1>2, <2>1, <2>3 DEF Blocked
<1>4. CASE ~Blocked(t, path)
  <2> DEFINE dir == vfs_get_relative_node(t, root, path)
  <2>1. dir \in DOMAIN t /\ Ahead(t, dir, l)
    BY <1>4 DEF Listing
  <2>2. vfs_get_relative_node(u, root, path) = dir
    BY <1>1, <1>2, <2>1 DEF vfs_get_relative_node
  <2> HIDE DEF dir
  <2>3. dir \in DOMAIN u
    BY <2>1 DEF Grows
  <2>4. PICK d \in Nat : /\ Len(u[dir].children) = Len(t[dir].children) + d
                         /\ \A i \in 1 .. Len(t[dir].children) :
                                u[dir].children[i + d] = t[dir].children[i]
    BY <2>1 DEF Grows
  <2>5. Len(t[dir].children) \in Nat
    <3>1. t[dir] \in Node(DOMAIN t)
      BY <2>1 DEF GoodTree, TypedTree
    <3> QED BY <3>1 DEF Node
  <2>6. ASSUME NEW c \in l.known \ l.seen
        PROVE  /\ l.phase = "busy"
               /\ \E i \in 1 .. Len(u[dir].children) : l.index < i /\ u[dir].children[i] = c
    <3>1. PICK i \in 1 .. Len(t[dir].children) : l.index < i /\ t[dir].children[i] = c
      BY <2>1 DEF Ahead
    <3>2. i + d \in 1 .. Len(u[dir].children)
      BY <2>4, <2>5, <3>1
    <3>3. l.index < i + d
      BY <2>5, <3>1
    <3>4. u[dir].children[i + d] = c
      BY <2>4, <3>1
    <3> QED BY <2>1, <3>2, <3>3, <3>4 DEF Ahead
  <2>7. Ahead(u, dir, l)
    BY <2>6 DEF Ahead
  <2> QED BY <2>2, <2>3, <2>7
<1> QED BY <1>3, <1>4

(* It is cut off when a file takes the place of a directory of its path,    *)
(* and goes on when one takes the place of another node.                    *)
LEMMA ListingFiled ==
    ASSUME NEW t, GoodTree(t), NEW f \in DOMAIN t,
           NEW l, l.path \in Seq(Names), Listing(t, l)
    PROVE  Listing(Filed(t, f), l)
<1> DEFINE u == Filed(t, f)
           path == l.path
           N == Len(path)
           v == Walk(t, root, path)
           w == Walk(u, root, path)
<1> SUFFICES ASSUME l.phase # "idle"
             PROVE  \/ Blocked(u, path)
                    \/ /\ vfs_get_relative_node(u, root, path) \in DOMAIN u
                       /\ Ahead(u, vfs_get_relative_node(u, root, path), l)
  BY DEF Listing
<1>1. path \in Seq(Part) /\ N \in Nat /\ N \in 0 .. N /\ root \in DOMAIN t /\ None \notin DOMAIN t
      /\ TypedTree(t)
  BY NamesAreParts, NodesAssumption DEF GoodTree, TypedTree
<1>2. /\ DOMAIN u = DOMAIN t
      /\ \A n \in DOMAIN t : n # f => u[n] = t[n]
      /\ u[f].res_type = "kerndrv"
  BY <1>1, FiledNodes
<1>3. GoodTree(u)
  BY FiledTree
<1>4. \A n \in DOMAIN t : \A part : n # f => vfs_find_node(u, n, part) = vfs_find_node(t, n, part)
  BY FiledFind
<1> HIDE DEF u
<1>5. /\ IsWalk(t, root, path, v) /\ v \in [0 .. N -> DOMAIN t \cup {None}]
      /\ IsWalk(u, root, path, w) /\ w \in [0 .. N -> DOMAIN t \cup {None}]
  BY <1>1, <1>2, <1>3, WalkIs
<1>6. ASSUME NEW k \in 0 .. N, w[k] = f PROVE Blocked(u, path)
  BY <1>1, <1>2, <1>6 DEF Blocked
<1>7. ASSUME \A k \in 0 .. N : w[k] # f
      PROVE  \/ Blocked(u, path)
             \/ /\ vfs_get_relative_node(u, root, path) \in DOMAIN u
                /\ Ahead(u, vfs_get_relative_node(u, root, path), l)
  <2> HIDE DEF v, w
  <2> DEFINE P == {k \in 0 .. N : w[k] = v[k]}
  <2>1. 0 \in P
    BY <1>1, <1>5 DEF IsWalk
  <2>2. ASSUME NEW k \in 1 .. N, k - 1 \in P PROVE k \in P
    <3>1. k - 1 \in 0 .. N /\ k \in 0 .. N /\ w[k - 1] = v[k - 1]
      BY <1>1, <2>2
    <3>2. v[k] = NextNode(t, v[k - 1], path[k]) /\ w[k] = NextNode(u, v[k - 1], path[k])
      BY <1>5, <3>1 DEF IsWalk
    <3>3. v[k - 1] \in DOMAIN t \cup {None} /\ v[k - 1] # f
      BY <1>5, <1>7, <3>1
    <3> QED BY <1>4, <3>1, <3>2, <3>3 DEF NextNode
  <2>3. \A k \in 0 .. N : k \in P
    <3> HIDE DEF P
    <3> QED BY <1>1, <2>1, <2>2, UpTo
  <2>4. \A k \in 0 .. N : w[k] = v[k]
    BY <2>3
  <2>5. CASE Blocked(t, path)
    <3>1. PICK k \in 0 .. N : v[k] # None /\ t[v[k]].res_type # "subdir"
      BY <2>5 DEF Blocked, v
    <3>2. v[k] \in DOMAIN t /\ v[k] # f
      BY <1>5, <1>7, <2>4, <3>1
    <3>3. w[k] # None /\ u[w[k]].res_type # "subdir"
      BY <1>2, <2>4, <3>1, <3>2
    <3> QED BY <3>3 DEF Blocked, w
  <2>6. CASE ~Blocked(t, path)
    <3>1. v[N] \in DOMAIN t /\ Ahead(t, v[N], l)
      BY <2>6 DEF Listing, vfs_get_relative_node, v
    <3>2. w[N] = v[N] /\ v[N] # f
      BY <1>1, <1>7, <2>4
    <3>3. Ahead(u, v[N], l)
      BY <1>2, <3>1, <3>2 DEF Ahead
    <3> QED BY <1>2, <3>1, <3>2, <3>3 DEF vfs_get_relative_node, w
  <2> QED BY <2>5, <2>6
<1> QED BY <1>6, <1>7 DEF u

-----------------------------------------------------------------------------
(* The paths the kernel constructs are made of names.                       *)
LEMMA PathsAre ==
    ASSUME GoodTree(tree)
    PROVE  IsPaths(tree, AbsolutePath)
<1>1. PICK p : IsPaths(tree, p)
  BY DEF GoodTree
<1> DEFINE Body(g, n) == IF n = root THEN <<>> ELSE Append(g[tree[n].parent], tree[n].name)
           at == CHOOSE g : g = [n \in Created |-> Body(g, n)]
<1>2. root \in Created /\ \A n \in Created \ {root} : tree[n].parent \in Created /\ tree[n].name \in Names
  BY DEF GoodTree, TypedTree, Created
<1>3. p = [n \in Created |-> Body(p, n)]
  BY <1>1 DEF IsPaths, Created
<1>4. at = [n \in Created |-> Body(at, n)]
  <2> HIDE DEF Body
  <2> QED BY <1>3
<1>5. AbsolutePath = at
  BY DEF AbsolutePath
<1> HIDE DEF at
<1> DEFINE Bad == {Len(p[n]) : n \in {m \in Created : at[m] # p[m]}}
<1>6. p \in [Created -> Seq(Names)]
  BY <1>1 DEF IsPaths, Created
<1>7. ASSUME NEW b \in Created, at[b] # p[b] PROVE FALSE
  <2>1. Len(p[b]) \in Bad /\ Bad \in SUBSET Nat
    BY <1>6, <1>7
  <2>2. PICK x \in Bad : \A y \in Bad : ~(y < x)
    <3> HIDE DEF Bad
    <3> QED BY <2>1, Least
  <2>3. PICK n \in Created : at[n] # p[n] /\ Len(p[n]) = x
    BY <2>2
  <2>4. n # root
    BY <1>3, <1>4, <2>3
  <2>5. PICK m \in Created : m = tree[n].parent
    BY <1>2, <2>4
  <2>6. p[n] = Append(p[m], tree[n].name) /\ at[n] = Append(at[m], tree[n].name)
    BY <1>3, <1>4, <2>4, <2>5
  <2>7. Len(p[n]) = Len(p[m]) + 1 /\ Len(p[m]) \in Nat
    BY <1>2, <1>6, <2>4, <2>5, <2>6
  <2>8. Len(p[m]) \notin Bad
    BY <2>2, <2>3, <2>7
  <2>9. at[m] = p[m]
    BY <2>8
  <2> QED BY <2>3, <2>6, <2>9
<1>8. at = p
  BY <1>4, <1>6, <1>7
<1> QED BY <1>1, <1>5, <1>8

(* A path made of names leads down again: each node is found in the list of *)
(* its parent under its own name.                                           *)
LEMMA LeadBack ==
    ASSUME GoodTree(tree)
    PROVE  PathsLeadBack
<1> DEFINE S == {n \in Created : vfs_get_relative_node(tree, root, AbsolutePath[n]) = n}
<1>1. /\ root \in Created /\ None \notin Created /\ IsPaths(tree, AbsolutePath)
      /\ \A n \in Created : tree[n] \in Node(Created)
  BY PathsAre, NodesAssumption DEF GoodTree, TypedTree, Created
<1>2. root \in S
  <2>1. AbsolutePath[root] = <<>> /\ <<>> \in Seq(Part) /\ Len(<<>>) = 0
    BY <1>1 DEF IsPaths
  <2>2. IsWalk(tree, root, <<>>, Walk(tree, root, <<>>))
    BY <1>1, <2>1, WalkIs DEF Created
  <2> QED BY <1>1, <2>1, <2>2 DEF IsWalk, vfs_get_relative_node
<1>3. ASSUME NEW m \in S, NEW c \in Children(m) PROVE c \in S
  <2>1. tree[m].children \in Seq(Created)
    BY <1>1 DEF Node
  <2>2. PICK i \in DOMAIN tree[m].children : c = tree[m].children[i]
    BY DEF Children
  <2>3. c \in Created /\ tree[c].parent = m /\ i \in 1 .. Len(tree[m].children)
    BY <2>1, <2>2 DEF GoodTree, ProperLists, Created
  <2>4. CASE c = root
    BY <1>2, <2>4
  <2>5. CASE c # root
    <3> DEFINE path == AbsolutePath[m]
               name == tree[c].name
    <3>1. path \in Seq(Names) /\ path \in Seq(Part)
      BY <1>1, NamesAreParts DEF IsPaths, Created
    <3>2. name \in Names /\ name \in Part /\ name # ".."
      BY <2>3, <2>5, NamesAssumption DEF GoodTree, Part, Created
    <3>3. AbsolutePath[c] = Append(path, name)
      BY <1>1, <2>3, <2>5 DEF IsPaths, Created
    <3>4. vfs_get_relative_node(tree, root, AbsolutePath[c]) = NextNode(tree, m, name)
      <4> HIDE DEF path, name
      <4>1. vfs_get_relative_node(tree, root, path) = m
        BY DEF path
      <4> QED BY <1>1, <3>1, <3>2, <3>3, <4>1, WalkOfAppend DEF Created
    <3>5. tree[m].res_type = "subdir"
      <4>1. tree[m].children # <<>>
        BY <2>2
      <4> QED BY <1>1, <4>1 DEF GoodTree, Node, Created
    <3>6. PICK j \in 1 .. Len(tree[m].children) :
              /\ ChildNamed(tree, m, name) = tree[m].children[j]
              /\ tree[tree[m].children[j]].name = name
      BY <2>2, <2>3, NamedChild DEF GoodTree, Created
    <3>7. j = i
      <4>1. j \in DOMAIN tree[m].children
        BY <2>1
      <4> QED BY <2>2, <3>6, <4>1 DEF GoodTree, ProperLists, Created
    <3>8. vfs_find_node(tree, m, name) = c
      BY <2>2, <3>2, <3>5, <3>6, <3>7 DEF vfs_find_node
    <3>9. m # None
      BY <1>1
    <3> QED BY <2>3, <3>4, <3>8, <3>9 DEF NextNode
  <2> QED BY <2>4, <2>5
<1>4. \A n \in Reachable : n \in S
  <2>1. S \in SUBSET Created /\ \A m \in S : Children(m) \subseteq S
    BY <1>3
  <2> HIDE DEF S
  <2> QED BY <1>2, <2>1 DEF Reachable
<1> QED BY <1>4 DEF PathsLeadBack

-----------------------------------------------------------------------------
(* Where a path starts, and what it leads to, is a node or none.            *)
LEMMA StartType ==
    ASSUME TypeOK, GoodTree(tree), NEW path \in Paths
    PROVE  /\ Start(tree, path) \in Created \cup {None}
           /\ vfs_get_node(tree, path) \in Created \cup {None}
<1>1. execPath \in Seq(Part)
  <2>1. Garbage \in Seq(Part)
    BY DEF Garbage, Part
  <2> QED BY <2>1, NamesAreParts DEF TypeOK
<1>2. root \in Created /\ path.parts \in Seq(Part)
  BY PathParts DEF GoodTree, TypedTree, Created
<1>3. \A q \in Seq(Part) : \A n \in Created \cup {None} :
         vfs_get_relative_node(tree, n, q) \in Created \cup {None}
  <2> SUFFICES ASSUME NEW q \in Seq(Part), NEW n \in Created \cup {None}
               PROVE  Walk(tree, n, q)[Len(q)] \in Created \cup {None}
    BY DEF vfs_get_relative_node
  <2>1. Len(q) \in 0 .. Len(q)
    OBVIOUS
  <2> QED BY <2>1, WalkIs DEF Created
<1>4. Start(tree, path) \in Created \cup {None}
  BY <1>1, <1>2, <1>3 DEF Start
<1> QED BY <1>2, <1>3, <1>4 DEF vfs_get_node

(* In a tree that has grown a path starts at the same node.                 *)
LEMMA StartStays ==
    ASSUME TypeOK, GoodTree(tree), NEW path \in Paths, Start(tree, path) # None,
           NEW u, GoodTree(u), Grows(tree, u)
    PROVE  Start(u, path) = Start(tree, path)
<1>1. CASE path.absolute
  BY <1>1 DEF Start
<1>2. CASE ~path.absolute
  <2>1. execPath \in Seq(Part)
    <3>1. Garbage \in Seq(Part)
      BY DEF Garbage, Part
    <3> QED BY <3>1, NamesAreParts DEF TypeOK
  <2>2. Walk(tree, root, execPath)[Len(execPath)] # None /\ Len(execPath) \in 0 .. Len(execPath)
    BY <1>2, <2>1 DEF Start, vfs_get_relative_node
  <2>3. Walk(u, root, execPath)[Len(execPath)] = Walk(tree, root, execPath)[Len(execPath)]
    BY <2>1, <2>2, WalkStays DEF TypeOK, Created
  <2> QED BY <1>2, <2>3 DEF Start, vfs_get_relative_node
<1> QED BY <1>1, <1>2

-----------------------------------------------------------------------------
(* What creating a path does to the invariant's parts.                      *)
LEMMA CreationKeeps ==
    ASSUME Inv, NEW path \in Paths, Starts(path), NEW s, s = vfs_create_path(path)
    PROVE  /\ GoodTree(s.tree) /\ Created \subseteq DOMAIN s.tree
           /\ s.stop \in BOOLEAN
           /\ Listing(s.tree, ls)
           /\ ~s.stop => vfs_get_node(s.tree, path) \in DOMAIN s.tree
<1>1. TypeOK /\ GoodTree(tree) /\ Listing(tree, ls)
  BY DEF Inv
<1>2. Start(tree, path) \in Created /\ Start(tree, path) # None
  BY <1>1, StartType DEF Starts
<1>3. /\ GoodTree(s.tree) /\ Grows(tree, s.tree)
      /\ s.at \in DOMAIN s.tree /\ s.stop \in BOOLEAN
      /\ ~s.stop => vfs_get_relative_node(s.tree, Start(tree, path), path.parts) = s.at
  BY <1>1, <1>2, PathCreated
<1>4. Start(s.tree, path) = Start(tree, path)
  BY <1>1, <1>2, <1>3, StartStays
<1>5. ~s.stop => vfs_get_node(s.tree, path) = s.at
  BY <1>3, <1>4 DEF vfs_get_node
<1>6. Listing(s.tree, ls)
  BY <1>1, <1>3, ListingGrows DEF TypeOK
<1> QED BY <1>3, <1>5, <1>6 DEF Grows, Created

(* A tree that is good, larger and typed keeps the type invariant.          *)
LEMMA TypeKept ==
    ASSUME TypeOK, GoodTree(tree'), Created \subseteq DOMAIN tree',
           UNCHANGED <<execPath, booted, ls>>, halted' \in BOOLEAN, found' \in DOMAIN tree'
    PROVE  TypeOK'
<1>1. /\ root \in Created' /\ Created' \subseteq Nodes
      /\ tree' \in [Created' -> Node(Created')]
  BY DEF GoodTree, TypedTree, Created
<1>2. Created \subseteq Created' /\ found' \in Created'
  BY DEF Created
<1>3. ls' \in [phase : {"idle", "busy", "done"}, path : Seq(Names), index : Nat,
               known : SUBSET Created', seen : SUBSET Created']
  BY <1>2 DEF TypeOK
<1> QED BY <1>1, <1>2, <1>3 DEF TypeOK, Garbage

(* vfs_create_dir keeps the invariant: the tree grows.                      *)
LEMMA DirStep ==
    ASSUME Inv, NEW path \in Paths, vfs_create_dir(path)
    PROVE  Inv'
<1> DEFINE s == vfs_create_path(path)
<1>1. /\ Starts(path) /\ tree' = s.tree /\ halted' = s.stop
      /\ UNCHANGED <<execPath, booted, found, ls>>
  BY DEF vfs_create_dir
<1>2. /\ GoodTree(s.tree) /\ Created \subseteq DOMAIN s.tree
      /\ s.stop \in BOOLEAN /\ Listing(s.tree, ls)
  BY <1>1, CreationKeeps
<1> HIDE DEF s
<1>3. found' \in DOMAIN tree'
  BY <1>1, <1>2 DEF Inv, TypeOK
<1>4. TypeOK'
  BY <1>1, <1>2, <1>3, TypeKept DEF Inv
<1>5. GoodTree(tree') /\ Listing(tree', ls')
  BY <1>1, <1>2
<1> QED BY <1>4, <1>5 DEF Inv

(* vfs_create_kfile keeps it: the tree grows, and a node of it becomes a    *)
(* file.                                                                    *)
LEMMA FileStep ==
    ASSUME Inv, NEW path \in Paths, vfs_create_kfile(path)
    PROVE  Inv'
<1> DEFINE s == vfs_create_path(path)
<1>1. /\ Starts(path) /\ halted' = s.stop
      /\ \/ s.stop /\ tree' = s.tree /\ UNCHANGED found
         \/ ~s.stop /\ found' = vfs_get_node(s.tree, path) /\ tree' = Filed(s.tree, found')
      /\ UNCHANGED <<execPath, booted, ls>>
  BY DEF vfs_create_kfile, Filed
<1>2. /\ GoodTree(s.tree) /\ Created \subseteq DOMAIN s.tree
      /\ s.stop \in BOOLEAN /\ Listing(s.tree, ls)
      /\ ~s.stop => vfs_get_node(s.tree, path) \in DOMAIN s.tree
  BY <1>1, CreationKeeps
<1> HIDE DEF s
<1>3. CASE s.stop
  <2>1. found' \in DOMAIN tree'
    BY <1>1, <1>2, <1>3 DEF Inv, TypeOK
  <2>2. GoodTree(tree') /\ Listing(tree', ls') /\ Created \subseteq DOMAIN tree'
    BY <1>1, <1>2, <1>3
  <2>3. TypeOK'
    BY <1>1, <1>2, <2>1, <2>2, TypeKept DEF Inv
  <2> QED BY <2>2, <2>3 DEF Inv
<1>4. CASE ~s.stop
  <2>1. found' \in DOMAIN s.tree /\ tree' = Filed(s.tree, found')
    BY <1>1, <1>2, <1>4
  <2>2. PICK f \in DOMAIN s.tree : f = found'
    BY <2>1
  <2>3. GoodTree(Filed(s.tree, f)) /\ DOMAIN Filed(s.tree, f) = DOMAIN s.tree
    BY <1>2, FiledTree DEF Filed
  <2>4. Listing(Filed(s.tree, f), ls)
    BY <1>2, ListingFiled DEF Inv, TypeOK
  <2>5. GoodTree(tree') /\ Listing(tree', ls') /\ Created \subseteq DOMAIN tree' /\ found' \in DOMAIN tree'
    BY <1>1, <1>2, <2>1, <2>2, <2>3, <2>4
  <2>6. TypeOK'
    BY <1>1, <1>2, <2>5, TypeKept DEF Inv
  <2> QED BY <2>5, <2>6 DEF Inv
<1> QED BY <1>2, <1>3, <1>4

(* Changing the path keeps it: a constructed path is made of names.         *)
LEMMA PathStep ==
    ASSUME Inv, NEW path \in Paths, changeExecPath(path)
    PROVE  Inv'
<1>1. UNCHANGED <<tree, booted, halted, found, ls>>
  BY DEF changeExecPath
<1>2. execPath' \in Seq(Names) \cup {Garbage}
  <2> DEFINE node == vfs_get_node(tree, path)
  <2>1. node \in Created \cup {None}
    BY StartType DEF Inv
  <2>2. \A n \in Created : AbsolutePath[n] \in Seq(Names)
    BY PathsAre DEF Inv, IsPaths, Created
  <2> HIDE DEF node
  <2>3. \/ node # None /\ execPath' = AbsolutePath[node]
        \/ node = None /\ execPath' \in {execPath, Garbage}
    BY DEF changeExecPath, node
  <2> QED BY <2>1, <2>2, <2>3 DEF Inv, TypeOK
<1>3. Created' = Created
  BY <1>1 DEF Created
<1>4. TypeOK'
  BY <1>1, <1>2, <1>3 DEF Inv, TypeOK, Garbage
<1> QED BY <1>1, <1>4 DEF Inv

(* A listing starts with everything ahead of it.                            *)
LEMMA ListStart ==
    ASSUME Inv, NEW n \in Created, ls_start(AbsolutePath[n])
    PROVE  Inv'
<1> DEFINE path == AbsolutePath[n]
           dir == vfs_get_relative_node(tree, root, path)
<1>1. path \in Seq(Names)
  BY PathsAre DEF Inv, IsPaths, Created
<1>2. /\ dir # None
      /\ ls' = [phase |-> "busy", path |-> path, index |-> 0, known |-> Children(dir), seen |-> {}]
      /\ UNCHANGED <<tree, execPath, booted, halted, found>>
  BY DEF ls_start
<1>3. dir \in Created
  <2> HIDE DEF path
  <2>1. path \in Seq(Part) /\ Len(path) \in 0 .. Len(path)
    BY <1>1, NamesAreParts
  <2>2. Walk(tree, root, path)[Len(path)] \in Created \cup {None}
    BY <2>1, WalkIs DEF Inv, GoodTree, TypedTree, Created
  <2> QED BY <1>2, <2>2 DEF vfs_get_relative_node
<1> HIDE DEF path, dir
<1>4. tree[dir].children \in Seq(Created) /\ DOMAIN tree[dir].children = 1 .. Len(tree[dir].children)
  <2>1. tree[dir] \in Node(Created)
    BY <1>3 DEF Inv, TypeOK
  <2> QED BY <2>1 DEF Node
<1>5. Children(dir) \in SUBSET Created
  BY <1>4 DEF Children
<1>6. TypeOK'
  <2>1. ls' \in [phase : {"idle", "busy", "done"}, path : Seq(Names), index : Nat,
                 known : SUBSET Created, seen : SUBSET Created]
    BY <1>1, <1>2, <1>5
  <2>2. Created' = Created
    BY <1>2 DEF Created
  <2> QED BY <1>2, <2>1, <2>2 DEF Inv, TypeOK, Garbage
<1>7. Ahead(tree, dir, ls')
  <2> SUFFICES ASSUME NEW c \in Children(dir)
               PROVE  \E i \in 1 .. Len(tree[dir].children) : 0 < i /\ tree[dir].children[i] = c
    BY <1>2 DEF Ahead
  <2> QED BY <1>4 DEF Children
<1>8. Listing(tree', ls')
  <2>1. ls'.path = path /\ vfs_get_relative_node(tree, root, path) = dir
    BY <1>2 DEF dir
  <2>2. Listing(tree, ls')
    BY <1>3, <1>7, <2>1 DEF Listing, Created
  <2> QED BY <1>2, <2>2
<1> QED BY <1>2, <1>6, <1>8 DEF Inv

(* Its turns take what is next, or find the end with nothing left.          *)
LEMMA ListTurn ==
    ASSUME Inv, ls_next
    PROVE  Inv'
<1> DEFINE dir == vfs_get_relative_node(tree, root, ls.path)
           children == IF dir = None THEN <<>> ELSE tree[dir].children
<1>1. /\ ls.phase = "busy"
      /\ ls' = IF ls.index < Len(children)
               THEN [ls EXCEPT !.index = @ + 1, !.seen = @ \cup {ChildAt(children, ls.index)}]
               ELSE [ls EXCEPT !.phase = "done"]
      /\ UNCHANGED <<tree, execPath, booted, halted, found>>
  BY DEF ls_next
<1>2. ls \in [phase : {"idle", "busy", "done"}, path : Seq(Names), index : Nat,
              known : SUBSET Created, seen : SUBSET Created]
  BY DEF Inv, TypeOK
<1>3. dir \in Created \cup {None}
  <2>1. ls.path \in Seq(Part) /\ Len(ls.path) \in 0 .. Len(ls.path)
    BY <1>2, NamesAreParts
  <2>2. Walk(tree, root, ls.path)[Len(ls.path)] \in Created \cup {None}
    BY <2>1, WalkIs DEF Inv, GoodTree, TypedTree, Created
  <2> QED BY <2>2 DEF vfs_get_relative_node
<1>4. children \in Seq(Created)
  <2>1. CASE dir = None
    BY <2>1
  <2>2. CASE dir # None
    <3>1. tree[dir] \in Node(Created)
      BY <1>3, <2>2 DEF Inv, TypeOK
    <3> QED BY <2>2, <3>1 DEF Node
  <2> QED BY <2>1, <2>2
<1>5. \/ Blocked(tree, ls.path)
      \/ dir \in Created /\ children = tree[dir].children /\ Ahead(tree, dir, ls)
  <2>1. None \notin Created
    BY NodesAssumption DEF Inv, TypeOK
  <2> QED BY <1>1, <2>1 DEF Inv, Listing, Created
<1> HIDE DEF children
<1>6. CASE ls.index < Len(children)
  <2> DEFINE c == children[ls.index + 1]
  <2>1. c \in Created
    BY <1>2, <1>4, <1>6
  <2>2. ls' = [ls EXCEPT !.index = ls.index + 1, !.seen = ls.seen \cup {c}]
    BY <1>1, <1>6 DEF ChildAt
  <2> HIDE DEF c
  <2>3. /\ ls' \in [phase : {"idle", "busy", "done"}, path : Seq(Names), index : Nat,
                    known : SUBSET Created, seen : SUBSET Created]
        /\ ls'.path = ls.path /\ ls'.known = ls.known /\ ls'.seen = ls.seen \cup {c}
        /\ ls'.index = ls.index + 1 /\ ls'.phase = "busy"
    <3>1. ls' = [phase |-> "busy", path |-> ls.path, index |-> ls.index + 1,
                 known |-> ls.known, seen |-> ls.seen \cup {c}]
      BY <1>1, <1>2, <2>2
    <3>2. ls.index + 1 \in Nat /\ ls.seen \cup {c} \in SUBSET Created
      BY <1>2, <2>1
    <3> QED BY <1>2, <3>1, <3>2
  <2>4. ASSUME children = tree[dir].children, Ahead(tree, dir, ls)
        PROVE  Ahead(tree, dir, ls')
    <3> SUFFICES ASSUME NEW x \in ls.known \ ls.seen, x # c
                 PROVE  \E i \in 1 .. Len(children) : ls.index + 1 < i /\ children[i] = x
      BY <2>3, <2>4 DEF Ahead
    <3>1. PICK i \in 1 .. Len(children) : ls.index < i /\ children[i] = x
      BY <2>4 DEF Ahead
    <3>2. i # ls.index + 1
      BY <3>1 DEF c
    <3>3. ls.index + 1 < i
      BY <1>2, <3>1, <3>2
    <3> QED BY <3>1, <3>3
  <2>5. Listing(tree, ls')
    BY <1>5, <2>3, <2>4 DEF Listing, Created
  <2>6. TypeOK'
    <3>1. Created' = Created
      BY <1>1 DEF Created
    <3> QED BY <1>1, <2>3, <3>1 DEF Inv, TypeOK, Garbage
  <2> QED BY <1>1, <2>5, <2>6 DEF Inv
<1>7. CASE ~(ls.index < Len(children))
  <2>1. /\ ls' \in [phase : {"idle", "busy", "done"}, path : Seq(Names), index : Nat,
                    known : SUBSET Created, seen : SUBSET Created]
        /\ ls'.path = ls.path /\ ls'.known = ls.known /\ ls'.seen = ls.seen
        /\ ls'.index = ls.index /\ ls'.phase = "done"
    BY <1>1, <1>2, <1>7
  <2>2. ASSUME children = tree[dir].children, Ahead(tree, dir, ls)
        PROVE  Ahead(tree, dir, ls')
    <3> SUFFICES ASSUME NEW x \in ls.known \ ls.seen PROVE FALSE
      BY <2>1 DEF Ahead
    <3>1. PICK i \in 1 .. Len(children) : ls.index < i
      BY <2>2 DEF Ahead
    <3> QED BY <1>2, <1>4, <1>7, <3>1
  <2>3. Listing(tree, ls')
    BY <1>5, <2>1, <2>2 DEF Listing, Created
  <2>4. TypeOK'
    <3>1. Created' = Created
      BY <1>1 DEF Created
    <3> QED BY <1>1, <2>1, <3>1 DEF Inv, TypeOK, Garbage
  <2> QED BY <1>1, <2>3, <2>4 DEF Inv
<1> QED BY <1>6, <1>7

(* The root alone is a tree.                                                *)
LEMMA InitInv == Init => Inv
<1> SUFFICES ASSUME Init PROVE Inv
  OBVIOUS
<1>1. /\ tree = [n \in {root} |->
                    [name |-> "$", parent |-> None, res_type |-> "subdir", children |-> <<>>]]
      /\ execPath = <<>> /\ booted = FALSE /\ halted = FALSE /\ found = root
      /\ ls = [phase |-> "idle", path |-> <<>>, index |-> 0, known |-> {}, seen |-> {}]
  BY DEF Init
<1>2. Created = {root} /\ DOMAIN tree = {root}
  BY <1>1 DEF Created
<1>3. tree[root] = [name |-> "$", parent |-> None, res_type |-> "subdir", children |-> <<>>]
  BY <1>1
<1>4. tree[root] \in Node({root})
  <2>1. <<>> \in Seq({root})
    OBVIOUS
  <2> QED BY <1>3, <2>1 DEF Node
<1>5. tree \in [{root} -> Node({root})]
  BY <1>1, <1>4
<1>6. TypeOK
  <2>1. <<>> \in Seq(Names)
    OBVIOUS
  <2> QED BY <1>1, <1>2, <1>5, <2>1, NodesAssumption DEF TypeOK
<1>7. IsPaths(tree, [n \in {root} |-> <<>>])
  BY <1>2 DEF IsPaths
<1>8. GoodTree(tree)
  <2>1. TypedTree(tree)
    BY <1>2, <1>5, NodesAssumption DEF TypedTree
  <2>2. ProperLists(tree)
    BY <1>2, <1>3 DEF ProperLists
  <2> QED BY <1>2, <1>3, <1>7, <2>1, <2>2 DEF GoodTree
<1>9. Listing(tree, ls)
  BY <1>1 DEF Listing
<1> QED BY <1>6, <1>8, <1>9 DEF Inv

(* Every step keeps the invariant.                                          *)
LEMMA InvStep == Inv /\ [Next]_vars => Inv'
<1> SUFFICES ASSUME Inv, [Next]_vars PROVE Inv'
  OBVIOUS
<1>1. CASE boot
  <2>1. Created' = Created
    BY <1>1 DEF boot, Created
  <2>2. TypeOK'
    BY <1>1, <2>1 DEF boot, Inv, TypeOK, Garbage
  <2> QED BY <1>1, <2>2 DEF boot, Inv
<1>2. ASSUME NEW path \in Paths,
             vfs_create_dir(path) \/ vfs_create_kfile(path) \/ changeExecPath(path)
      PROVE  Inv'
  BY <1>2, DirStep, FileStep, PathStep
<1>3. ASSUME NEW n \in Created, ls_start(AbsolutePath[n]) PROVE Inv'
  BY <1>3, ListStart
<1>4. CASE ls_next
  BY <1>4, ListTurn
<1>5. CASE UNCHANGED vars
  <2>1. Created' = Created
    BY <1>5 DEF vars, Created
  <2>2. TypeOK'
    BY <1>5, <2>1 DEF vars, Inv, TypeOK, Garbage
  <2> QED BY <1>5, <2>2 DEF vars, Inv
<1> QED BY <1>1, <1>2, <1>3, <1>4, <1>5 DEF Next

(* The tree, its paths and a listing under way, in every behaviour.         *)
THEOREM Invariance == Spec => []Inv
BY InitInv, InvStep, PTL DEF Spec

(* Every pointer of the tree leads to a node that was created, and a        *)
(* look-up on behalf of a create never returns none: vfs_create_kfile does  *)
(* not dereference a null pointer.                                          *)
THEOREM TypeCorrect == Spec => []TypeOK
<1>1. Inv => TypeOK
  BY DEF Inv
<1> QED BY <1>1, Invariance, PTL

(* Names are unique within a directory, and each node is in one list at     *)
(* most, that of its parent, whatever is created, in whatever order.        *)
THEOREM TreeCorrect == Spec => []ProperTree
<1>1. Inv => ProperTree
  BY DEF Inv, GoodTree, ProperLists, ProperTree, Created
<1> QED BY <1>1, Invariance, PTL

(* The path vfs_construct_absolute_path_for_node makes of a node that can   *)
(* be reached leads to that node, for trees of any depth.                   *)
THEOREM PathsCorrect == Spec => []PathsLeadBack
<1>1. Inv => PathsLeadBack
  BY LeadBack DEF Inv
<1> QED BY <1>1, Invariance, PTL

(* A listing by index, entry by entry, shows everything that was there when *)
(* it began, however much is created meanwhile.                             *)
THEOREM ListingCorrect == Spec => []ListingMissesNothing
<1>1. Inv => ListingMissesNothing
  <2> SUFFICES ASSUME Inv, ls.phase = "done",
                      vfs_get_relative_node(tree, root, ls.path) # None,
                      IsDir(vfs_get_relative_node(tree, root, ls.path))
               PROVE  ls.known \subseteq ls.seen
    BY DEF ListingMissesNothing
  <2>1. ~Blocked(tree, ls.path)
    BY BlockedEnds DEF Inv, TypeOK, IsDir
  <2>2. Ahead(tree, vfs_get_relative_node(tree, root, ls.path), ls)
    BY <2>1 DEF Inv, Listing
  <2> QED BY <2>2 DEF Ahead
<1> QED BY <1>1, Invariance, PTL
=============================================================================

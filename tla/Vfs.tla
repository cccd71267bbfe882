-------------------------------- MODULE Vfs --------------------------------
(***************************************************************************)
(* The tree of the virtual file system (vfs.c): how paths are looked up,    *)
(* created and constructed, what a program's own path does to that, and a   *)
(* program that lists a directory (ls.c) while another changes the tree.    *)
(*                                                                         *)
(* Nodes are never removed.  A path is a sequence of components, absolute   *)
(* or relative to the program's execPath; its spelling (repeated and        *)
(* trailing slashes, "." for the node one is at) is left out, and it has at *)
(* least one component.                                                     *)
(***************************************************************************)
EXTENDS Integers, Sequences, FiniteSets

CONSTANTS
    Names,      \* the names files and directories get
    Nodes,      \* bound: the nodes there can be
    root,       \* the root node
    MaxParts    \* bound on the components of a path

None == "none"

ASSUME NodesAssumption == root \in Nodes /\ None \notin Nodes
ASSUME NamesAssumption == Names \cap {".", "..", "$"} = {}
ASSUME PartsAssumption == MaxParts \in Nat

VARIABLES
    tree,       \* [node -> [name, parent, res_type, children]], newest child first
    execPath,   \* the program's path: the components from the root on
    booted,     \* the kernel has started init
    halted,     \* show_cod has stopped the system
    found,      \* the node the last vfs_create_kfile turned into a file, or None
    ls          \* the listing program

vars == <<tree, execPath, booted, halted, found, ls>>

Created == DOMAIN tree

IsDir(n) == tree[n].res_type = "subdir"

Children(n) == {tree[n].children[i] : i \in DOMAIN tree[n].children}

Paths ==
    [absolute : BOOLEAN, parts : UNION {[1 .. n -> Names \cup {".."}] : n \in 1 .. MaxParts}]

(* vfs_init_root.                                                           *)
Init ==
    /\ tree = [n \in {root} |->
                  [name |-> "$", parent |-> None, res_type |-> "subdir", children |-> <<>>]]
    /\ execPath = <<>> /\ booted = FALSE /\ halted = FALSE /\ found = root
    /\ ls = [phase |-> "idle", path |-> <<>>, index |-> 0, known |-> {}, seen |-> {}]

-----------------------------------------------------------------------------
(* The entries of directory n with a name, as places in its list.           *)
Named(t, n, part) == {i \in DOMAIN t[n].children : t[t[n].children[i]].name = part}

(* Mutant: only the first node of the list is compared.                     *)
ChildNamed_First(t, n, part) == IF 1 \in Named(t, n, part) THEN t[n].children[1] ELSE None

ChildNamed(t, n, part) ==
    IF Named(t, n, part) = {} THEN None
    ELSE t[n].children[CHOOSE i \in Named(t, n, part) : \A j \in Named(t, n, part) : i <= j]

(* vfs_find_node in the tree t.                                             *)
vfs_find_node(t, n, part) ==
    IF part = ".." THEN IF n = root THEN n ELSE t[n].parent
    ELSE IF t[n].res_type = "subdir" THEN ChildNamed(t, n, part) ELSE None

(* The nodes a look-up of parts passes, from n on; none stays none.         *)
Walk(t, n, parts) ==
    LET at[k \in 0 .. Len(parts)] ==
            IF k = 0 THEN n
            ELSE IF at[k - 1] = None THEN None ELSE vfs_find_node(t, at[k - 1], parts[k])
    IN at

vfs_get_relative_node(t, n, parts) == Walk(t, n, parts)[Len(parts)]

(* vfs_get_current_task_root_node_for_path.                                 *)
Start(t, path) ==
    IF path.absolute THEN root ELSE vfs_get_relative_node(t, root, execPath)

vfs_get_node(t, path) == vfs_get_relative_node(t, Start(t, path), path.parts)

(* vfs_construct_absolute_path_for_node.                                    *)
AbsolutePath ==
    LET path[n \in Created] ==
            IF n = root THEN <<>> ELSE Append(path[tree[n].parent], tree[n].name)
    IN path

-----------------------------------------------------------------------------
(* Mutants: the new node forgets the list it is put in front of; its parent *)
(* is not set but left at the root.                                         *)
Linked_Alone(children, n) == <<n>>

Linked(children, n) == <<n>> \o children

Parent_Root(n) == root

Parent(n) == n

(* vfs_insert_node of a new directory in n.                                 *)
Inserted(t, n, new, part) ==
    [m \in DOMAIN t \cup {new} |->
        IF m = new THEN [name |-> part, parent |-> Parent(n),
                         res_type |-> "subdir", children |-> <<>>]
        ELSE IF m = n THEN [t[n] EXCEPT !.children = Linked(@, new)]
        ELSE t[m]]

(* One turn of vfs_create_path's loop; s.at is the node it has got to.      *)
CreatePart(s, part) ==
    LET child == vfs_find_node(s.tree, s.at, part)
        new   == CHOOSE n \in Nodes : n \notin DOMAIN s.tree
    IN IF s.stop THEN s
       ELSE IF child # None THEN [s EXCEPT !.at = child]
       ELSE IF s.tree[s.at].res_type = "subdir" /\ Nodes # DOMAIN s.tree
       THEN [tree |-> Inserted(s.tree, s.at, new, part), at |-> new, stop |-> FALSE]
       ELSE [s EXCEPT !.stop = TRUE]

(* How far the loop has got after each part of the path.                    *)
Turns(path) ==
    LET s[k \in 0 .. Len(path.parts)] ==
            IF k = 0 THEN [tree |-> tree, at |-> Start(tree, path), stop |-> FALSE]
            ELSE CreatePart(s[k - 1], path.parts[k])
    IN s

vfs_create_path(path) == Turns(path)[Len(path.parts)]

(* The bound on Nodes: a path is created when there are nodes for it.       *)
Affordable(path) == Cardinality(Nodes \ Created) >= Len(path.parts)

(* Where the path of a program names nothing, the kernel dereferences a     *)
(* null pointer and the program ends; the tree stays as it is.              *)
Starts(path) == ~halted /\ Start(tree, path) # None

(* vfs_create_dir: the kernel itself, as it unpacks the initial tarball.    *)
vfs_create_dir(path) ==
    /\ ~booted /\ path.absolute /\ Starts(path) /\ Affordable(path)
    /\ tree' = vfs_create_path(path).tree
    /\ halted' = vfs_create_path(path).stop
    /\ UNCHANGED <<execPath, booted, found, ls>>

(* vfs_create_kfile: whatever the path names, also a directory with all     *)
(* that is in it, becomes a file.                                           *)
vfs_create_kfile(path) ==
    /\ booted \/ path.absolute
    /\ Starts(path) /\ Affordable(path)
    /\ LET s == vfs_create_path(path)
       IN /\ halted' = s.stop
          /\ \/ s.stop /\ tree' = s.tree /\ UNCHANGED found
             \/ /\ ~s.stop
                /\ found' = vfs_get_node(s.tree, path)
                /\ tree' = [n \in DOMAIN s.tree |->
                               IF n = found'
                               THEN [s.tree[n] EXCEPT !.res_type = "kerndrv", !.children = <<>>]
                               ELSE s.tree[n]]
    /\ UNCHANGED <<execPath, booted, ls>>

(***************************************************************************)
(* System call 7.  If the path names nothing, execPath is left pointing at  *)
(* the freed string: it stays readable, or becomes some other text.         *)
(***************************************************************************)
Garbage == <<"$">>

changeExecPath(path) ==
    /\ booted /\ ~halted
    /\ LET node == vfs_get_node(tree, path)
       IN \/ node # None /\ execPath' = AbsolutePath[node]
          \/ node = None /\ execPath' \in {execPath, Garbage}
    /\ UNCHANGED <<tree, booted, halted, found, ls>>

-----------------------------------------------------------------------------
(* ls on an absolute path: known is what the directory holds at the start.  *)
ls_start(path) ==
    LET dir == vfs_get_relative_node(tree, root, path)
    IN /\ booted /\ ~halted /\ ls.phase # "busy" /\ dir # None
       /\ IsDir(dir)
       /\ ls' = [phase |-> "busy", path |-> path, index |-> 0,
                 known |-> Children(dir), seen |-> {}]
       /\ UNCHANGED <<tree, execPath, booted, halted, found>>

(* Mutant: the walk along the list takes a step too many.                   *)
ChildAt_Next(children, index) ==
    children[IF index + 2 <= Len(children) THEN index + 2 ELSE Len(children)]

ChildAt(children, index) == children[index + 1]

(* vfs_get_child_of_path, once more; of an empty directory it dereferences  *)
(* a null pointer, which ends the program.                                  *)
ls_next ==
    LET dir      == vfs_get_relative_node(tree, root, ls.path)
        children == IF dir = None THEN <<>> ELSE tree[dir].children
    IN /\ ~halted /\ ls.phase = "busy"
       /\ ls' = IF ls.index < Len(children)
                THEN [ls EXCEPT !.index = @ + 1, !.seen = @ \cup {ChildAt(children, ls.index)}]
                ELSE [ls EXCEPT !.phase = "done"]
       /\ UNCHANGED <<tree, execPath, booted, halted, found>>

(* kernel_main executes init; from now on programs use the tree.            *)
boot ==
    /\ ~booted /\ ~halted
    /\ booted' = TRUE
    /\ UNCHANGED <<tree, execPath, halted, found, ls>>

Next ==
    \/ boot
    \/ \E path \in Paths :
         vfs_create_dir(path) \/ vfs_create_kfile(path) \/ changeExecPath(path)
    \/ \E n \in Created : ls_start(AbsolutePath[n])
    \/ ls_next

Spec == Init /\ [][Next]_vars

-----------------------------------------------------------------------------
(* The nodes that lists of children lead to from the root.                  *)
Reachable ==
    {n \in Created : \A S \in SUBSET Created :
        root \in S /\ (\A m \in S : Children(m) \subseteq S) => n \in S}

Node(created) ==
    [name : Names \cup {"$"}, parent : created \cup {None},
     res_type : {"subdir", "kerndrv"}, children : Seq(created)]

(* Every pointer of the tree leads to a node that was created, and a        *)
(* look-up on behalf of a create never returns none.                        *)
TypeOK ==
    /\ root \in Created /\ Created \subseteq Nodes
    /\ tree \in [Created -> Node(Created)]
    /\ execPath \in Seq(Names) \cup {Garbage}
    /\ booted \in BOOLEAN /\ halted \in BOOLEAN
    /\ found \in Created
    /\ ls \in [phase : {"idle", "busy", "done"}, path : Seq(Names), index : Nat,
               known : SUBSET Created, seen : SUBSET Created]

(* Names are unique within a directory, each node is in one directory at    *)
(* most, once, and that directory is its parent.                            *)
ProperTree ==
    \A n \in Created : \A i, j \in DOMAIN tree[n].children :
        /\ tree[tree[n].children[i]].parent = n
        /\ tree[tree[n].children[i]].name = tree[tree[n].children[j]].name => i = j

(* The path the kernel constructs for a node (getPathChild, changeExecPath) *)
(* leads back to that very node.                                            *)
PathsLeadBack ==
    \A n \in Reachable : vfs_get_relative_node(tree, root, AbsolutePath[n]) = n

(* A listing that ends has shown everything that was in the directory when  *)
(* it began, although each entry is looked up anew by its index while other *)
(* programs create files: as long as the directory is still one.            *)
ListingMissesNothing ==
    ls.phase = "done" =>
        LET dir == vfs_get_relative_node(tree, root, ls.path)
        IN dir = None \/ ~IsDir(dir) \/ ls.known \subseteq ls.seen
=============================================================================

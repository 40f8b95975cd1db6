------------------------------- MODULE HTree -------------------------------
(***************************************************************************)
(* LAB4's index of files (esqueleto/hierarchy_tree.c): a binary search     *)
(* tree on the names, whose nodes are also linked by directory.  A node is *)
(* named by its key; the recursive functions are those of the code, and    *)
(* return the nodes after the call and the new root of the subtree.        *)
(***************************************************************************)
EXTENDS Integers, FiniteSets

CONSTANTS Keys,       \* names, in their order; the least is the root directory
          Nil, Dir,   \* no node; the directory of a name, Nil for the root
          MaxInserts  \* bound on the files created

ASSUME HTreeAssumption == Keys \subseteq Nat /\ Nil \notin Keys

VARIABLES nodes, top,    \* the nodes, FreeNodes where there is none; file_tree
          indexed,       \* history: the files there should be
          inserts,       \* files created so far
          spoilt         \* a deletion destroyed its file twice: undefined behaviour

treeVars == <<nodes, top, indexed, inserts, spoilt>>

NoNode == [left |-> Nil, right |-> Nil, h_parent |-> Nil, h_next |-> Nil,
           h_children |-> Nil, size |-> 0]

SizeOf(t, n)       == IF n = Nil THEN 0 ELSE t[n].size
update_size(t, n)  == [t EXCEPT ![n].size = 1 + SizeOf(t, t[n].left) + SizeOf(t, t[n].right)]
is_minimum(t, n)   == t[n].left = Nil
DropNode(t, n)     == [t EXCEPT ![n] = NoNode]

\* h_node_init(): the new node is the first child of its directory.
h_node_init(t, k, hp) ==
  LET new == [NoNode EXCEPT !.size = 1, !.h_parent = hp,
                            !.h_next = IF hp = Nil THEN Nil ELSE t[hp].h_children] IN
    [n \in Keys |-> IF n = k THEN new
                    ELSE IF n = hp THEN [t[n] EXCEPT !.h_children = k] ELSE t[n]]

RECURSIVE h_tree_search(_, _, _)
h_tree_search(t, r, k) ==
  IF r = Nil \/ r = k THEN r
  ELSE h_tree_search(t, IF r < k THEN t[r].right ELSE t[r].left, k)

\* (Mutation: insertion does not count the new node in its ancestors.)
Linked_nosize(t, r, right, n) ==
  IF right THEN [t EXCEPT ![r].right = n] ELSE [t EXCEPT ![r].left = n]

\* root->right = n, or root->left = n; update_size(root).
Linked(t, r, right, n) ==
  update_size(IF right THEN [t EXCEPT ![r].right = n] ELSE [t EXCEPT ![r].left = n], r)

RECURSIVE h_tree_insert(_, _, _, _)
h_tree_insert(t, r, k, hp) ==
  IF r = Nil THEN [t |-> h_node_init(t, k, hp), r |-> k]
  ELSE IF k = r THEN [t |-> update_size(t, r), r |-> r]
  ELSE LET s == h_tree_insert(t, IF k > r THEN t[r].right ELSE t[r].left, k, hp)
       IN [t |-> Linked(s.t, r, k > r, s.r), r |-> r]

\* remove_child_from_h(): the chain of the directory without the node.
RECURSIVE Before(_, _, _)
Before(t, it, k) ==
  IF t[it].h_next \in {k, Nil} THEN it ELSE Before(t, t[it].h_next, k)

remove_child_from_h(t, k) ==
  LET hp == t[k].h_parent IN
    IF hp = Nil \/ t[hp].h_children = Nil THEN t
    ELSE IF t[hp].h_children = k THEN [t EXCEPT ![hp].h_children = t[k].h_next]
    ELSE [t EXCEPT ![Before(t, t[hp].h_children, k)].h_next = t[k].h_next]

swap_nodes(t, old, new) ==
  update_size(update_size(
    [t EXCEPT ![old].left = t[new].left, ![old].right = t[new].right,
              ![new].left = t[old].left, ![new].right = t[old].right], new), old)

\* The loop of delete_root(): the minimum m, its supposed parent mp.
RECURSIVE Descend(_, _, _)
Descend(t, m, mp) ==
  IF is_minimum(t, m) THEN [t |-> t, m |-> m, mp |-> mp]
  ELSE LET n == t[m].left IN Descend([t EXCEPT ![n].size = @ - 1], n, n)

RECURSIVE delete_root(_, _)
delete_root(t, r) ==
  LET right == t[r].right IN
    CASE t[r].left = Nil -> [t |-> DropNode(t, r), r |-> right]
      [] t[r].left # Nil /\ right = Nil -> [t |-> DropNode(t, r), r |-> t[r].left]
      [] t[r].left # Nil /\ right # Nil /\ is_minimum(t, right) ->
           [t |-> DropNode(update_size([t EXCEPT ![right].left = t[r].left], right), r),
            r |-> right]
      [] OTHER ->
           LET d == Descend([t EXCEPT ![right].size = @ - 1], t[right].left, right)
               s == delete_root(swap_nodes(d.t, r, d.m), r)
           IN [t |-> [s.t EXCEPT ![d.mp].left = s.r], r |-> d.m]

RECURSIVE h_tree_delete(_, _, _)
h_tree_delete(t, r, k) ==
  IF r = Nil THEN [t |-> t, r |-> r]
  ELSE IF r = k THEN delete_root(remove_child_from_h(t, k), k)
  ELSE LET s == h_tree_delete(t, IF r < k THEN t[r].right ELSE t[r].left, k)
       IN [t |-> Linked(s.t, r, r < k, s.r), r |-> r]

\* delete_root() calls data_destroy() again on the node it has moved down.
DestroysTwice(t, k) ==
  /\ t[k].left # Nil /\ t[k].right # Nil
  /\ ~is_minimum(t, t[k].right)

-----------------------------------------------------------------------------
\* fat_tree_init(), and the root directory.
TreeInit ==
  LET root == CHOOSE k \in Keys : \A j \in Keys : k <= j
      s    == h_tree_insert([k \in Keys |-> NoNode], Nil, root, Nil) IN
    /\ nodes = s.t /\ top = s.r
    /\ indexed = {root} /\ inserts = 0 /\ spoilt = FALSE

\* fat_tree_insert(): a file of a directory that is indexed; a name may come twice.
InsertFile(k) ==
  /\ ~spoilt /\ inserts < MaxInserts /\ Dir[k] \in indexed
  /\ LET s == h_tree_insert(nodes, top, k, Dir[k]) IN nodes' = s.t /\ top' = s.r
  /\ indexed' = indexed \union {k}
  /\ inserts' = inserts + 1
  /\ UNCHANGED spoilt

\* fat_tree_delete(), of a file, or of a directory that has no children.
DeleteFile(k) ==
  /\ ~spoilt /\ k \in indexed /\ Dir[k] # Nil
  /\ \A j \in indexed : Dir[j] # k
  /\ spoilt' = DestroysTwice(nodes, k)
  /\ LET s == h_tree_delete(nodes, top, k) IN nodes' = s.t /\ top' = s.r
  /\ indexed' = indexed \ {k}
  /\ UNCHANGED inserts

TreeNext == \E k \in Keys : InsertFile(k) \/ DeleteFile(k)
-----------------------------------------------------------------------------
(* Properties.                                                             *)

RECURSIVE Siblings(_, _)
Siblings(t, n) == IF n = Nil THEN {} ELSE {n} \union Siblings(t, t[n].h_next)

\* hierarchy_tree.c:17-22, whatever files come and go, in any order: the search
\* finds exactly the files there are, the sizes that flatten counts on are right,
\* and the chain of a directory lists its files, unless a deletion destroyed its
\* file twice.
IndexFindsAll ==
  ~spoilt =>
    /\ \A k \in Keys : h_tree_search(nodes, top, k) = IF k \in indexed THEN k ELSE Nil
    /\ SizeOf(nodes, top) = Cardinality(indexed)
    /\ \A d \in indexed : Siblings(nodes, nodes[d].h_children) = {k \in indexed : Dir[k] = d}
=============================================================================

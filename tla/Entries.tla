------------------------------ MODULE Entries ------------------------------
(***************************************************************************)
(* path_tree and resv_tree as sets of entries, one per tunnel id.  AvlTree *)
(* shows that the code's trees are this; Rsvpd uses it.                    *)
(***************************************************************************)

Lookup(tree, t) == {e \in tree : e.tunnel = t}

(* insert_node leaves the tree alone when the tunnel id is taken.          *)
Insert(tree, e) ==
  IF Lookup(tree, e.tunnel) = {} THEN tree \cup {e} ELSE tree

\* a mutant: delete_node does not find what it has to delete
WithoutNone(tree, tunnels) == tree

Without(tree, tunnels) == {e \in tree : e.tunnel \notin tunnels}
=============================================================================

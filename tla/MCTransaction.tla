---------------------------- MODULE MCTransaction ----------------------------
EXTENDS Transaction

(* Two files in either order, lists that overlap in part, and one that names
   a file twice. *)
Lists == {<<1, 2>>, <<2, 1>>, <<2, 2>>, <<2, 3>>}
Pairs == {<<1, 2>>, <<2, 1>>, <<2, 3>>}

Perms == Permutations(Procs)
==============================================================================

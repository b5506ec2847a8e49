-------------------------------- MODULE Mutex --------------------------------
(***************************************************************************)
(* What a lock file promises to the code that takes it, with nothing of    *)
(* how it is kept: one owner at a time, and an owner that loses the lock   *)
(* only by giving it up or by being dead.  LockFile implements this.       *)
(***************************************************************************)
CONSTANTS Procs,  \* processes that may take the lock
          Nobody  \* the owner of a free lock

VARIABLES owner,   \* the process the lock file names, or Nobody
          inside,  \* processes running the body the lock protects
          dead     \* processes that have been killed

vars == <<owner, inside, dead>>

Init == /\ owner = Nobody
        /\ inside = {}
        /\ dead = {}

(* A free lock is taken by a live process, which enters the body. *)
Enter(p) == /\ p \notin dead
            /\ owner = Nobody
            /\ owner' = p
            /\ inside' = inside \union {p}
            /\ UNCHANGED dead

(* The owner gives the lock up as it leaves the body. *)
Leave(p) == /\ p \in inside
            /\ owner = p
            /\ owner' = Nobody
            /\ inside' = inside \ {p}
            /\ UNCHANGED dead

(* A process is killed; a lock it owned stays behind, naming it. *)
Die(p) == /\ p \notin dead
          /\ dead' = dead \union {p}
          /\ inside' = inside \ {p}
          /\ UNCHANGED owner

(* A lock left behind by a dead owner becomes free. *)
Reclaim == /\ owner \in dead
           /\ owner' = Nobody
           /\ UNCHANGED <<inside, dead>>

Next == \/ \E p \in Procs : Enter(p) \/ Leave(p) \/ Die(p)
        \/ Reclaim

Spec == Init /\ [][Next]_vars
==============================================================================
